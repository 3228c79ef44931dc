------------------------- MODULE FileTransfer_proofs -------------------------
(***************************************************************************)
(* Proofs about FileTransfer, for any packfiles, peers, slots and sizes,   *)
(* and whatever faults there are.                                          *)
(*                                                                         *)
(* The session that the sender uses is a handshake: the message it waits   *)
(* for is on its way, at work, answered or lost.  From this follow the     *)
(* accounts and what is stored.  That a stored file stays needs what is    *)
(* known of two sessions that save the same file.  How much is stored at   *)
(* most is counted by the sessions that have passed the check of the       *)
(* allowance and by the saves that broke off.                              *)
(***************************************************************************)
EXTENDS FileTransfer, SequenceTheorems, FiniteSetTheorems, TLAPS

-----------------------------------------------------------------------------
(* Types.                                                                   *)

\* What a message can carry.
Carried == {"partial", "whole"}
Carrier == [seq : Nat, file : Files, data : Carried]
Busy == {"write", "count", "ack"}

SessionRecord ==
  [peer : Peers \cup {"none"}, open : BOOLEAN, count : Nat, out : Seq(Carrier),
   acks : Seq(Nat), next : Nat, rpc : Busy \cup {"closed", "read"}, msg : Seq(Carrier)]

\* A receiver that is at work is a peer's, and has a message.
SessionOK(r) ==
  /\ r \in SessionRecord
  /\ r.rpc # "closed" => r.peer \in Peers
  /\ r.rpc \in Busy => r.msg[1] \in Carrier

SessionsOK == sess \in [Slots -> SessionRecord] /\ \A s \in Slots : SessionOK(sess[s])

TypeInv ==
  /\ local \in [Files -> LocalStates]
  /\ spc \in {"scan", "sent", "wait", "confirmed", "remove"}
  /\ file \in Files \cup {NoFile}
  /\ conn \in Slots \cup {NoSlot}
  /\ transmitted \in [Peers -> Nat] /\ received \in [Peers -> Nat]
  /\ store \in [Peers -> [Files -> StoreStates]]
  /\ missed \in BOOLEAN /\ raced \subseteq Peers \X Files /\ broken \in [Peers -> Nat]
  /\ SessionsOK

LEMMA UnusedOK == SessionOK(Unused)
BY DEF SessionOK, SessionRecord, Unused, Busy

LEMMA TidyOK ==
  ASSUME NEW r, SessionOK(r)
  PROVE  SessionOK(Tidy(r))
BY UnusedOK DEF Tidy

\* One session is replaced.
LEMMA SetOK ==
  ASSUME SessionsOK, NEW s \in Slots, NEW r, SessionOK(r), Set(s, r)
  PROVE  /\ SessionsOK' /\ sess'[s] = r
         /\ \A t \in Slots \ {s} : sess'[t] = sess[t]
<1>1. /\ sess' \in [Slots -> SessionRecord] /\ sess'[s] = r
      /\ \A t \in Slots \ {s} : sess'[t] = sess[t]
  BY DEF Set, SessionsOK, SessionOK
<1>2. \A t \in Slots : SessionOK(sess'[t])
  BY <1>1 DEF SessionsOK
<1> QED BY <1>1, <1>2 DEF SessionsOK, SessionOK

LEMMA TypeInvIsTypeOK == TypeInv => TypeOK
<1> SUFFICES ASSUME TypeInv PROVE TypeOK
  OBVIOUS
<1>1. Carrier \subseteq Message
  BY DEF Carrier, Carried, Message
<1>2. Seq(Carrier) \subseteq Seq(Message)
  BY <1>1
<1>3. \A s \in Slots : sess[s] \in SessionRecord
  BY DEF TypeInv, SessionsOK
<1> QED BY <1>2, <1>3 DEF TypeInv, TypeOK, SessionRecord, Busy

LEMMA InitTypeInv == Init => TypeInv
<1> SUFFICES ASSUME Init PROVE TypeInv
  OBVIOUS
<1>1. SessionsOK
  BY UnusedOK DEF Init, SessionsOK, SessionOK
<1>2. missed \in BOOLEAN /\ raced \subseteq Peers \X Files
  BY DEF Init
<1>3. /\ local \in [Files -> LocalStates] /\ store \in [Peers -> [Files -> StoreStates]]
      /\ broken \in [Peers -> Nat]
      /\ transmitted \in [Peers -> Nat] /\ received \in [Peers -> Nat]
  BY DEF Init, LocalStates, StoreStates
<1> QED BY <1>1, <1>2, <1>3 DEF Init, TypeInv

-----------------------------------------------------------------------------
(* The session the sender uses carries one message at a time.               *)

\* The message m is the one the sender of session r is waiting for.
Awaited(r, m) == m.seq = r.count /\ m.file = file

\* Where the message is: lost with the receiver, on its way, in the receiver's
\* hands, or done with; then its ack is on its way back or has been handed out.
Lost(r) == r.rpc = "closed" /\ r.out = <<>> /\ r.acks = <<>>
OnItsWay(r) ==
  /\ r.rpc = "read" /\ r.acks = <<>>
  /\ r.out # <<>> /\ Tail(r.out) = <<>> /\ Awaited(r, Head(r.out))
AtWork(r) == r.rpc \in Busy /\ r.out = <<>> /\ r.acks = <<>> /\ Awaited(r, r.msg[1])
Answered(r) ==
  /\ r.rpc = "read" /\ r.out = <<>>
  /\ r.acks = <<>> \/ (Head(r.acks) = r.count /\ Tail(r.acks) = <<>>)

\* Nothing is under way.
Quiet(r) == r.out = <<>> /\ r.acks = <<>> /\ r.rpc \in {"read", "closed"}

InStep(r) ==
  IF spc \in {"sent", "wait"}
    THEN Lost(r) \/ OnItsWay(r) \/ AtWork(r) \/ Answered(r)
    ELSE Quiet(r)

ConnInv ==
  /\ conn = NoSlot => spc = "scan"
  /\ spc # "scan" => file \in Files
  /\ conn # NoSlot => sess[conn].open /\ sess[conn].peer \in Peers /\ InStep(sess[conn])

\* From when on the peer has written, and counted, what the sender waits for.
Written(r) ==
  \/ spc \in {"sent", "wait"} /\ (r.rpc \in {"count", "ack"} \/ Answered(r))
  \/ spc \in {"confirmed", "remove"}
Counted(r) ==
  \/ spc \in {"sent", "wait"} /\ (r.rpc = "ack" \/ Answered(r))
  \/ spc = "confirmed"

WrittenInv ==
  conn # NoSlot /\ Written(sess[conn]) => Kept(sess[conn].peer, file)

CountedInv ==
  /\ SenderNeverAhead
  /\ conn # NoSlot /\ Counted(sess[conn]) =>
       LET p == sess[conn].peer IN transmitted[p] + FileSize <= received[p]

\* An ack that is gone while the sender still wants it was handed out too early.
AckInv ==
  conn # NoSlot /\ spc \in {"sent", "wait"} /\ Answered(sess[conn]) =>
    sess[conn].acks # <<>> \/ missed

Inv == TypeInv /\ ConnInv /\ CountedInv /\ AckInv /\ WrittenInv /\ DeletedFilesAreKept

\* Two sessions are about to save the same file only if that was recorded, and only
\* then a file may be there already.
SaveOK(s) ==
  LET p == sess[s].peer
      f == sess[s].msg[1].file
  IN \/ <<p, f>> \in raced
     \/ store[p][f] = "none" /\ \A t \in Slots \ {s} : ~Saving(t, p, f)
RaceInv == \A s \in Slots : sess[s].rpc = "write" => SaveOK(s)

-----------------------------------------------------------------------------
(* What keeps the invariant.                                                *)

LEMMA InitInv == Init => Inv
<1> SUFFICES ASSUME Init PROVE Inv
  OBVIOUS
<1>1. ConnInv /\ CountedInv /\ AckInv /\ WrittenInv
  BY SentinelAssumption
  DEF Init, ConnInv, CountedInv, AckInv, WrittenInv, SenderNeverAhead
<1>2. DeletedFilesAreKept
  BY DEF Init, DeletedFilesAreKept
<1> QED BY <1>1, <1>2, InitTypeInv DEF Inv

\* No file that a peer has is taken from it.
StoreKept == \A p \in Peers, f \in Files : Kept(p, f) => Kept(p, f)'

LEMMA SameStoreKept == store' = store /\ raced \subseteq raced' => StoreKept
BY DEF StoreKept, Kept

LEMMA DeletedKept ==
  ASSUME DeletedFilesAreKept, StoreKept, local' = local
  PROVE  DeletedFilesAreKept'
BY DEF DeletedFilesAreKept, StoreKept

\* Steps of the sessions the sender does not use.
LEMMA OtherSession ==
  ASSUME Inv, TypeInv', UNCHANGED senderVars,
         conn # NoSlot => sess'[conn] = sess[conn],
         \A p \in Peers : received[p] <= received'[p], StoreKept
  PROVE  Inv'
<1> USE DEF Inv, senderVars
<1>1. ConnInv'
  BY DEF ConnInv, InStep, Lost, OnItsWay, AtWork, Answered, Awaited, Quiet
<1>2. CountedInv'
  <2>1. SenderNeverAhead'
    BY DEF TypeInv, CountedInv, SenderNeverAhead
  <2>2. ASSUME conn # NoSlot, Counted(sess[conn])'
        PROVE  LET p == sess[conn].peer IN transmitted[p] + FileSize <= received'[p]
    <3>1. Counted(sess[conn]) /\ sess[conn].peer \in Peers
      BY <2>2 DEF Counted, Answered, ConnInv
    <3> QED BY <2>2, <3>1, SizeAssumption DEF CountedInv, TypeInv
  <2> QED BY <2>1, <2>2 DEF CountedInv
<1>3. AckInv'
  BY DEF AckInv, Answered
<1>4. WrittenInv'
  <2> SUFFICES ASSUME conn # NoSlot, Written(sess[conn])'
               PROVE  Kept(sess[conn].peer, file)'
    BY DEF WrittenInv
  <2>1. Written(sess[conn]) /\ sess[conn].peer \in Peers /\ file \in Files
    BY DEF Written, Answered, ConnInv
  <2>2. Kept(sess[conn].peer, file)'
    BY <2>1 DEF WrittenInv, StoreKept, Kept
  <2> QED BY <2>2
<1>5. DeletedFilesAreKept'
  BY DeletedKept
<1> QED BY <1>1, <1>2, <1>3, <1>4, <1>5

\* A step of a session that changes nothing else.
LEMMA SessionTypeInv ==
  ASSUME TypeInv, NEW s \in Slots, NEW r, SessionOK(r), Set(s, r),
         UNCHANGED <<local, file, transmitted, store, received, broken>>,
         missed' \in BOOLEAN, raced' \subseteq Peers \X Files,
         spc' \in {"scan", "sent", "wait", "confirmed", "remove"},
         conn' \in Slots \cup {NoSlot}
  PROVE  /\ TypeInv' /\ sess'[s] = r
         /\ \A t \in Slots \ {s} : sess'[t] = sess[t]
BY SetOK DEF TypeInv, peerVars

-----------------------------------------------------------------------------
(* The sessions.                                                            *)

LEMMA ProcessAckInv ==
  ASSUME Inv, NEW s \in Slots, ProcessAck(s)
  PROVE  Inv'
<1> DEFINE r == [sess[s] EXCEPT !.acks = Tail(@)]
<1>0. TypeInv /\ ConnInv /\ SessionOK(sess[s]) /\ sess[s].acks # <<>>
  BY DEF Inv, TypeInv, SessionsOK, ProcessAck
<1>1. /\ SessionOK(r) /\ r.acks = Tail(sess[s].acks)
      /\ r.peer = sess[s].peer /\ r.open = sess[s].open /\ r.count = sess[s].count
      /\ r.out = sess[s].out /\ r.rpc = sess[s].rpc /\ r.msg = sess[s].msg
  BY <1>0, HeadTailProperties DEF SessionOK, SessionRecord
<1>2. /\ Set(s, r) /\ UNCHANGED <<local, file, conn, transmitted, peerVars>>
      /\ spc' = IF conn = s /\ spc = "wait" /\ Head(sess[s].acks) = sess[s].count
                  THEN "confirmed" ELSE spc
      /\ missed' = (missed \/ (conn = s /\ spc = "sent"))
  BY DEF ProcessAck
<1> HIDE DEF r
<1>3. /\ TypeInv' /\ sess'[s] = r
      /\ \A t \in Slots \ {s} : sess'[t] = sess[t]
  BY <1>0, <1>1, <1>2, SessionTypeInv DEF TypeInv, peerVars
<1>4. StoreKept
  BY <1>2, SameStoreKept DEF peerVars
<1>5. CASE conn # s
  <2>1. UNCHANGED senderVars
    BY <1>0, <1>2, <1>5 DEF TypeInv, senderVars
  <2> QED BY <1>0, <1>2, <1>3, <1>4, <1>5, <2>1, OtherSession DEF TypeInv, peerVars
<1>6. CASE conn = s
  <2>1. /\ spc \in {"sent", "wait"} /\ Answered(sess[s])
        /\ Head(sess[s].acks) = sess[s].count /\ r.acks = <<>>
        /\ sess[s].peer \in Peers /\ r.open /\ file \in Files
    BY <1>0, <1>1, <1>6, SentinelAssumption
    DEF ConnInv, InStep, Lost, OnItsWay, AtWork, Answered, Quiet
  <2>2. r.rpc = "read" /\ r.out = <<>>
    BY <1>1, <2>1 DEF Answered
  <2>3. (spc = "wait" /\ spc' = "confirmed") \/ (spc = "sent" /\ spc' = "sent" /\ missed')
    BY <1>2, <1>6, <2>1
  <2>4. ConnInv'
    BY <1>1, <1>2, <1>3, <1>6, <2>1, <2>2, <2>3, SentinelAssumption
    DEF ConnInv, InStep, Answered, Quiet
  <2>5. CountedInv'
    BY <1>0, <1>1, <1>2, <1>3, <1>6, <2>1, SentinelAssumption
    DEF Inv, CountedInv, Counted, SenderNeverAhead, peerVars
  <2>6. AckInv'
    BY <2>3 DEF AckInv
  <2>7. WrittenInv'
    BY <1>0, <1>1, <1>2, <1>3, <1>6, <2>1, SentinelAssumption
    DEF Inv, WrittenInv, Written, Kept, peerVars
  <2>8. DeletedFilesAreKept'
    BY <1>2, <1>3, <1>4, DeletedKept DEF Inv
  <2> QED BY <1>3, <2>4, <2>5, <2>6, <2>7, <2>8 DEF Inv
<1> QED BY <1>5, <1>6

\* What a step may do with the disk of a peer.
PeerStepOK ==
  /\ store' \in [Peers -> [Files -> StoreStates]]
  /\ raced' \subseteq Peers \X Files /\ broken' \in [Peers -> Nat]
  /\ StoreKept

LEMMA NoPeerStep == TypeInv /\ UNCHANGED <<store, raced, broken>> => PeerStepOK
BY SameStoreKept DEF PeerStepOK, TypeInv

\* The receiver is gone; in the session that is in use no ack is left behind.
LEMMA ShutInv ==
  ASSUME Inv, NEW s \in Slots, NEW r, SessionOK(r), Set(s, Tidy(r)),
         r.rpc = "closed", r.out = <<>>, r.open = sess[s].open, r.peer = sess[s].peer,
         conn = s => r.acks = <<>>,
         UNCHANGED <<senderVars, received>>, PeerStepOK
  PROVE  Inv'
<1>0. TypeInv /\ ConnInv
  BY DEF Inv
<1> USE DEF senderVars
<1>1. /\ SessionsOK' /\ sess'[s] = Tidy(r)
      /\ \A t \in Slots \ {s} : sess'[t] = sess[t]
  BY <1>0, SetOK, TidyOK DEF TypeInv
<1>2. TypeInv' /\ StoreKept
  BY <1>0, <1>1 DEF TypeInv, PeerStepOK
<1>3. CASE conn # s
  <2>1. conn # NoSlot => sess'[conn] = sess[conn]
    BY <1>0, <1>1, <1>3 DEF TypeInv
  <2>2. \A p \in Peers : received[p] <= received'[p]
    BY <1>0 DEF TypeInv
  <2> QED BY <1>2, <2>1, <2>2, OtherSession
<1>4. CASE conn = s
  <2>1. /\ sess[s].open /\ sess[s].peer \in Peers
        /\ InStep(sess[s]) /\ conn # NoSlot
    BY <1>0, <1>4, SentinelAssumption DEF ConnInv
  <2>2. sess'[s] = r
    BY <1>1, <2>1 DEF Tidy
  <2>3. ConnInv'
    BY <1>0, <1>4, <2>1, <2>2 DEF ConnInv, InStep, Lost, Quiet
  <2>4. ~Answered(r) /\ r.rpc \notin Busy
    BY DEF Answered, Busy
  <2>5. CountedInv'
    BY <1>4, <2>1, <2>2, <2>4
    DEF Inv, CountedInv, Counted, SenderNeverAhead, Busy
  <2>6. AckInv'
    BY <1>4, <2>2, <2>4 DEF AckInv
  <2>7. WrittenInv'
    <3>1. ASSUME Written(r)
          PROVE  Written(sess[s]) /\ file \in Files
      BY <1>0, <2>4, <3>1 DEF Written, Busy, ConnInv
    <3>2. Written(r) => Kept(sess[s].peer, file) /\ Kept(r.peer, file)'
      BY <1>2, <1>4, <2>1, <3>1 DEF Inv, WrittenInv, StoreKept, Kept
    <3> QED BY <1>4, <2>1, <2>2, <3>2 DEF WrittenInv, Written, Kept
  <2>8. DeletedFilesAreKept'
    BY <1>2, DeletedKept DEF Inv
  <2> QED BY <1>2, <2>3, <2>5, <2>6, <2>7, <2>8 DEF Inv
<1> QED BY <1>3, <1>4

\* The store may be left as it is, or the receiver's file torn.
LEMMA CloseInv ==
  ASSUME Inv, NEW s \in Slots, Close(s), conn = s => sess[s].acks = <<>>,
         UNCHANGED <<senderVars, received>>, PeerStepOK
  PROVE  Inv'
<1> DEFINE r == [sess[s] EXCEPT !.rpc = "closed", !.out = <<>>, !.msg = <<>>]
<1>1. SessionOK(sess[s])
  BY DEF Inv, TypeInv, SessionsOK
<1>2. /\ SessionOK(r) /\ r.rpc = "closed" /\ r.out = <<>> /\ r.acks = sess[s].acks
      /\ r.open = sess[s].open /\ r.peer = sess[s].peer
  <2>1. <<>> \in Seq(Carrier)
    OBVIOUS
  <2>2. r \in SessionRecord
    BY <1>1, <2>1 DEF SessionOK, SessionRecord
  <2>3. /\ r.rpc = "closed" /\ r.out = <<>> /\ r.acks = sess[s].acks
        /\ r.open = sess[s].open /\ r.peer = sess[s].peer
    BY <1>1 DEF SessionOK, SessionRecord
  <2> QED BY <2>2, <2>3 DEF SessionOK, Busy
<1>3. Set(s, Tidy(r))
  BY DEF Close
<1> HIDE DEF r
<1> QED BY <1>2, <1>3, ShutInv

\* A session after its receiver has taken the message m in.
TakenIn(q, m, rest) ==
  [q EXCEPT !.out = rest, !.next = @ + 1, !.msg = <<m>>, !.rpc = "write"]

LEMMA TakenInOK ==
  ASSUME NEW q, SessionOK(q), q.peer \in Peers,
         NEW m \in Carrier, NEW rest \in Seq(Carrier)
  PROVE  LET r == TakenIn(q, m, rest)
         IN /\ SessionOK(r) /\ r.out = rest /\ r.msg[1] = m /\ r.rpc = "write"
            /\ r.peer = q.peer /\ r.open = q.open /\ r.count = q.count /\ r.acks = q.acks
<1> DEFINE r == TakenIn(q, m, rest)
<1>1. <<m>> \in Seq(Carrier) /\ <<m>>[1] = m
  OBVIOUS
<1>2. q \in SessionRecord /\ q.next + 1 \in Nat
  BY DEF SessionRecord, SessionOK
<1>3. r \in SessionRecord
  BY <1>1, <1>2 DEF SessionRecord, Busy, TakenIn
<1>4. /\ r.out = rest /\ r.msg = <<m>> /\ r.rpc = "write"
      /\ r.peer = q.peer /\ r.open = q.open /\ r.count = q.count /\ r.acks = q.acks
  BY <1>2 DEF SessionRecord, TakenIn
<1> QED BY <1>1, <1>3, <1>4 DEF SessionOK

LEMMA ReceiveInv ==
  ASSUME Inv, NEW s \in Slots, Receive(s)
  PROVE  Inv'
<1>0. /\ TypeInv /\ ConnInv /\ SessionOK(sess[s])
      /\ sess[s].out # <<>> /\ sess[s].rpc = "read"
      /\ UNCHANGED <<senderVars, store, received, broken>>
  BY DEF Inv, TypeInv, SessionsOK, Receive
<1>1. /\ StoreKept /\ raced \subseteq raced'
      /\ \A p \in Peers : received[p] <= received'[p]
  BY <1>0, SameStoreKept DEF Receive, TypeInv
<1>2. conn = s => spc \in {"sent", "wait"} /\ OnItsWay(sess[s])
  BY <1>0, SentinelAssumption DEF ConnInv, InStep, Lost, AtWork, Answered, Quiet
<1>3. CASE Close(s) /\ UNCHANGED raced
  BY <1>0, <1>2, <1>3, NoPeerStep, CloseInv DEF OnItsWay
<1>4. CASE /\ Set(s, [sess[s] EXCEPT !.out = Tail(@), !.next = @ + 1,
                                     !.msg = <<Head(sess[s].out)>>, !.rpc = "write"])
           /\ raced' \in {raced, raced \cup {<<sess[s].peer, Head(sess[s].out).file>>}}
  <2>1. PICK m \in Carrier, rest \in Seq(Carrier) :
          m = Head(sess[s].out) /\ rest = Tail(sess[s].out)
    BY <1>0, HeadTailProperties DEF SessionOK, SessionRecord
  <2> DEFINE r == TakenIn(sess[s], m, rest)
  <2>2. Set(s, r)
    BY <1>4, <2>1 DEF TakenIn
  <2>3. /\ SessionOK(r) /\ r.out = rest /\ r.msg[1] = m /\ r.rpc = "write"
        /\ r.peer = sess[s].peer /\ r.open = sess[s].open /\ r.count = sess[s].count
        /\ r.acks = sess[s].acks
    <3>1. SessionOK(sess[s]) /\ sess[s].peer \in Peers
      BY <1>0 DEF SessionOK
    <3> QED BY <3>1, TakenInOK
  <2> HIDE DEF r
  <2>a. raced' \subseteq Peers \X Files
    BY <1>0, <1>4, <2>1 DEF TypeInv, SessionOK, Carrier
  <2>4. /\ TypeInv' /\ sess'[s] = r
        /\ \A t \in Slots \ {s} : sess'[t] = sess[t]
    BY <1>0, <2>2, <2>3, <2>a, SessionTypeInv DEF TypeInv, senderVars
  <2>5. CASE conn # s
    BY <1>0, <1>1, <2>4, <2>5, OtherSession DEF TypeInv
  <2>6. CASE conn = s
    <3>1. AtWork(r)
      BY <1>2, <2>1, <2>3, <2>6 DEF OnItsWay, AtWork, Awaited, Busy
    <3>2. ConnInv'
      BY <1>0, <1>2, <2>3, <2>4, <2>6, <3>1
      DEF senderVars, ConnInv, InStep, AtWork, Awaited
    <3>3. CountedInv'
      BY <1>0, <1>2, <2>1, <2>3, <2>4, <2>6
      DEF Inv, CountedInv, Counted, Answered, SenderNeverAhead, senderVars
    <3>4. AckInv' /\ WrittenInv'
      BY <1>0, <1>2, <2>1, <2>3, <2>4, <2>6
      DEF AckInv, WrittenInv, Written, Answered, senderVars
    <3>5. DeletedFilesAreKept'
      BY <1>0, <1>1, <2>4, DeletedKept DEF Inv, senderVars
    <3> QED BY <2>4, <3>2, <3>3, <3>4, <3>5 DEF Inv
  <2> QED BY <2>5, <2>6
<1> QED BY <1>3, <1>4, Zenon DEF Receive

\* A receiver at work in the session the sender uses has what the sender waits for.
LEMMA WorkInUse ==
  ASSUME TypeInv, ConnInv, NEW s \in Slots, conn = s, sess[s].rpc \in Busy
  PROVE  /\ spc \in {"sent", "wait"} /\ AtWork(sess[s])
         /\ file \in Files /\ sess[s].open /\ conn # NoSlot
BY SentinelAssumption
DEF ConnInv, InStep, Lost, OnItsWay, AtWork, Answered, Quiet, Busy

\* A session whose receiver has come to statement x.
At(q, x) == [q EXCEPT !.rpc = x]

\* The receiver of session s goes on with its work on the message it has; what the
\* peer then has on its disk and in its account is what the sender may count on.
LEMMA WorkInv ==
  ASSUME Inv, NEW s \in Slots, sess[s].rpc \in Busy,
         NEW x \in Busy, Set(s, At(sess[s], x)),
         UNCHANGED senderVars, PeerStepOK,
         received' \in [Peers -> Nat], \A p \in Peers : received[p] <= received'[p],
         conn = s /\ x # "write" =>
           \A p, f : p = sess[s].peer /\ f = sess[s].msg[1].file => Kept(p, f)',
         x = "ack" => received'[sess[s].peer] >= received[sess[s].peer] + FileSize
  PROVE  Inv'
<1> DEFINE r == At(sess[s], x)
<1> USE DEF senderVars
<1>0. TypeInv /\ ConnInv /\ SessionOK(sess[s]) /\ sess[s].peer \in Peers
  BY DEF Inv, TypeInv, SessionsOK, SessionOK, Busy
<1>1. /\ SessionOK(r) /\ r.rpc = x /\ r.peer = sess[s].peer /\ r.open = sess[s].open
      /\ r.count = sess[s].count /\ r.out = sess[s].out /\ r.acks = sess[s].acks
      /\ r.msg = sess[s].msg
  BY <1>0 DEF SessionOK, SessionRecord, At
<1> HIDE DEF r
<1>2. /\ SessionsOK' /\ sess'[s] = r
      /\ \A t \in Slots \ {s} : sess'[t] = sess[t]
  BY <1>0, <1>1, SetOK DEF TypeInv, r
<1>3. TypeInv' /\ StoreKept
  BY <1>0, <1>2 DEF TypeInv, PeerStepOK
<1>4. CASE conn # s
  BY <1>0, <1>2, <1>3, <1>4, OtherSession DEF TypeInv
<1>5. CASE conn = s
  <2>1. /\ spc \in {"sent", "wait"} /\ AtWork(sess[s])
        /\ file \in Files /\ sess[s].open /\ conn # NoSlot
    BY <1>0, <1>5, WorkInUse
  <2>2. AtWork(r) /\ ~Answered(r)
    BY <1>1, <2>1 DEF AtWork, Awaited, Answered, Busy
  <2>3. ConnInv'
    BY <1>0, <1>1, <1>2, <1>5, <2>1, <2>2
    DEF ConnInv, InStep, AtWork, Awaited
  <2>4. CountedInv'
    <3>1. SenderNeverAhead'
      BY <1>0 DEF Inv, TypeInv, CountedInv, SenderNeverAhead
    <3>2. ASSUME Counted(r)
          PROVE  transmitted[sess[s].peer] + FileSize <= received'[sess[s].peer]
      <4>1. x = "ack"
        BY <1>1, <2>1, <2>2, <3>2 DEF Counted
      <4>2. transmitted[sess[s].peer] <= received[sess[s].peer]
        BY <1>0 DEF Inv, CountedInv, SenderNeverAhead
      <4> QED BY <1>0, <4>1, <4>2, SizeAssumption DEF TypeInv
    <3> QED BY <1>1, <1>2, <1>5, <3>1, <3>2 DEF CountedInv, Counted, Answered
  <2>5. AckInv'
    BY <1>2, <1>5, <2>2 DEF AckInv, Answered
  <2>6. WrittenInv'
    <3>1. Written(r) => x # "write"
      BY <1>1, <2>1, <2>2 DEF Written
    <3>2. \A p, f : p = sess[s].peer /\ f = file /\ x # "write" => Kept(p, f)'
      BY <1>5, <2>1 DEF AtWork, Awaited
    <3> QED BY <1>1, <1>2, <1>5, <2>1, <3>1, <3>2 DEF WrittenInv, Written, Answered, Kept
  <2>7. DeletedFilesAreKept'
    BY <1>3, DeletedKept DEF Inv
  <2> QED BY <1>3, <2>3, <2>4, <2>5, <2>6, <2>7 DEF Inv
<1> QED BY <1>4, <1>5

LEMMA WriteFileInv ==
  ASSUME Inv, NEW s \in Slots, WriteFile(s)
  PROVE  Inv'
<1>0. /\ TypeInv /\ SessionOK(sess[s]) /\ sess[s].rpc = "write"
      /\ Set(s, At(sess[s], "count")) /\ UNCHANGED <<senderVars, received>>
  BY DEF Inv, TypeInv, SessionsOK, WriteFile, At
<1>1. PICK p \in Peers, f \in Files, d \in Carried :
        p = sess[s].peer /\ f = sess[s].msg[1].file /\ d = sess[s].msg[1].data
  BY <1>0 DEF SessionOK, Carrier, Busy
<1>2. store' = [store EXCEPT ![p][f] = d] /\ UNCHANGED <<raced, broken>>
  BY <1>1 DEF WriteFile
<1>3. PeerStepOK /\ Kept(p, f)'
  <2>1. /\ store' \in [Peers -> [Files -> StoreStates]]
        /\ raced' \subseteq Peers \X Files /\ broken' \in [Peers -> Nat]
    BY <1>0, <1>2 DEF TypeInv, StoreStates, Carried
  <2>2. /\ store'[p][f] \in {"partial", "whole"}
        /\ \A q \in Peers, g \in Files : q # p \/ g # f => store'[q][g] = store[q][g]
    BY <1>0, <1>2 DEF TypeInv, Carried
  <2>3. StoreKept
    BY <1>2, <2>2 DEF StoreKept, Kept
  <2> QED BY <2>1, <2>2, <2>3 DEF PeerStepOK, Kept
<1>4. received' \in [Peers -> Nat] /\ \A q \in Peers : received[q] <= received'[q]
  BY <1>0 DEF TypeInv
<1>5. sess[s].rpc \in Busy /\ "count" \in Busy
  BY <1>0 DEF Busy
<1> QED BY <1>0, <1>1, <1>3, <1>4, <1>5, WorkInv

LEMMA CountReceivedInv ==
  ASSUME Inv, NEW s \in Slots, CountReceived(s)
  PROVE  Inv'
<1>0. /\ TypeInv /\ ConnInv /\ SessionOK(sess[s]) /\ sess[s].rpc = "count"
      /\ Set(s, At(sess[s], "ack")) /\ UNCHANGED <<senderVars, store>>
      /\ received' = [received EXCEPT ![sess[s].peer] = @ + FileSize]
  BY DEF Inv, TypeInv, SessionsOK, CountReceived, At
<1>1. sess[s].peer \in Peers
  BY <1>0 DEF SessionOK
<1>2. /\ received' \in [Peers -> Nat] /\ \A q \in Peers : received[q] <= received'[q]
      /\ received'[sess[s].peer] >= received[sess[s].peer] + FileSize
  BY <1>0, <1>1, SizeAssumption DEF TypeInv
<1>3. PeerStepOK /\ UNCHANGED <<store, raced>>
  BY <1>0, NoPeerStep DEF CountReceived
<1>4. ASSUME conn = s, NEW p, NEW f, p = sess[s].peer, f = sess[s].msg[1].file
      PROVE  Kept(p, f)'
  <2>1. spc \in {"sent", "wait"} /\ AtWork(sess[s]) /\ conn # NoSlot
    BY <1>0, <1>4, WorkInUse DEF Busy
  <2>2. Kept(p, f)
    BY <1>0, <1>4, <2>1 DEF Inv, WrittenInv, Written, AtWork, Awaited
  <2> QED BY <1>3, <2>2 DEF Kept
<1>5. sess[s].rpc \in Busy /\ "ack" \in Busy
  BY <1>0 DEF Busy
<1> QED BY <1>0, <1>2, <1>3, <1>4, <1>5, WorkInv

\* A save that breaks off takes nothing away but after a race.
LEMMA WriteFailsInv ==
  ASSUME Inv, RaceInv, NEW s \in Slots, WriteFails(s)
  PROVE  Inv'
<1>0. /\ TypeInv /\ ConnInv /\ SessionOK(sess[s]) /\ sess[s].rpc = "write"
      /\ Close(s) /\ UNCHANGED <<senderVars, received, raced>>
  BY DEF Inv, TypeInv, SessionsOK, WriteFails
<1>1. PICK p \in Peers, f \in Files : p = sess[s].peer /\ f = sess[s].msg[1].file
  BY <1>0 DEF SessionOK, Carrier, Busy
<1>2. /\ store' = [store EXCEPT ![p][f] = "torn"]
      /\ broken' = [broken EXCEPT ![p] = @ + 1]
      /\ store[p][f] = "none" \/ <<p, f>> \in raced
  BY <1>0, <1>1 DEF WriteFails, RaceInv, SaveOK
<1>3. PeerStepOK
  BY <1>0, <1>2 DEF TypeInv, PeerStepOK, StoreKept, Kept, StoreStates
<1>4. conn = s => sess[s].acks = <<>>
  BY <1>0, WorkInUse DEF AtWork, Busy
<1> QED BY <1>0, <1>3, <1>4, CloseInv

LEMMA AbandonedInv ==
  ASSUME Inv, NEW s \in Slots, Abandoned(s)
  PROVE  Inv'
<1>1. PeerStepOK /\ UNCHANGED <<senderVars, received>>
  BY NoPeerStep DEF Abandoned, peerVars, Inv
<1> QED BY <1>1, CloseInv DEF Abandoned

LEMMA BreakInv ==
  ASSUME Inv, NEW s \in Slots, Break(s)
  PROVE  Inv'
<1> DEFINE r == [sess[s] EXCEPT !.rpc = "closed", !.out = <<>>, !.acks = <<>>]
<1>1. SessionOK(sess[s])
  BY DEF Inv, TypeInv, SessionsOK
<1>2. /\ SessionOK(r) /\ r.rpc = "closed" /\ r.out = <<>> /\ r.acks = <<>>
      /\ r.open = sess[s].open /\ r.peer = sess[s].peer
  <2>1. <<>> \in Seq(Carrier) /\ <<>> \in Seq(Nat)
    OBVIOUS
  <2>2. r \in SessionRecord
    BY <1>1, <2>1 DEF SessionOK, SessionRecord
  <2>3. /\ r.rpc = "closed" /\ r.out = <<>> /\ r.acks = <<>>
        /\ r.open = sess[s].open /\ r.peer = sess[s].peer
    BY <1>1 DEF SessionOK, SessionRecord
  <2> QED BY <2>2, <2>3 DEF SessionOK, Busy
<1>3. Set(s, Tidy(r)) /\ UNCHANGED <<senderVars, peerVars>>
  BY DEF Break
<1> HIDE DEF r
<1>4. PeerStepOK /\ UNCHANGED received
  BY <1>3, NoPeerStep DEF Inv, peerVars
<1> QED BY <1>2, <1>3, <1>4, ShutInv


LEMMA SendAckInv ==
  ASSUME Inv, NEW s \in Slots, SendAck(s)
  PROVE  Inv'
<1> DEFINE answers == IF sess[s].open THEN Append(sess[s].acks, sess[s].msg[1].seq)
                      ELSE sess[s].acks
           r == [sess[s] EXCEPT !.rpc = "read", !.msg = <<>>, !.acks = answers]
<1>0. /\ TypeInv /\ ConnInv /\ SessionOK(sess[s]) /\ sess[s].rpc = "ack"
      /\ sess[s].peer \in Peers /\ sess[s].msg[1].seq \in Nat
      /\ UNCHANGED <<senderVars, peerVars>>
  BY DEF Inv, TypeInv, SessionsOK, SendAck, SessionOK, Busy, Carrier
<1>1. /\ SessionOK(r) /\ r.rpc = "read" /\ r.acks = answers
      /\ r.peer = sess[s].peer /\ r.open = sess[s].open
      /\ r.count = sess[s].count /\ r.out = sess[s].out
  <2>1. <<>> \in Seq(Carrier) /\ answers \in Seq(Nat) /\ sess[s] \in SessionRecord
    BY <1>0 DEF SessionOK, SessionRecord
  <2> HIDE DEF answers
  <2>2. r \in SessionRecord
    BY <2>1 DEF SessionRecord
  <2>3. /\ r.rpc = "read" /\ r.acks = answers
        /\ r.peer = sess[s].peer /\ r.open = sess[s].open
        /\ r.count = sess[s].count /\ r.out = sess[s].out
    BY <2>1 DEF SessionRecord
  <2> QED BY <1>0, <2>2, <2>3 DEF SessionOK, Busy
<1>2. Set(s, r)
  BY DEF SendAck
<1> HIDE DEF r
<1>3. /\ TypeInv' /\ sess'[s] = r
      /\ \A t \in Slots \ {s} : sess'[t] = sess[t]
  BY <1>0, <1>1, <1>2, SessionTypeInv DEF TypeInv, senderVars, peerVars
<1>4. StoreKept
  BY <1>0, SameStoreKept DEF peerVars
<1>5. CASE conn # s
  BY <1>0, <1>3, <1>4, <1>5, OtherSession DEF TypeInv, peerVars
<1>6. CASE conn = s
  <2>1. /\ spc \in {"sent", "wait"} /\ AtWork(sess[s])
        /\ file \in Files /\ sess[s].open /\ conn # NoSlot
    BY <1>0, <1>6, WorkInUse DEF Busy
  <2>2. PICK n \in Nat : n = sess[s].count /\ n = sess[s].msg[1].seq
    BY <1>0, <2>1 DEF AtWork, Awaited
  <2>3. r.acks = <<n>>
    BY <1>1, <2>1, <2>2 DEF AtWork
  <2>4. r.acks # <<>> /\ Head(r.acks) = n /\ Tail(r.acks) = <<>>
    BY <2>3
  <2>5. Answered(r)
    BY <1>1, <2>1, <2>2, <2>4 DEF Answered, AtWork
  <2>6. ConnInv'
    BY <1>0, <1>1, <1>3, <1>6, <2>1, <2>5 DEF ConnInv, InStep, Answered, senderVars
  <2>7. CountedInv'
    BY <1>0, <1>1, <1>3, <1>6, <2>1, <2>5
    DEF Inv, CountedInv, Counted, SenderNeverAhead, senderVars, peerVars
  <2>8. AckInv'
    BY <1>0, <1>3, <1>6, <2>4 DEF AckInv, senderVars
  <2>9. WrittenInv'
    BY <1>0, <1>1, <1>3, <1>6, <2>1 DEF Inv, WrittenInv, Written, Kept, senderVars, peerVars
  <2>10. DeletedFilesAreKept'
    BY <1>0, <1>3, <1>4, DeletedKept DEF Inv, senderVars
  <2> QED BY <1>3, <2>6, <2>7, <2>8, <2>9, <2>10 DEF Inv
<1> QED BY <1>5, <1>6

\* What the crash of its peer makes of a session.
Crashed(q) ==
  Tidy([q EXCEPT !.rpc = "closed", !.out = <<>>, !.msg = <<>>, !.acks = <<>>])

LEMMA CrashedOK ==
  ASSUME NEW q, SessionOK(q)
  PROVE  /\ SessionOK(Crashed(q))
         /\ q.open => /\ Lost(Crashed(q)) /\ Crashed(q).open /\ Crashed(q).peer = q.peer
<1> DEFINE r == [q EXCEPT !.rpc = "closed", !.out = <<>>, !.msg = <<>>, !.acks = <<>>]
<1>1. q \in SessionRecord /\ <<>> \in Seq(Carrier) /\ <<>> \in Seq(Nat)
  BY DEF SessionOK
<1>2. r \in SessionRecord
  BY <1>1 DEF SessionRecord
<1>3. /\ r.rpc = "closed" /\ r.out = <<>> /\ r.acks = <<>>
      /\ r.open = q.open /\ r.peer = q.peer
  BY <1>1 DEF SessionRecord
<1>4. Crashed(q) = Tidy(r)
  BY DEF Crashed
<1> HIDE DEF r
<1>5. SessionOK(r)
  BY <1>2, <1>3 DEF SessionOK, Busy
<1>6. q.open => Tidy(r) = r
  BY <1>3 DEF Tidy
<1> QED BY <1>3, <1>4, <1>5, <1>6, TidyOK DEF Lost

\* The sessions of peer p whose receiver is at statement x.
AtPeer(p, x) == {s \in Slots : sess[s].peer = p /\ sess[s].rpc = x}

LEMMA AtPeerFinite ==
  ASSUME NEW p, NEW x
  PROVE  /\ IsFiniteSet(AtPeer(p, x)) /\ Cardinality(AtPeer(p, x)) \in Nat
         /\ Cardinality(AtPeer(p, x)) <= Cardinality(Slots)
<1>1. AtPeer(p, x) \subseteq Slots
  BY DEF AtPeer
<1> QED BY <1>1, SlotsAssumption, FS_Subset, FS_CardinalityType

LEMMA PeerCrashInv ==
  ASSUME Inv, RaceInv, NEW p \in Peers, PeerCrash(p)
  PROVE  Inv'
<1> USE DEF senderVars
<1>0. TypeInv /\ ConnInv /\ UNCHANGED <<senderVars, received, raced>>
  BY Zenon DEF Inv, PeerCrash
<1>1. PICK torn \in SUBSET AtPeer(p, "write") :
        /\ store' = [store EXCEPT ![p] = [f \in Files |->
                      IF \E s \in torn : sess[s].msg[1].file = f THEN "torn" ELSE @[f]]]
        /\ broken' = [broken EXCEPT ![p] = @ + Cardinality(torn \cup AtPeer(p, "count"))]
  BY Zenon DEF PeerCrash, AtPeer
<1>2. sess' = [s \in Slots |-> IF sess[s].peer # p THEN sess[s] ELSE Crashed(sess[s])]
  BY Zenon DEF PeerCrash, Crashed
<1>3. SessionsOK'
  <2>1. \A s \in Slots : SessionOK(sess'[s])
    BY <1>0, <1>2, CrashedOK DEF TypeInv, SessionsOK
  <2> QED BY <1>2, <2>1 DEF SessionsOK, SessionOK
<1>4. store' \in [Peers -> [Files -> StoreStates]] /\ broken' \in [Peers -> Nat]
  <2>1. store' \in [Peers -> [Files -> StoreStates]]
    BY <1>0, <1>1 DEF TypeInv, StoreStates
  <2>2. PICK n \in Nat : n = Cardinality(torn \cup AtPeer(p, "count"))
    BY AtPeerFinite, FS_Subset, FS_Union, FS_CardinalityType
  <2>3. broken' \in [Peers -> Nat]
    BY <1>0, <1>1, <2>2 DEF TypeInv
  <2> QED BY <2>1, <2>3
<1>5. StoreKept
  <2> SUFFICES ASSUME NEW f \in Files, Kept(p, f)
               PROVE  Kept(p, f)'
    BY <1>0, <1>1 DEF TypeInv, StoreKept, Kept
  <2>1. CASE \E s \in torn : sess[s].msg[1].file = f
    <3>1. PICK s \in torn : sess[s].msg[1].file = f
      BY <2>1
    <3>2. <<p, f>> \in raced
      BY <1>1, <3>1 DEF AtPeer, RaceInv, SaveOK, Kept
    <3> QED BY <1>0, <1>1, <2>1, <3>2 DEF TypeInv, Kept
  <2>2. CASE ~ \E s \in torn : sess[s].msg[1].file = f
    BY <1>0, <1>1, <2>2 DEF TypeInv, Kept
  <2> QED BY <2>1, <2>2
<1>6. TypeInv'
  BY <1>0, <1>3, <1>4 DEF TypeInv
<1>7. CASE conn = NoSlot \/ sess[conn].peer # p
  <2>1. conn # NoSlot => sess'[conn] = sess[conn]
    BY <1>0, <1>2, <1>7 DEF TypeInv
  <2>2. \A q \in Peers : received[q] <= received'[q]
    BY <1>0 DEF TypeInv
  <2> QED BY <1>0, <1>5, <1>6, <2>1, <2>2, OtherSession
<1>8. CASE conn # NoSlot /\ sess[conn].peer = p
  <2>1. /\ conn \in Slots /\ sess[conn].open /\ SessionOK(sess[conn])
        /\ sess'[conn] = Crashed(sess[conn])
    BY <1>0, <1>2, <1>8 DEF TypeInv, ConnInv, SessionsOK
  <2>2. Lost(sess'[conn]) /\ sess'[conn].open /\ sess'[conn].peer = p
    BY <1>8, <2>1, CrashedOK
  <2>3. ConnInv'
    BY <1>0, <1>8, <2>2 DEF ConnInv, InStep, Lost, Quiet
  <2>4. sess'[conn].rpc = "closed"
    BY <2>2 DEF Lost
  <2>5. CountedInv'
    BY <1>0, <1>8, <2>2, <2>4
    DEF Inv, CountedInv, Counted, Answered, SenderNeverAhead
  <2>6. AckInv'
    BY <1>0, <2>4 DEF AckInv, Answered
  <2>7. WrittenInv'
    <3>1. ASSUME Written(sess'[conn])
          PROVE  Written(sess[conn]) /\ file \in Files
      BY <1>0, <2>4, <3>1 DEF Written, Answered, ConnInv
    <3>2. Written(sess'[conn]) => Kept(p, file) /\ Kept(p, file)'
      BY <1>0, <1>5, <1>8, <3>1 DEF Inv, WrittenInv, StoreKept, Kept
    <3> QED BY <1>0, <1>8, <2>2, <3>2 DEF WrittenInv, Written, Answered, Kept
  <2>8. DeletedFilesAreKept'
    BY <1>0, <1>5, <1>6, DeletedKept DEF Inv
  <2> QED BY <1>6, <2>3, <2>5, <2>6, <2>7, <2>8 DEF Inv
<1> QED BY <1>7, <1>8

-----------------------------------------------------------------------------
(* The sender.                                                              *)

\* The sender is without a connection and begins anew.
LEMMA LetGoInv ==
  ASSUME Inv, SessionsOK', spc' = "scan", file' = NoFile, conn' = NoSlot,
         missed' = FALSE, UNCHANGED <<local, transmitted, peerVars>>
  PROVE  Inv'
<1>1. TypeInv'
  BY DEF Inv, TypeInv, peerVars
<1>2. ConnInv' /\ CountedInv' /\ AckInv' /\ WrittenInv'
  BY DEF Inv, ConnInv, CountedInv, SenderNeverAhead, AckInv, WrittenInv, Written, Counted,
         peerVars
<1>3. DeletedFilesAreKept'
  BY SameStoreKept, DeletedKept DEF Inv, peerVars
<1> QED BY <1>1, <1>2, <1>3 DEF Inv

LEMMA SenderCrashInv ==
  ASSUME Inv, SenderCrash
  PROVE  Inv'
<1> DEFINE r(q) == [q EXCEPT !.open = FALSE, !.acks = <<>>]
<1>1. sess' = [s \in Slots |-> Tidy(r(sess[s]))]
  BY Zenon DEF SenderCrash
<1>2. ASSUME NEW q, SessionOK(q) PROVE SessionOK(r(q))
  <2>1. <<>> \in Seq(Nat) /\ q \in SessionRecord
    BY <1>2 DEF SessionOK
  <2>2. r(q) \in SessionRecord
    BY <2>1 DEF SessionRecord
  <2>3. r(q).rpc = q.rpc /\ r(q).peer = q.peer /\ r(q).msg = q.msg
    BY <2>1 DEF SessionRecord
  <2> QED BY <1>2, <2>2, <2>3 DEF SessionOK
<1> HIDE DEF r
<1>3. SessionsOK'
  <2>1. \A s \in Slots : SessionOK(sess'[s])
    BY <1>1, <1>2, TidyOK DEF Inv, TypeInv, SessionsOK
  <2> QED BY <1>1, <2>1 DEF SessionsOK, SessionOK
<1>4. /\ spc' = "scan" /\ file' = NoFile /\ conn' = NoSlot
      /\ missed' = FALSE /\ UNCHANGED <<local, transmitted, peerVars>>
  BY Zenon DEF SenderCrash
<1> QED BY <1>3, <1>4, LetGoInv

LEMMA GiveUpInv ==
  ASSUME Inv, GiveUp
  PROVE  Inv'
<1>1. conn \in Slots /\ SessionOK(sess[conn]) /\ SessionsOK
  BY DEF Inv, TypeInv, ConnInv, SessionsOK, GiveUp
<1>2. PICK out \in IF spc = "sent" /\ "timeout" \in Faults
                  THEN {sess[conn].out, <<>>} ELSE {sess[conn].out} :
        Set(conn, Tidy([sess[conn] EXCEPT !.open = FALSE, !.out = out]))
  BY Zenon DEF GiveUp
<1> DEFINE r == [sess[conn] EXCEPT !.open = FALSE, !.out = out]
<1>3. SessionOK(r)
  <2>a. sess[conn] \in SessionRecord
    BY <1>1 DEF SessionOK
  <2>b. sess[conn].out \in Seq(Carrier) /\ <<>> \in Seq(Carrier)
    BY <2>a DEF SessionRecord
  <2>c. out = sess[conn].out \/ out = <<>>
    BY <1>2
  <2>1. sess[conn] \in SessionRecord /\ out \in Seq(Carrier)
    BY <2>a, <2>b, <2>c
  <2>2. r \in SessionRecord
    BY <2>1 DEF SessionRecord
  <2>3. r.rpc = sess[conn].rpc /\ r.peer = sess[conn].peer /\ r.msg = sess[conn].msg
    BY <2>1 DEF SessionRecord
  <2> QED BY <1>1, <2>2, <2>3 DEF SessionOK
<1>4. Set(conn, Tidy(r))
  BY <1>2
<1> HIDE DEF r
<1>5. SessionsOK'
  BY <1>1, <1>3, <1>4, SetOK, TidyOK
<1>6. /\ spc' = "scan" /\ file' = NoFile /\ conn' = NoSlot
      /\ missed' = FALSE /\ UNCHANGED <<local, transmitted, peerVars>>
  BY DEF GiveUp
<1> QED BY <1>5, <1>6, LetGoInv

LEMMA ConnectInv ==
  ASSUME Inv, NEW p \in Peers, Connect(p)
  PROVE  Inv'
<1>0. /\ TypeInv /\ spc = "scan"
      /\ UNCHANGED <<local, spc, file, transmitted, missed, peerVars>>
  BY DEF Connect, Inv
<1>1. PICK s \in Slots :
        conn' = s /\ Set(s, [Unused EXCEPT !.peer = p, !.open = TRUE,
                               !.rpc = IF Allowed(p) THEN "read" ELSE "closed"])
  BY DEF Connect
<1> DEFINE rpc == IF Allowed(p) THEN "read" ELSE "closed"
           r == [Unused EXCEPT !.peer = p, !.open = TRUE, !.rpc = rpc]
<1>2. rpc \in {"read", "closed"}
  OBVIOUS
<1> HIDE DEF rpc
<1>3. /\ SessionOK(r) /\ r.peer = p /\ r.open /\ r.out = <<>> /\ r.acks = <<>>
      /\ r.rpc \in {"read", "closed"}
  <2>1. Unused \in SessionRecord /\ Unused.out = <<>> /\ Unused.acks = <<>>
    BY UnusedOK DEF SessionOK, Unused
  <2>2. r \in SessionRecord
    BY <1>2, <2>1 DEF SessionRecord
  <2>3. r.peer = p /\ r.open /\ r.out = <<>> /\ r.acks = <<>> /\ r.rpc = rpc
    BY <2>1 DEF SessionRecord
  <2> QED BY <1>2, <2>2, <2>3 DEF SessionOK, Busy
<1> HIDE DEF r
<1>4. TypeInv' /\ sess'[s] = r
  BY <1>0, <1>1, <1>3, SessionTypeInv DEF TypeInv, r, rpc, peerVars
<1>5. ConnInv'
  BY <1>0, <1>1, <1>3, <1>4, SentinelAssumption DEF ConnInv, InStep, Quiet
<1>6. CountedInv' /\ AckInv' /\ WrittenInv'
  BY <1>0, <1>1, <1>4
  DEF Inv, CountedInv, SenderNeverAhead, Counted, AckInv, WrittenInv, Written, peerVars
<1>7. DeletedFilesAreKept'
  BY <1>0, <1>4, SameStoreKept, DeletedKept DEF Inv, peerVars
<1> QED BY <1>4, <1>5, <1>6, <1>7 DEF Inv

LEMMA SubscribeInv ==
  ASSUME Inv, Subscribe
  PROVE  Inv'
<1>1. spc = "sent" /\ spc' = "wait" /\ UNCHANGED <<local, file, conn, transmitted, missed, sess, peerVars>>
  BY DEF Subscribe
<1>2. TypeInv'
  BY <1>1 DEF Inv, TypeInv, SessionsOK, peerVars
<1>3. ConnInv'
  BY <1>1 DEF Inv, ConnInv, InStep, Lost, OnItsWay, AtWork, Answered, Awaited
<1>4. CountedInv' /\ AckInv' /\ WrittenInv'
  BY <1>1
  DEF Inv, CountedInv, SenderNeverAhead, Counted, AckInv, WrittenInv, Written, Answered,
      Kept, peerVars
<1>5. DeletedFilesAreKept'
  BY <1>1, <1>2, SameStoreKept, DeletedKept DEF Inv, peerVars
<1> QED BY <1>2, <1>3, <1>4, <1>5 DEF Inv

LEMMA CountSentInv ==
  ASSUME Inv, CountSent
  PROVE  Inv'
<1> DEFINE r == [sess[conn] EXCEPT !.count = @ + 1]
           p == sess[conn].peer
<1>0. /\ TypeInv /\ ConnInv /\ spc = "confirmed" /\ spc' = "remove"
      /\ UNCHANGED <<local, file, conn, missed, peerVars>>
      /\ transmitted' = [transmitted EXCEPT ![p] = @ + FileSize]
      /\ Set(conn, r)
  BY DEF Inv, CountSent
<1>1. /\ conn \in Slots /\ conn # NoSlot /\ SessionOK(sess[conn]) /\ file \in Files
      /\ sess[conn].open /\ p \in Peers /\ Quiet(sess[conn])
  BY <1>0 DEF TypeInv, ConnInv, InStep, SessionsOK
<1>2. /\ SessionOK(r) /\ r.open = sess[conn].open /\ r.peer = p
      /\ r.out = sess[conn].out /\ r.acks = sess[conn].acks /\ r.rpc = sess[conn].rpc
  <2>1. sess[conn] \in SessionRecord /\ sess[conn].count + 1 \in Nat
    BY <1>1 DEF SessionOK, SessionRecord
  <2>2. r \in SessionRecord
    BY <2>1 DEF SessionRecord
  <2>3. /\ r.open = sess[conn].open /\ r.peer = p /\ r.msg = sess[conn].msg
        /\ r.out = sess[conn].out /\ r.acks = sess[conn].acks /\ r.rpc = sess[conn].rpc
    BY <2>1 DEF SessionRecord
  <2> QED BY <1>1, <2>2, <2>3 DEF SessionOK
<1> HIDE DEF r
<1>3. SessionsOK' /\ sess'[conn] = r
  BY <1>0, <1>1, <1>2, SetOK DEF TypeInv
<1>4. TypeInv'
  <2>1. transmitted' \in [Peers -> Nat]
    BY <1>0, <1>1, SizeAssumption DEF TypeInv
  <2> QED BY <1>0, <1>3, <2>1 DEF TypeInv, peerVars
<1>5. ConnInv'
  BY <1>0, <1>1, <1>2, <1>3 DEF ConnInv, InStep, Quiet
<1>6. CountedInv'
  <2>1. transmitted[p] + FileSize <= received[p]
    BY <1>0, <1>1 DEF Inv, CountedInv, Counted
  <2>2. SenderNeverAhead'
    BY <1>0, <1>1, <2>1 DEF Inv, CountedInv, SenderNeverAhead, TypeInv, peerVars
  <2> QED BY <1>0, <2>2 DEF CountedInv, Counted
<1>7. AckInv' /\ WrittenInv'
  BY <1>0, <1>1, <1>2, <1>3 DEF Inv, AckInv, WrittenInv, Written, Kept, peerVars
<1>8. DeletedFilesAreKept'
  BY <1>0, <1>4, SameStoreKept, DeletedKept DEF Inv, peerVars
<1> QED BY <1>4, <1>5, <1>6, <1>7, <1>8 DEF Inv

LEMMA SendFileInv ==
  ASSUME Inv, NEW f \in Files, SendFile(f)
  PROVE  Inv'
<1> DEFINE q == sess[conn]
           m == [seq |-> q.count, file |-> f, data |-> local[f]]
           out == IF q.rpc = "closed" THEN q.out ELSE Append(q.out, m)
           r == [q EXCEPT !.out = out]
<1>0. /\ TypeInv /\ ConnInv /\ spc = "scan" /\ conn # NoSlot
      /\ local[f] \in {"partial", "whole"} /\ spc' = "sent" /\ file' = f
      /\ UNCHANGED <<local, conn, transmitted, missed, peerVars>>
  BY DEF SendFile, Inv, Present
<1>1. Set(conn, r)
  BY DEF SendFile
<1>2. /\ conn \in Slots /\ SessionOK(q) /\ q \in SessionRecord
      /\ q.open /\ q.peer \in Peers /\ Quiet(q)
  BY <1>0 DEF TypeInv, ConnInv, InStep, SessionsOK, SessionOK
<1>3. m \in Carrier /\ m.seq = q.count /\ m.file = f
  BY <1>0, <1>2 DEF Carrier, Carried, TypeInv, LocalStates, SessionRecord
<1> HIDE DEF m
<1>4. /\ out \in Seq(Carrier) /\ q.out = <<>> /\ q.acks = <<>>
      /\ q.rpc = "closed" => out = <<>>
      /\ q.rpc = "read" => out # <<>> /\ Tail(out) = <<>> /\ Head(out) = m
  <2>1. q.out = <<>> /\ q.acks = <<>> /\ q.rpc \in {"read", "closed"}
    BY <1>2 DEF Quiet
  <2>2. Append(<<>>, m) = <<m>> /\ <<m>> \in Seq(Carrier) /\ <<>> \in Seq(Carrier)
    BY <1>3
  <2>3. <<m>> # <<>> /\ Tail(<<m>>) = <<>> /\ Head(<<m>>) = m
    OBVIOUS
  <2> QED BY <2>1, <2>2, <2>3
<1> HIDE DEF out, q
<1>5. /\ SessionOK(r) /\ r.open = q.open /\ r.peer = q.peer /\ r.count = q.count
      /\ r.out = out /\ r.acks = <<>> /\ r.rpc = q.rpc
  <2>1. r \in SessionRecord
    BY <1>2, <1>4 DEF SessionRecord
  <2>2. /\ r.open = q.open /\ r.peer = q.peer /\ r.count = q.count
        /\ r.out = out /\ r.acks = <<>> /\ r.rpc = q.rpc /\ r.msg = q.msg
    BY <1>2, <1>4 DEF SessionRecord
  <2> QED BY <1>2, <2>1, <2>2 DEF SessionOK
<1> HIDE DEF r
<1>6. SessionsOK' /\ sess'[conn] = r
  BY <1>0, <1>1, <1>2, <1>5, SetOK DEF TypeInv
<1>7. TypeInv'
  BY <1>0, <1>6 DEF TypeInv, peerVars
<1>8. q.rpc \in {"read", "closed"}
  BY <1>2 DEF Quiet
<1>9. ConnInv'
  <2>1. Lost(sess[conn])' \/ OnItsWay(sess[conn])'
    BY <1>0, <1>3, <1>4, <1>5, <1>6, <1>8 DEF Lost, OnItsWay, Awaited
  <2> QED BY <1>0, <1>2, <1>5, <1>6, <2>1 DEF ConnInv, InStep
<1>10. ~Answered(r) /\ r.rpc \notin {"count", "ack"}
  BY <1>4, <1>5, <1>8 DEF Answered
<1>11. CountedInv' /\ AckInv' /\ WrittenInv'
  BY <1>0, <1>6, <1>10
  DEF Inv, CountedInv, SenderNeverAhead, Counted, AckInv, WrittenInv, Written, Answered,
      peerVars
<1>12. DeletedFilesAreKept'
  BY <1>0, <1>7, SameStoreKept, DeletedKept DEF Inv, peerVars
<1> QED BY <1>7, <1>9, <1>11, <1>12 DEF Inv

LEMMA RemoveFileInv ==
  ASSUME Inv, RemoveFile
  PROVE  Inv'
<1>0. /\ TypeInv /\ ConnInv /\ spc = "remove" /\ spc' = "scan" /\ file' = NoFile
      /\ local' = [local EXCEPT ![file] = "deleted"]
      /\ UNCHANGED <<conn, transmitted, missed, sess, peerVars>>
  BY DEF Inv, RemoveFile
<1>1. /\ conn \in Slots /\ conn # NoSlot /\ file \in Files
      /\ sess[conn].open /\ sess[conn].peer \in Peers /\ Quiet(sess[conn])
  BY <1>0 DEF TypeInv, ConnInv, InStep
<1>2. TypeInv'
  BY <1>0, <1>1 DEF TypeInv, SessionsOK, LocalStates, peerVars
<1>3. ConnInv' /\ CountedInv' /\ AckInv' /\ WrittenInv'
  BY <1>0, <1>1
  DEF Inv, ConnInv, InStep, Quiet, CountedInv, SenderNeverAhead, Counted, AckInv,
      WrittenInv, Written, peerVars
<1>4. DeletedFilesAreKept'
  <2>1. Kept(sess[conn].peer, file)
    BY <1>0, <1>1 DEF Inv, WrittenInv, Written
  <2>2. \A p, f : Kept(p, f) => Kept(p, f)'
    BY <1>0 DEF Kept, peerVars
  <2>3. \A f \in Files : local'[f] = "deleted" => f = file \/ local[f] = "deleted"
    BY <1>0, <1>1 DEF TypeInv
  <2> QED BY <1>1, <2>1, <2>2, <2>3 DEF Inv, DeletedFilesAreKept
<1> QED BY <1>2, <1>3, <1>4 DEF Inv

LEMMA PackInv ==
  ASSUME Inv, NEW f \in Files, CreatePackfile(f) \/ FillPackfile(f)
  PROVE  Inv'
<1>0. /\ TypeInv /\ local' \in [Files -> LocalStates]
      /\ \A g \in Files : local'[g] = "deleted" => local[g] = "deleted"
      /\ UNCHANGED <<spc, file, conn, transmitted, missed, sess, peerVars>>
  BY DEF Inv, TypeInv, LocalStates, CreatePackfile, FillPackfile
<1>1. TypeInv'
  BY <1>0 DEF TypeInv, SessionsOK, peerVars
<1>2. ConnInv' /\ CountedInv' /\ AckInv' /\ WrittenInv'
  BY <1>0
  DEF Inv, ConnInv, InStep, Lost, OnItsWay, AtWork, Answered, Awaited, Quiet,
      CountedInv, SenderNeverAhead, Counted, AckInv, WrittenInv, Written, Kept, peerVars
<1>3. DeletedFilesAreKept'
  BY <1>0 DEF Inv, DeletedFilesAreKept, Kept, peerVars
<1> QED BY <1>1, <1>2, <1>3 DEF Inv

-----------------------------------------------------------------------------
(* The sessions that have let in a packfile and not counted it.             *)

LetIn == {"write", "count"}

\* Session q becomes r, and neither is at such work, or both at the same.
SameJob(q, r) ==
  q.rpc \in LetIn \/ r.rpc \in LetIn =>
    r.rpc = q.rpc /\ r.peer = q.peer /\ r.msg = q.msg
SameWork == \A s \in Slots : SameJob(sess[s], sess'[s])

LEMMA TidySame ==
  ASSUME NEW q, NEW r, SameJob(q, r)
  PROVE  SameJob(q, Tidy(r))
<1>1. Unused.rpc = "closed" /\ "closed" \notin LetIn
  BY DEF Unused, LetIn
<1> QED BY <1>1 DEF SameJob, Tidy

\* One session is replaced.
LEMMA OneSame ==
  ASSUME TypeInv, NEW s \in Slots, NEW r, Set(s, r) \/ Set(s, Tidy(r)),
         SameJob(sess[s], r)
  PROVE  SameWork
<1>1. PICK q : (q = r \/ q = Tidy(r)) /\ Set(s, q)
  OBVIOUS
<1>2. sess'[s] = q /\ \A t \in Slots \ {s} : sess'[t] = sess[t]
  BY <1>1 DEF Set, TypeInv, SessionsOK
<1>3. SameJob(sess[s], sess'[s])
  BY <1>1, <1>2, TidySame
<1> QED BY <1>2, <1>3 DEF SameWork, SameJob

LEMMA CloseSame ==
  ASSUME TypeInv, NEW s \in Slots, sess[s].rpc = "read", Close(s)
  PROVE  SameWork
<1> DEFINE r == [sess[s] EXCEPT !.rpc = "closed", !.out = <<>>, !.msg = <<>>]
<1>1. r.rpc = "closed"
  BY DEF TypeInv, SessionsOK, SessionRecord
<1>2. Set(s, Tidy(r))
  BY DEF Close
<1> HIDE DEF r
<1> QED BY <1>1, <1>2, OneSame DEF SameJob, LetIn

LEMMA SenderSame ==
  ASSUME TypeInv, ConnInv, Sender
  PROVE  SameWork /\ UNCHANGED peerVars
<1>0. \A s \in Slots : sess[s] \in SessionRecord
  BY DEF TypeInv, SessionsOK
<1>a. UNCHANGED peerVars
  BY Zenon DEF Sender, Connect, SendFile, Subscribe, GiveUp, CountSent, RemoveFile
<1>1. ASSUME NEW p \in Peers, Connect(p) PROVE SameWork
  <2> DEFINE r == [Unused EXCEPT !.peer = p, !.open = TRUE,
                                 !.rpc = IF Allowed(p) THEN "read" ELSE "closed"]
  <2>1. PICK s \in Slots : sess[s] = Unused /\ Set(s, r)
    BY <1>1, Zenon DEF Connect, InUse
  <2>2. r.rpc \in {"read", "closed"}
    <3>1. PICK rpc \in {"read", "closed"} : rpc = IF Allowed(p) THEN "read" ELSE "closed"
      OBVIOUS
    <3> QED BY <3>1 DEF Unused
  <2>3. sess[s].rpc = "closed"
    BY <2>1 DEF Unused
  <2> HIDE DEF r
  <2> QED BY <2>1, <2>2, <2>3, OneSame DEF SameJob, LetIn
<1>2. ASSUME NEW f \in Files, SendFile(f) PROVE SameWork
  <2>1. PICK out : Set(conn, [sess[conn] EXCEPT !.out = out])
    BY <1>2, Zenon DEF SendFile
  <2> DEFINE r == [sess[conn] EXCEPT !.out = out]
  <2>2. conn \in Slots
    BY <1>2 DEF SendFile, TypeInv
  <2>3. Set(conn, r) /\ r.rpc = sess[conn].rpc /\ r.peer = sess[conn].peer /\ r.msg = sess[conn].msg
    BY <1>0, <2>1, <2>2 DEF SessionRecord
  <2> HIDE DEF r
  <2> QED BY <2>2, <2>3, OneSame DEF SameJob
<1>3. CASE GiveUp
  <2>1. PICK out : Set(conn, Tidy([sess[conn] EXCEPT !.open = FALSE, !.out = out]))
    BY <1>3, Zenon DEF GiveUp
  <2> DEFINE r == [sess[conn] EXCEPT !.open = FALSE, !.out = out]
  <2>2. conn \in Slots
    BY <1>3 DEF GiveUp, TypeInv, ConnInv
  <2>3. /\ Set(conn, Tidy(r)) /\ r.rpc = sess[conn].rpc
        /\ r.peer = sess[conn].peer /\ r.msg = sess[conn].msg
    BY <1>0, <2>1, <2>2 DEF SessionRecord
  <2> HIDE DEF r
  <2> QED BY <1>a, <2>2, <2>3, OneSame DEF SameJob
<1>4. CASE CountSent
  <2> DEFINE r == [sess[conn] EXCEPT !.count = @ + 1]
  <2>1. conn \in Slots
    BY <1>4 DEF CountSent, TypeInv, ConnInv
  <2>2. Set(conn, r) /\ r.rpc = sess[conn].rpc /\ r.peer = sess[conn].peer /\ r.msg = sess[conn].msg
    BY <1>0, <1>4, <2>1 DEF SessionRecord, CountSent
  <2> HIDE DEF r
  <2> QED BY <1>a, <2>1, <2>2, OneSame DEF SameJob
<1>5. CASE Subscribe \/ RemoveFile
  BY <1>a, <1>5 DEF Subscribe, RemoveFile, SameWork, SameJob
<1> QED BY <1>a, <1>1, <1>2, <1>3, <1>4, <1>5 DEF Sender

LEMMA SessionSame ==
  ASSUME TypeInv, NEW s \in Slots,
         ProcessAck(s) \/ SendAck(s) \/ Abandoned(s) \/ Break(s)
  PROVE  SameWork /\ UNCHANGED peerVars
<1>0. sess[s] \in SessionRecord
  BY DEF TypeInv, SessionsOK
<1>1. CASE ProcessAck(s)
  <2> DEFINE r == [sess[s] EXCEPT !.acks = Tail(@)]
  <2>1. r.rpc = sess[s].rpc /\ r.peer = sess[s].peer /\ r.msg = sess[s].msg
    BY <1>0 DEF SessionRecord
  <2>2. Set(s, r) /\ UNCHANGED peerVars
    BY <1>1 DEF ProcessAck
  <2> HIDE DEF r
  <2> QED BY <2>1, <2>2, OneSame DEF SameJob
<1>2. CASE SendAck(s)
  <2>1. PICK acks : Set(s, [sess[s] EXCEPT !.rpc = "read", !.msg = <<>>, !.acks = acks])
    BY <1>2, Zenon DEF SendAck
  <2> DEFINE r == [sess[s] EXCEPT !.rpc = "read", !.msg = <<>>, !.acks = acks]
  <2>2. r.rpc = "read" /\ sess[s].rpc = "ack"
    BY <1>0, <1>2 DEF SessionRecord, SendAck
  <2>3. Set(s, r) /\ UNCHANGED peerVars
    BY <1>2, <2>1 DEF SendAck
  <2> HIDE DEF r
  <2> QED BY <2>2, <2>3, OneSame DEF SameJob, LetIn
<1>3. CASE Break(s)
  <2> DEFINE r == [sess[s] EXCEPT !.rpc = "closed", !.out = <<>>, !.acks = <<>>]
  <2>1. r.rpc = "closed" /\ sess[s].rpc = "read"
    BY <1>0, <1>3 DEF SessionRecord, Break
  <2>2. Set(s, Tidy(r)) /\ UNCHANGED peerVars
    BY <1>3 DEF Break
  <2> HIDE DEF r
  <2> QED BY <2>1, <2>2, OneSame DEF SameJob, LetIn
<1>4. CASE Abandoned(s)
  BY <1>4, CloseSame DEF Abandoned
<1> QED BY <1>1, <1>2, <1>3, <1>4

LEMMA SenderCrashSame ==
  ASSUME TypeInv, SenderCrash
  PROVE  SameWork /\ UNCHANGED peerVars
<1> DEFINE r(s) == [sess[s] EXCEPT !.open = FALSE, !.acks = <<>>]
<1>1. \A s \in Slots : SameJob(sess[s], r(s))
  BY DEF SessionRecord, SameJob, TypeInv, SessionsOK
<1>2. sess' = [s \in Slots |-> Tidy(r(s))] /\ UNCHANGED peerVars
  BY Zenon DEF SenderCrash
<1> HIDE DEF r
<1> QED BY <1>1, <1>2, TidySame DEF SameWork

\* Session s lets packfile m in.
LetsIn(s, m) ==
  /\ sess[s].rpc = "read" /\ Allowed(sess[s].peer)
  /\ store[sess[s].peer][m.file] = "none"
  /\ \E rest : Set(s, TakenIn(sess[s], m, rest))
  /\ raced' = IF \E t \in Slots : Saving(t, sess[s].peer, m.file)
                THEN raced \cup {<<sess[s].peer, m.file>>} ELSE raced
  /\ UNCHANGED <<store, received, broken>>

LEMMA ReceiveKinds ==
  ASSUME TypeInv, NEW s \in Slots, Receive(s)
  PROVE  (SameWork /\ UNCHANGED peerVars) \/ \E m \in Carrier : LetsIn(s, m)
<1>1. /\ sess[s].rpc = "read" /\ UNCHANGED <<store, received, broken>>
      /\ Head(sess[s].out) \in Carrier
  BY HeadTailProperties DEF Receive, TypeInv, SessionsOK, SessionRecord
<1>2. CASE Close(s) /\ UNCHANGED raced
  BY <1>1, <1>2, CloseSame DEF peerVars
<1>3. CASE LetsIn(s, Head(sess[s].out))
  BY <1>1, <1>3
<1>4. (Close(s) /\ UNCHANGED raced) \/ LetsIn(s, Head(sess[s].out))
  BY <1>1, Zenon DEF Receive, LetsIn, TakenIn
<1> QED BY <1>2, <1>3, <1>4

\* What any step does to the work of the sessions and to the peers' disks.
LEMMA StepKinds ==
  ASSUME TypeInv, ConnInv, [Next]_vars
  PROVE  \/ SameWork /\ UNCHANGED peerVars
         \/ \E s \in Slots, m \in Carrier : LetsIn(s, m)
         \/ \E s \in Slots : WriteFile(s) \/ WriteFails(s) \/ CountReceived(s)
         \/ \E p \in Peers : PeerCrash(p)
<1>1. CASE (\E f \in Files : CreatePackfile(f) \/ FillPackfile(f)) \/ UNCHANGED vars
  BY <1>1 DEF CreatePackfile, FillPackfile, vars, SameWork, SameJob
<1>2. CASE Sender
  BY <1>2, SenderSame
<1>3. ASSUME NEW s \in Slots, Session(s) \/ Break(s)
      PROVE  \/ SameWork /\ UNCHANGED peerVars
             \/ \E m \in Carrier : LetsIn(s, m)
             \/ WriteFile(s) \/ CountReceived(s)
  BY <1>3, SessionSame, ReceiveKinds DEF Session
<1>4. CASE SenderCrash
  BY <1>4, SenderCrashSame
<1> QED BY <1>1, <1>2, <1>3, <1>4, Zenon DEF Next

\* What the working steps make of the session they are of.
LEMMA LetsInEffect ==
  ASSUME TypeInv, NEW s \in Slots, NEW m \in Carrier, LetsIn(s, m)
  PROVE  /\ sess[s].peer \in Peers
         /\ sess'[s].rpc = "write" /\ sess'[s].peer = sess[s].peer /\ sess'[s].msg[1] = m
         /\ \A t \in Slots \ {s} : sess'[t] = sess[t]
<1>1. sess[s] \in SessionRecord /\ sess[s].peer \in Peers
  BY DEF TypeInv, SessionsOK, SessionOK, LetsIn
<1>2. PICK rest : Set(s, TakenIn(sess[s], m, rest))
  BY DEF LetsIn
<1> DEFINE r == TakenIn(sess[s], m, rest)
<1>3. r.rpc = "write" /\ r.peer = sess[s].peer /\ r.msg = <<m>>
  BY <1>1 DEF TakenIn, SessionRecord
<1> HIDE DEF r
<1>4. sess'[s] = r /\ \A t \in Slots \ {s} : sess'[t] = sess[t]
  BY <1>2 DEF Set, TypeInv, SessionsOK, r
<1> QED BY <1>1, <1>3, <1>4

LEMMA WorkEffect ==
  ASSUME TypeInv, NEW s \in Slots, WriteFile(s) \/ WriteFails(s) \/ CountReceived(s)
  PROVE  /\ sess[s].peer \in Peers /\ sess[s].msg[1].file \in Files
         /\ \A t \in Slots \ {s} : sess'[t] = sess[t]
         /\ WriteFile(s) => sess'[s].rpc = "count" /\ sess'[s].peer = sess[s].peer
         /\ WriteFails(s) => sess'[s].rpc = "closed"
         /\ CountReceived(s) => sess'[s].rpc = "ack"
<1>1. sess[s] \in SessionRecord /\ sess[s].peer \in Peers /\ sess[s].msg[1].file \in Files
  BY DEF TypeInv, SessionsOK, SessionOK, WriteFile, WriteFails, CountReceived, Busy, Carrier
<1>2. ASSUME WriteFile(s) \/ CountReceived(s)
      PROVE  /\ \A t \in Slots \ {s} : sess'[t] = sess[t]
             /\ WriteFile(s) => sess'[s].rpc = "count" /\ sess'[s].peer = sess[s].peer
             /\ CountReceived(s) => sess'[s].rpc = "ack"
  <2>1. PICK x \in {"count", "ack"} :
          /\ Set(s, At(sess[s], x))
          /\ WriteFile(s) => x = "count"
          /\ CountReceived(s) => x = "ack"
    BY <1>2 DEF WriteFile, CountReceived, At
  <2>2. At(sess[s], x).rpc = x /\ At(sess[s], x).peer = sess[s].peer
    BY <1>1 DEF At, SessionRecord
  <2>3. sess'[s] = At(sess[s], x) /\ \A t \in Slots \ {s} : sess'[t] = sess[t]
    BY <2>1 DEF Set, TypeInv, SessionsOK
  <2> QED BY <2>1, <2>2, <2>3
<1>3. ASSUME WriteFails(s)
      PROVE  sess'[s].rpc = "closed" /\ \A t \in Slots \ {s} : sess'[t] = sess[t]
  <2> DEFINE r == [sess[s] EXCEPT !.rpc = "closed", !.out = <<>>, !.msg = <<>>]
  <2>1. r.rpc = "closed"
    BY <1>1 DEF SessionRecord
  <2>2. Set(s, Tidy(r))
    BY <1>3 DEF WriteFails, Close
  <2> HIDE DEF r
  <2>3. Tidy(r).rpc = "closed"
    BY <2>1 DEF Tidy, Unused
  <2> QED BY <2>2, <2>3 DEF Set, TypeInv, SessionsOK
<1> QED BY <1>1, <1>2, <1>3

LEMMA PeerCrashEffect ==
  ASSUME TypeInv, NEW p \in Peers, PeerCrash(p)
  PROVE  \A s \in Slots : IF sess[s].peer = p THEN sess'[s].rpc = "closed"
                                              ELSE sess'[s] = sess[s]
<1>1. sess' = [s \in Slots |-> IF sess[s].peer # p THEN sess[s] ELSE Crashed(sess[s])]
  BY Zenon DEF PeerCrash, Crashed
<1>2. ASSUME NEW s \in Slots PROVE Crashed(sess[s]).rpc = "closed"
  <2> DEFINE r == [sess[s] EXCEPT !.rpc = "closed", !.out = <<>>, !.msg = <<>>, !.acks = <<>>]
  <2>1. r.rpc = "closed" /\ Crashed(sess[s]) = Tidy(r)
    BY DEF TypeInv, SessionsOK, SessionRecord, Crashed
  <2> HIDE DEF r
  <2> QED BY <2>1 DEF Tidy, Unused
<1> QED BY <1>1, <1>2

LEMMA InitRace == Init => RaceInv
BY DEF Init, RaceInv, Unused

LEMMA StepRace == Inv /\ RaceInv /\ [Next]_vars => RaceInv'
<1> SUFFICES ASSUME TypeInv, ConnInv, RaceInv, [Next]_vars, NEW s \in Slots,
                    sess'[s].rpc = "write"
             PROVE  SaveOK(s)'
  BY DEF Inv, RaceInv
<1>1. CASE SameWork /\ UNCHANGED peerVars
  BY <1>1 DEF RaceInv, SaveOK, Saving, SameWork, SameJob, LetIn, peerVars
<1>2. ASSUME NEW t \in Slots, NEW m \in Carrier, LetsIn(t, m) PROVE SaveOK(s)'
  <2> DEFINE p == sess[t].peer
             f == m.file
  <2>1. /\ store' = store /\ store[p][f] = "none" /\ sess[t].rpc = "read"
        /\ raced' = IF \E u \in Slots : Saving(u, p, f) THEN raced \cup {<<p, f>>} ELSE raced
    BY <1>2 DEF LetsIn
  <2>2. /\ sess'[t].rpc = "write" /\ sess'[t].peer = p /\ sess'[t].msg[1] = m
        /\ \A u \in Slots \ {t} : sess'[u] = sess[u]
    BY <1>2, LetsInEffect
  <2> HIDE DEF p
  <2>3. CASE s = t
    <3>1. <<p, f>> \in raced' \/ \A u \in Slots : ~Saving(u, p, f)
      BY <2>1
    <3> QED BY <2>1, <2>2, <2>3, <3>1 DEF SaveOK, Saving
  <2>4. CASE s # t
    <3> DEFINE q == sess[s].peer
               g == sess[s].msg[1].file
    <3>1. sess'[s] = sess[s] /\ raced \subseteq raced'
      BY <2>1, <2>2, <2>4
    <3>2. <<q, g>> \in raced \/ (store[q][g] = "none" /\ \A u \in Slots \ {s} : ~Saving(u, q, g))
      BY <3>1 DEF RaceInv, SaveOK
    <3>3. q = p /\ g = f => <<q, g>> \in raced'
      BY <2>1, <3>1 DEF Saving
    <3>4. \A u \in Slots \ {s} : sess'[u].rpc = "write" /\ sess'[u].peer = q /\ sess'[u].msg[1].file = g =>
            Saving(u, q, g) \/ (q = p /\ g = f)
      BY <2>2 DEF Saving
    <3> QED BY <2>1, <3>1, <3>2, <3>3, <3>4 DEF SaveOK, Saving
  <2> QED BY <2>3, <2>4
<1>3. ASSUME NEW t \in Slots, WriteFile(t) \/ WriteFails(t) \/ CountReceived(t)
      PROVE  SaveOK(s)'
  <2>1. /\ s # t /\ sess'[s] = sess[s] /\ raced' = raced
        /\ \A u \in Slots \ {t} : sess'[u] = sess[u]
        /\ sess'[t].rpc # "write"
    BY <1>3, WorkEffect DEF WriteFile, WriteFails, CountReceived
  <2> DEFINE p == sess[s].peer
             f == sess[s].msg[1].file
  <2>2. p \in Peers /\ f \in Files
    BY <2>1 DEF TypeInv, SessionsOK, SessionOK, Busy, Carrier
  <2>3. <<p, f>> \in raced \/ (store[p][f] = "none" /\ \A u \in Slots \ {s} : ~Saving(u, p, f))
    BY <2>1 DEF RaceInv, SaveOK
  <2>4. store'[p][f] = store[p][f] \/ Saving(t, p, f)
    BY <1>3, <2>2 DEF WriteFile, WriteFails, CountReceived, Saving, TypeInv
  <2> QED BY <2>1, <2>2, <2>3, <2>4 DEF SaveOK, Saving
<1>4. ASSUME NEW p \in Peers, PeerCrash(p) PROVE SaveOK(s)'
  <2>1. /\ sess[s].peer # p /\ sess'[s] = sess[s] /\ raced' = raced
        /\ \A q \in Peers \ {p} : store'[q] = store[q]
    BY <1>4, PeerCrashEffect DEF PeerCrash, TypeInv
  <2>2. sess[s].peer \in Peers
    BY <2>1 DEF TypeInv, SessionsOK, SessionOK
  <2>3. \A u \in Slots : Saving(u, sess[s].peer, sess[s].msg[1].file)' =>
          Saving(u, sess[s].peer, sess[s].msg[1].file)
    BY <1>4, <2>1, PeerCrashEffect DEF Saving
  <2> QED BY <2>1, <2>2, <2>3 DEF RaceInv, SaveOK
<1> QED BY <1>1, <1>2, <1>3, <1>4, StepKinds

-----------------------------------------------------------------------------
(* Every step keeps the invariant.                                          *)

LEMMA StepInv == Inv /\ RaceInv /\ [Next]_vars => Inv'
<1> SUFFICES ASSUME Inv, RaceInv, [Next]_vars PROVE Inv'
  OBVIOUS
<1>1. CASE \E f \in Files : CreatePackfile(f) \/ FillPackfile(f)
  BY <1>1, PackInv
<1>2. CASE Sender
  BY <1>2, ConnectInv, SendFileInv, SubscribeInv, GiveUpInv, CountSentInv, RemoveFileInv
  DEF Sender
<1>3. CASE \E s \in Slots : Session(s) \/ WriteFails(s) \/ Break(s)
  BY <1>3, ProcessAckInv, ReceiveInv, WriteFileInv, CountReceivedInv, SendAckInv,
     AbandonedInv, WriteFailsInv, BreakInv
  DEF Session
<1>4. CASE SenderCrash
  BY <1>4, SenderCrashInv
<1>5. CASE \E p \in Peers : PeerCrash(p)
  BY <1>5, PeerCrashInv
<1>6. CASE UNCHANGED vars
  <2>1. TypeInv' /\ StoreKept /\ UNCHANGED <<senderVars, sess, received>>
    BY <1>6, SameStoreKept DEF Inv, TypeInv, SessionsOK, vars, senderVars, peerVars
  <2>2. \A p \in Peers : received[p] <= received'[p]
    BY <2>1 DEF Inv, TypeInv
  <2> QED BY <2>1, <2>2, OtherSession
<1> QED BY <1>1, <1>2, <1>3, <1>4, <1>5, <1>6 DEF Next

LEMMA AlwaysInv == Spec => []Inv
BY InitInv, InitRace, StepInv, StepRace, PTL DEF Spec

-----------------------------------------------------------------------------
(* The theorems.                                                            *)

\* Every variable keeps to its values, whatever fails.
THEOREM TransferTypes == Spec => []TypeOK
<1>1. Inv => TypeOK
  BY TypeInvIsTypeOK DEF Inv
<1> QED BY <1>1, AlwaysInv, PTL

\* The sender books no byte to a peer that the peer has not booked before it, with
\* sessions that outlive their use, lost messages and crashes of either side.
THEOREM AccountsInOrder == Spec => []SenderNeverAhead
<1>1. Inv => SenderNeverAhead
  BY DEF Inv, CountedInv
<1> QED BY <1>1, AlwaysInv, PTL

\* wait_for_ack waits in vain for an ack only if that ack was handed out between the
\* send and the subscription, or the connection is lost: never because of anything that
\* an earlier, forgotten session does.
THEOREM AckIsToCome == Spec => []AwaitedAckIsAhead
<1>1. Inv => AwaitedAckIsAhead
  BY DEF Inv, ConnInv, AckInv, AwaitedAckIsAhead, InStep, Lost, OnItsWay, AtWork,
         Answered, Busy
<1> QED BY <1>1, AlwaysInv, PTL

\* When the sender takes a packfile for confirmed, the peer it has the connection with
\* has what was sent, but for a save of the same file that overtook it and broke off.
THEOREM ConfirmedIsStored == Spec => []ConfirmedFileIsThere
<1>1. Inv => ConfirmedFileIsThere
  BY DEF Inv, ConnInv, WrittenInv, Written, ConfirmedFileIsThere
<1> QED BY <1>1, AlwaysInv, PTL

\* What the sender read of a packfile outlives the packfile on the disk of some peer,
\* with packing under way, late messages, crashes and full disks.
THEOREM DeletedIsStored == Spec => []DeletedFilesAreKept
<1>1. Inv => DeletedFilesAreKept
  BY DEF Inv
<1> QED BY <1>1, AlwaysInv, PTL

-----------------------------------------------------------------------------
(* How much a peer stores.                                                  *)

\* The sessions that have let in a packfile of peer p that is not counted yet.
Pending(p) == {s \in Slots : sess[s].peer = p /\ sess[s].rpc \in LetIn}

\* What the peer has counted and let in.
UsageOf(p) ==
  received[p] + FileSize * Cardinality(Pending(p))
    < Negotiated[p] + Spread + FileSize * Cardinality(Slots)

\* What it has stored is counted, about to be counted, or of a save that broke off.
Stored(p) == {f \in Files : store[p][f] # "none"}
StoredOf(p) ==
  FileSize * Cardinality(Stored(p))
    <= received[p] + FileSize * (Cardinality(AtPeer(p, "count")) + broken[p])

UsageInv == \A p \in Peers : UsageOf(p) /\ StoredOf(p)

LEMMA PendingFinite ==
  ASSUME NEW p
  PROVE  /\ IsFiniteSet(Pending(p)) /\ Cardinality(Pending(p)) \in Nat
         /\ Cardinality(Pending(p)) <= Cardinality(Slots)
         /\ Cardinality(Slots) \in Nat
<1>1. Pending(p) \subseteq Slots
  BY DEF Pending
<1> QED BY <1>1, SlotsAssumption, FS_Subset, FS_CardinalityType

LEMMA StoredFinite ==
  ASSUME NEW p
  PROVE  IsFiniteSet(Stored(p)) /\ Cardinality(Stored(p)) \in Nat
<1>1. Stored(p) \subseteq Files
  BY DEF Stored
<1> QED BY <1>1, SlotsAssumption, FS_Subset, FS_CardinalityType

LEMMA TimesFileSize ==
  ASSUME NEW m \in Nat, NEW n \in Nat, m <= n
  PROVE  FileSize * m \in Nat /\ FileSize * m <= FileSize * n
BY SizeAssumption, Z3

\* Nothing more is let in and what is stored is accounted for as before.
LEMMA NoMorePending ==
  ASSUME Inv, NEW p \in Peers, UsageOf(p), received'[p] = received[p],
         Pending(p)' \subseteq Pending(p)
  PROVE  UsageOf(p)'
<1>1. PICK m \in Nat, n \in Nat, slots \in Nat :
        /\ m = Cardinality(Pending(p)') /\ n = Cardinality(Pending(p)) /\ m <= n
        /\ slots = Cardinality(Slots)
  BY PendingFinite, FS_Subset, FS_CardinalityType
<1>2. /\ FileSize * m \in Nat /\ FileSize * n \in Nat /\ FileSize * slots \in Nat
      /\ FileSize * m <= FileSize * n
  BY <1>1, TimesFileSize
<1>3. received[p] + FileSize * n < Negotiated[p] + Spread + FileSize * slots
  BY <1>1 DEF UsageOf
<1>4. received[p] \in Nat /\ Negotiated[p] + Spread \in Nat
  BY NegotiatedAssumption, SizeAssumption DEF Inv, TypeInv
<1>5. received[p] + FileSize * m < Negotiated[p] + Spread + FileSize * slots
  BY <1>2, <1>3, <1>4
<1> QED BY <1>1, <1>5 DEF UsageOf

LEMMA SameUsage ==
  ASSUME Inv, NEW p \in Peers, UsageOf(p), StoredOf(p),
         UNCHANGED <<received, broken>>,
         Pending(p)' = Pending(p), AtPeer(p, "count")' = AtPeer(p, "count"),
         Stored(p)' = Stored(p)
  PROVE  UsageOf(p)' /\ StoredOf(p)'
BY NoMorePending DEF StoredOf

\* At most n more packfiles are stored, and n more will be counted or have broken off.
LEMMA MoreStored ==
  ASSUME Inv, NEW p \in Peers, StoredOf(p), received'[p] = received[p], NEW n \in Nat,
         broken'[p] \in Nat,
         Cardinality(Stored(p)') <= Cardinality(Stored(p)) + n,
         Cardinality(AtPeer(p, "count")') + broken'[p]
           = Cardinality(AtPeer(p, "count")) + broken[p] + n
  PROVE  StoredOf(p)'
<1>1. PICK a \in Nat, a1 \in Nat, b \in Nat, b1 \in Nat :
        /\ a = Cardinality(Stored(p)) /\ a1 = Cardinality(Stored(p)')
        /\ b = Cardinality(AtPeer(p, "count")) + broken[p]
        /\ b1 = Cardinality(AtPeer(p, "count")') + broken'[p]
  <2>1. Cardinality(Stored(p)') \in Nat /\ Cardinality(AtPeer(p, "count")') \in Nat
    <3>1. Stored(p)' \subseteq Files /\ AtPeer(p, "count")' \subseteq Slots
      BY DEF Stored, AtPeer
    <3> QED BY <3>1, SlotsAssumption, FS_Subset, FS_CardinalityType
  <2>2. broken[p] \in Nat
    BY DEF Inv, TypeInv
  <2> QED BY <2>1, <2>2, StoredFinite, AtPeerFinite
<1>2. a1 <= a + n /\ b1 = b + n
  BY <1>1
<1>3. /\ FileSize * a1 <= FileSize * (a + n)
      /\ FileSize * a \in Nat /\ FileSize * a1 \in Nat /\ FileSize * n \in Nat
      /\ FileSize * b \in Nat
  BY <1>2, TimesFileSize
<1>4. /\ FileSize * (a + n) = FileSize * a + FileSize * n
      /\ FileSize * (b + n) = FileSize * b + FileSize * n
  BY SizeAssumption
<1>5. FileSize * a <= received[p] + FileSize * b /\ received[p] \in Nat
  BY <1>1 DEF StoredOf, Inv, TypeInv
<1>6. FileSize * a1 <= received[p] + FileSize * (b + n)
  BY <1>3, <1>4, <1>5
<1> QED BY <1>1, <1>2, <1>6 DEF StoredOf

\* A packfile is let in only while the peer has room by its own account.
LEMMA LetsInUsage ==
  ASSUME Inv, UsageInv, NEW s \in Slots, NEW m \in Carrier, LetsIn(s, m), NEW p \in Peers
  PROVE  UsageOf(p)' /\ StoredOf(p)'
<1>1. /\ UNCHANGED <<store, received, broken>> /\ UsageOf(p) /\ StoredOf(p)
      /\ sess[s].rpc = "read"
      /\ sess'[s].rpc = "write" /\ sess'[s].peer = sess[s].peer
      /\ \A t \in Slots \ {s} : sess'[t] = sess[t]
  BY LetsInEffect DEF LetsIn, UsageInv, Inv
<1>2. AtPeer(p, "count")' = AtPeer(p, "count") /\ Stored(p)' = Stored(p)
  BY <1>1 DEF AtPeer, Stored
<1>3. StoredOf(p)'
  BY <1>1, <1>2 DEF StoredOf
<1>4. CASE p # sess[s].peer
  <2>1. Pending(p)' \subseteq Pending(p)
    BY <1>1, <1>4 DEF Pending
  <2> QED BY <1>1, <1>3, <2>1, NoMorePending
<1>5. CASE p = sess[s].peer
  <2>1. PICK m1 \in Nat, slots \in Nat :
          m1 = Cardinality(Pending(p)') /\ slots = Cardinality(Slots) /\ m1 <= slots
    <3>1. Pending(p)' \subseteq Slots
      BY DEF Pending
    <3> QED BY <3>1, SlotsAssumption, FS_Subset, FS_CardinalityType
  <2>2. /\ FileSize * m1 \in Nat /\ FileSize * slots \in Nat
        /\ FileSize * m1 <= FileSize * slots
    BY <2>1, TimesFileSize
  <2>3. received[p] \in Nat /\ Negotiated[p] \in Nat /\ Spread \in Nat
    BY NegotiatedAssumption, SizeAssumption DEF Inv, TypeInv
  <2>4. received[p] < Negotiated[p] + Spread
    BY <1>5, <2>3 DEF Allowed, Room, LetsIn
  <2>5. received[p] + FileSize * m1 < Negotiated[p] + Spread + FileSize * slots
    BY <2>2, <2>3, <2>4
  <2> QED BY <1>1, <1>3, <2>1, <2>5 DEF UsageOf
<1> QED BY <1>4, <1>5

\* A write, whether it succeeds or not, stores one packfile more at most.
LEMMA WriteUsage ==
  ASSUME Inv, UsageInv, NEW s \in Slots, WriteFile(s) \/ WriteFails(s), NEW p \in Peers
  PROVE  UsageOf(p)' /\ StoredOf(p)'
<1>1. PICK q \in Peers, f \in Files : q = sess[s].peer /\ f = sess[s].msg[1].file
  BY WorkEffect DEF Inv
<1>2. /\ sess[s].rpc = "write" /\ received' = received /\ UsageOf(p) /\ StoredOf(p)
      /\ \A t \in Slots \ {s} : sess'[t] = sess[t]
      /\ WriteFile(s) => sess'[s].rpc = "count" /\ sess'[s].peer = q /\ broken' = broken
      /\ WriteFails(s) => sess'[s].rpc = "closed" /\ broken' = [broken EXCEPT ![q] = @ + 1]
      /\ \E d \in StoreStates : store' = [store EXCEPT ![q][f] = d]
      /\ broken \in [Peers -> Nat] /\ store \in [Peers -> [Files -> StoreStates]]
  <2>1. /\ sess[s].rpc = "write" /\ received' = received
        /\ WriteFile(s) => broken' = broken
        /\ WriteFails(s) => broken' = [broken EXCEPT ![q] = @ + 1]
    BY <1>1 DEF WriteFile, WriteFails
  <2>2. \E d \in StoreStates : store' = [store EXCEPT ![q][f] = d]
    <3>1. sess[s].msg[1].data \in StoreStates
      BY <2>1 DEF Inv, TypeInv, SessionsOK, SessionOK, Busy, Carrier, Carried, StoreStates
    <3> QED BY <1>1, <3>1 DEF WriteFile, WriteFails, StoreStates
  <2> QED BY <1>1, <2>1, <2>2, WorkEffect DEF UsageInv, Inv, TypeInv
<1>3. Pending(p)' \subseteq Pending(p)
  BY <1>1, <1>2 DEF Pending, LetIn
<1>4. UsageOf(p)'
  BY <1>2, <1>3, NoMorePending
<1>5. CASE p # q
  <2>1. /\ AtPeer(p, "count")' = AtPeer(p, "count") /\ Stored(p)' = Stored(p)
        /\ broken'[p] = broken[p]
    BY <1>1, <1>2, <1>5 DEF AtPeer, Stored
  <2> QED BY <1>2, <1>4, <2>1 DEF StoredOf
<1>6. CASE p = q
  <2>1. Stored(p)' \subseteq Stored(p) \cup {f}
    BY <1>2, <1>6 DEF Stored
  <2>2. Cardinality(Stored(p)') <= Cardinality(Stored(p)) + 1
    <3>0. PICK a \in Nat : a = Cardinality(Stored(p))
      BY StoredFinite
    <3>a. /\ IsFiniteSet(Stored(p) \cup {f})
          /\ Cardinality(Stored(p) \cup {f}) = a \/ Cardinality(Stored(p) \cup {f}) = a + 1
      BY <3>0, StoredFinite, FS_AddElement
    <3>1. /\ IsFiniteSet(Stored(p) \cup {f})
          /\ Cardinality(Stored(p) \cup {f}) <= Cardinality(Stored(p)) + 1
          /\ Cardinality(Stored(p) \cup {f}) \in Nat
      BY <3>0, <3>a
    <3>2. Cardinality(Stored(p)') <= Cardinality(Stored(p) \cup {f})
      BY <2>1, <3>1, FS_Subset
    <3>3. Cardinality(Stored(p)') \in Nat
      BY <2>1, <3>1, FS_Subset, FS_CardinalityType
    <3> QED BY <3>1, <3>2, <3>3, StoredFinite
  <2>3. broken'[p] \in Nat
    BY <1>2, <1>6
  <2>4. /\ Cardinality(AtPeer(p, "count")') + broken'[p]
             = Cardinality(AtPeer(p, "count")) + broken[p] + 1
    <3>1. PICK k \in Nat : k = Cardinality(AtPeer(p, "count"))
      BY AtPeerFinite
    <3>2. CASE WriteFile(s)
      <4>1. AtPeer(p, "count")' = AtPeer(p, "count") \cup {s} /\ s \notin AtPeer(p, "count")
        BY <1>1, <1>2, <1>6, <3>2 DEF AtPeer
      <4>2. Cardinality(AtPeer(p, "count")') = k + 1
        BY <3>1, <4>1, AtPeerFinite, FS_AddElement
      <4> QED BY <1>2, <3>1, <3>2, <4>2
    <3>3. CASE WriteFails(s)
      <4>1. AtPeer(p, "count")' = AtPeer(p, "count")
        BY <1>2, <3>3 DEF AtPeer
      <4> QED BY <1>2, <1>6, <3>1, <3>3, <4>1
    <3> QED BY <3>2, <3>3
  <2> QED BY <1>2, <1>4, <2>2, <2>3, <2>4, MoreStored
<1> QED BY <1>5, <1>6

\* What is counted is no longer pending.
LEMMA CountUsage ==
  ASSUME Inv, UsageInv, NEW s \in Slots, CountReceived(s), NEW p \in Peers
  PROVE  UsageOf(p)' /\ StoredOf(p)'
<1>1. /\ sess[s].rpc = "count" /\ sess[s].peer \in Peers /\ sess'[s].rpc = "ack"
      /\ \A t \in Slots \ {s} : sess'[t] = sess[t]
      /\ received' = [received EXCEPT ![sess[s].peer] = @ + FileSize]
      /\ UNCHANGED <<store, broken>> /\ UsageOf(p) /\ StoredOf(p)
  BY WorkEffect DEF CountReceived, UsageInv, Inv
<1>2. /\ Pending(p)' = Pending(p) \ {s} /\ Stored(p)' = Stored(p)
      /\ AtPeer(p, "count")' = AtPeer(p, "count") \ {s}
  BY <1>1 DEF Pending, LetIn, AtPeer, Stored
<1>3. CASE p # sess[s].peer
  <2>1. received'[p] = received[p] /\ AtPeer(p, "count")' = AtPeer(p, "count")
    BY <1>1, <1>2, <1>3 DEF Inv, TypeInv, AtPeer
  <2> QED BY <1>1, <1>2, <2>1, NoMorePending DEF StoredOf
<1>4. CASE p = sess[s].peer
  <2>0. received'[p] = received[p] + FileSize /\ received[p] \in Nat /\ broken[p] \in Nat
    BY <1>1, <1>4 DEF Inv, TypeInv
  <2>1. PICK m \in Nat, slots \in Nat :
          /\ m = Cardinality(Pending(p)') /\ Cardinality(Pending(p)) = m + 1
          /\ slots = Cardinality(Slots)
    <3>1. s \in Pending(p)
      BY <1>1, <1>4 DEF Pending, LetIn
    <3>2. Cardinality(Pending(p) \ {s}) = Cardinality(Pending(p)) - 1
      BY <3>1, PendingFinite, FS_RemoveElement
    <3>3. Cardinality(Pending(p) \ {s}) \in Nat
      BY <3>1, PendingFinite, FS_RemoveElement, FS_CardinalityType
    <3>4. Cardinality(Pending(p)) \in Nat /\ Cardinality(Slots) \in Nat
      BY PendingFinite
    <3> QED BY <1>2, <3>2, <3>3, <3>4
  <2>2. FileSize * m \in Nat /\ FileSize * slots \in Nat
    BY <2>1, TimesFileSize
  <2>3. FileSize * (m + 1) = FileSize * m + FileSize
    BY <2>1, SizeAssumption
  <2>4. received[p] + FileSize * (m + 1) < Negotiated[p] + Spread + FileSize * slots
    BY <1>1, <2>1 DEF UsageOf
  <2>5. received'[p] + FileSize * m < Negotiated[p] + Spread + FileSize * slots
    BY <2>0, <2>2, <2>3, <2>4, NegotiatedAssumption, SizeAssumption
  <2>6. PICK k \in Nat :
          Cardinality(AtPeer(p, "count")') = k /\ Cardinality(AtPeer(p, "count")) = k + 1
    <3>1. s \in AtPeer(p, "count")
      BY <1>1, <1>4 DEF AtPeer
    <3>2. Cardinality(AtPeer(p, "count") \ {s}) = Cardinality(AtPeer(p, "count")) - 1
      BY <3>1, AtPeerFinite, FS_RemoveElement
    <3>3. Cardinality(AtPeer(p, "count") \ {s}) \in Nat
      BY <3>1, AtPeerFinite, FS_RemoveElement, FS_CardinalityType
    <3>4. Cardinality(AtPeer(p, "count")) \in Nat
      BY AtPeerFinite
    <3> QED BY <1>2, <3>2, <3>3, <3>4
  <2>7. FileSize * Cardinality(Stored(p)) <= received[p] + FileSize * (k + 1 + broken[p])
    BY <1>1, <2>6 DEF StoredOf
  <2>8. /\ FileSize * (k + 1 + broken[p]) = FileSize * (k + broken[p]) + FileSize
        /\ FileSize * (k + broken[p]) \in Nat
    BY <2>0, SizeAssumption
  <2>9. FileSize * Cardinality(Stored(p)) \in Nat
    BY StoredFinite, TimesFileSize
  <2>10. FileSize * Cardinality(Stored(p)) <= received'[p] + FileSize * (k + broken[p])
    BY <2>0, <2>7, <2>8, <2>9, SizeAssumption
  <2> QED BY <1>1, <1>2, <2>1, <2>5, <2>6, <2>10 DEF UsageOf, StoredOf
<1> QED BY <1>3, <1>4

\* A crash leaves a packfile for each write that it tears at most.
LEMMA CrashUsage ==
  ASSUME Inv, UsageInv, NEW q \in Peers, PeerCrash(q), NEW p \in Peers
  PROVE  UsageOf(p)' /\ StoredOf(p)'
<1>1. /\ received' = received /\ UsageOf(p) /\ StoredOf(p)
      /\ \A s \in Slots : IF sess[s].peer = q THEN sess'[s].rpc = "closed"
                                              ELSE sess'[s] = sess[s]
  BY PeerCrashEffect DEF UsageInv, Inv, PeerCrash
<1>2. PICK torn \in SUBSET AtPeer(q, "write") :
        /\ store' = [store EXCEPT ![q] = [f \in Files |->
                      IF \E s \in torn : sess[s].msg[1].file = f THEN "torn" ELSE @[f]]]
        /\ broken' = [broken EXCEPT ![q] = @ + Cardinality(torn \cup AtPeer(q, "count"))]
  BY Zenon DEF PeerCrash, AtPeer
<1>3. /\ store \in [Peers -> [Files -> StoreStates]] /\ broken \in [Peers -> Nat]
      /\ Pending(p)' \subseteq Pending(p)
  BY <1>1 DEF Inv, TypeInv, Pending, LetIn
<1>4. UsageOf(p)'
  BY <1>1, <1>3, NoMorePending
<1>5. CASE p # q
  <2>1. /\ AtPeer(p, "count")' = AtPeer(p, "count") /\ Stored(p)' = Stored(p)
        /\ broken'[p] = broken[p]
    BY <1>1, <1>2, <1>3, <1>5 DEF AtPeer, Stored
  <2> QED BY <1>1, <1>4, <2>1 DEF StoredOf
<1>6. CASE p = q
  <2> DEFINE files == {sess[s].msg[1].file : s \in torn}
  <2>1. PICK n \in Nat : n = Cardinality(torn) /\ IsFiniteSet(torn)
    BY AtPeerFinite, FS_Subset, FS_CardinalityType
  <2>2. PICK k \in Nat : k = Cardinality(AtPeer(p, "count"))
    BY AtPeerFinite
  <2>3. Cardinality(torn \cup AtPeer(p, "count")) = n + k
    <3>1. torn \cap AtPeer(p, "count") = {}
      BY <1>6 DEF AtPeer
    <3>2. IsFiniteSet(AtPeer(p, "count"))
      BY AtPeerFinite
    <3>3. Cardinality(torn \cup AtPeer(p, "count")) = n + k - Cardinality(torn \cap AtPeer(p, "count"))
      BY <2>1, <2>2, <3>2, FS_Union
    <3> QED BY <3>1, <3>3, FS_EmptySet
  <2>4. AtPeer(p, "count")' = {}
    BY <1>1, <1>6 DEF AtPeer
  <2>5. broken'[p] = broken[p] + (n + k) /\ broken[p] \in Nat
    BY <1>2, <1>3, <1>6, <2>3
  <2>6. Cardinality(AtPeer(p, "count")') + broken'[p]
          = Cardinality(AtPeer(p, "count")) + broken[p] + n
    BY <2>2, <2>4, <2>5, FS_EmptySet
  <2>7. Cardinality(Stored(p)') <= Cardinality(Stored(p)) + n
    <3>1. IsFiniteSet(files) /\ Cardinality(files) <= n
      <4> DEFINE name == [s \in torn |-> sess[s].msg[1].file]
      <4>1. name \in Surjection(torn, files)
        BY DEF Surjection
      <4> QED BY <2>1, <4>1, FS_Surjection
    <3>2. Cardinality(files) \in Nat
      BY <3>1, FS_CardinalityType
    <3>3. Stored(p)' \subseteq Stored(p) \cup files
      BY <1>2, <1>3, <1>6 DEF Stored
    <3> HIDE DEF files
    <3>4. /\ IsFiniteSet(Stored(p) \cup files)
          /\ Cardinality(Stored(p) \cup files)
               = Cardinality(Stored(p)) + Cardinality(files) - Cardinality(Stored(p) \cap files)
      BY <3>1, StoredFinite, FS_Union
    <3>5. Cardinality(Stored(p) \cap files) \in Nat
      BY <3>1, FS_Intersection, FS_CardinalityType
    <3>6. /\ Cardinality(Stored(p)') <= Cardinality(Stored(p) \cup files)
          /\ Cardinality(Stored(p)') \in Nat
      BY <3>3, <3>4, FS_Subset, FS_CardinalityType
    <3> QED BY <2>1, <3>1, <3>2, <3>4, <3>5, <3>6, StoredFinite
  <2>8. broken'[p] \in Nat
    BY <2>5
  <2> QED BY <1>1, <1>4, <2>1, <2>6, <2>7, <2>8, MoreStored
<1> QED BY <1>5, <1>6

LEMMA StepUsage == Inv /\ UsageInv /\ [Next]_vars => UsageInv'
<1> SUFFICES ASSUME Inv, UsageInv, [Next]_vars, NEW p \in Peers
             PROVE  UsageOf(p)' /\ StoredOf(p)'
  BY DEF UsageInv
<1>1. CASE SameWork /\ UNCHANGED peerVars
  <2>1. /\ Pending(p)' = Pending(p) /\ AtPeer(p, "count")' = AtPeer(p, "count")
        /\ Stored(p)' = Stored(p) /\ UNCHANGED <<received, broken>>
    BY <1>1 DEF Pending, AtPeer, Stored, SameWork, SameJob, LetIn, peerVars
  <2> QED BY <2>1, SameUsage DEF UsageInv
<1>2. CASE \E s \in Slots, m \in Carrier : LetsIn(s, m)
  BY <1>2, LetsInUsage
<1>3. CASE \E s \in Slots : WriteFile(s) \/ WriteFails(s) \/ CountReceived(s)
  BY <1>3, WriteUsage, CountUsage
<1>4. CASE \E q \in Peers : PeerCrash(q)
  BY <1>4, CrashUsage
<1> QED BY <1>1, <1>2, <1>3, <1>4, StepKinds DEF Inv

LEMMA InitUsage == Init => UsageInv
<1> SUFFICES ASSUME Init, NEW p \in Peers PROVE UsageOf(p) /\ StoredOf(p)
  BY DEF UsageInv
<1>1. Pending(p) = {} /\ AtPeer(p, "count") = {} /\ Stored(p) = {}
  BY DEF Init, Pending, AtPeer, Stored, LetIn, Unused
<1>2. Cardinality({}) = 0
  BY FS_EmptySet
<1>3. PICK n \in Nat : n = Cardinality(Slots) /\ n # 0
  BY SlotsAssumption, FS_EmptySet, FS_CardinalityType
<1>4. FileSize * n \in Nat /\ FileSize * 1 <= FileSize * n
  BY <1>3, TimesFileSize
<1>5. received[p] = 0 /\ broken[p] = 0 /\ FileSize * 0 = 0 /\ FileSize * 1 = FileSize
  BY SizeAssumption DEF Init
<1>6. 0 < Negotiated[p] + Spread + FileSize * n
  BY <1>4, <1>5, NegotiatedAssumption, SizeAssumption
<1>7. UsageOf(p)
  BY <1>1, <1>2, <1>3, <1>5, <1>6 DEF UsageOf
<1>8. StoredOf(p)
  BY <1>1, <1>2, <1>5 DEF StoredOf
<1> QED BY <1>7, <1>8

\* A peer stores less than its allowance, the spread, one packfile for each session
\* there can be and one for each save that broke off, however the sessions interleave:
\* repeated sends, late arrivals and restarts add nothing to that.
THEOREM UsageIsBounded == Spec => []StoredBounded
<1>1. Inv /\ UsageInv => StoredBounded
  <2> SUFFICES ASSUME Inv, UsageInv, NEW p \in Peers
               PROVE  FileSize * Cardinality(Stored(p))
                        < Negotiated[p] + Spread + FileSize * (Cardinality(Slots) + broken[p])
    BY DEF StoredBounded, Stored
  <2>1. PICK m \in Nat, k \in Nat, slots \in Nat, b \in Nat, stored \in Nat :
          /\ m = Cardinality(Pending(p)) /\ slots = Cardinality(Slots) /\ b = broken[p]
          /\ k = Cardinality(AtPeer(p, "count")) /\ k <= m /\ stored = Cardinality(Stored(p))
    <3>1. AtPeer(p, "count") \subseteq Pending(p)
      BY DEF AtPeer, Pending, LetIn
    <3>2. Cardinality(AtPeer(p, "count")) <= Cardinality(Pending(p))
      BY <3>1, PendingFinite, FS_Subset
    <3>3. broken[p] \in Nat
      BY DEF Inv, TypeInv
    <3> QED BY <3>2, <3>3, PendingFinite, AtPeerFinite, StoredFinite
  <2>2. /\ FileSize * m \in Nat /\ FileSize * slots \in Nat /\ FileSize * k <= FileSize * m
        /\ FileSize * k \in Nat /\ FileSize * b \in Nat /\ FileSize * stored \in Nat
    BY <2>1, TimesFileSize
  <2>3. /\ FileSize * (k + b) = FileSize * k + FileSize * b
        /\ FileSize * (slots + b) = FileSize * slots + FileSize * b
    BY SizeAssumption
  <2>4. received[p] + FileSize * m < Negotiated[p] + Spread + FileSize * slots
    BY <2>1 DEF UsageInv, UsageOf
  <2>5. FileSize * stored <= received[p] + FileSize * (k + b)
    BY <2>1 DEF UsageInv, StoredOf
  <2>6. received[p] \in Nat /\ Negotiated[p] \in Nat /\ Spread \in Nat
    BY NegotiatedAssumption, SizeAssumption DEF Inv, TypeInv
  <2>7. FileSize * stored < Negotiated[p] + Spread + FileSize * (slots + b)
    BY <2>2, <2>3, <2>4, <2>5, <2>6
  <2> QED BY <2>1, <2>7
<1> QED BY <1>1, AlwaysInv, InitUsage, StepUsage, PTL DEF Spec
=============================================================================
