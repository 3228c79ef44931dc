----------------------- MODULE StorageMatching_proofs -----------------------
(***************************************************************************)
(* Proofs about StorageMatching, for any number of requests, clients and   *)
(* handlers in flight, any sizes and any faults.                           *)
(***************************************************************************)
EXTENDS StorageMatching, SequenceTheorems, TLAPS

-----------------------------------------------------------------------------
(* Type correctness.                                                       *)

\* The amount of a match is a number, the smaller of the two it is taken from.
LEMMA StorageMatchBounds ==
  ASSUME TypeOK, NEW r \in Requests
  PROVE  /\ StorageMatch(r) \in Nat
         /\ StorageMatch(r) <= left[r] /\ StorageMatch(r) <= dest[r].size
         /\ StorageMatch(r) = left[r] \/ StorageMatch(r) = dest[r].size
BY DEF TypeOK, Entry, StorageMatch, Smaller

\* TypeOK holds initially: the sizes asked for are natural numbers.
LEMMA InitTypeOK == Init => TypeOK
<1> SUFFICES ASSUME Init PROVE TypeOK
  OBVIOUS
<1>1. asked \in [Requests -> Nat]
  BY SizesAssumption DEF Init
<1>2. queue \in Seq(Entry)
  BY DEF Init
<1>3. dest \in [Requests -> Entry]
  BY DEF Init, Entry, NoEntry
<1> QED BY <1>1, <1>2, <1>3 DEF Init, TypeOK, Labels

\* One step of a handler keeps the types.
LEMMA HandleTypeOK ==
  ASSUME TypeOK, NEW r \in Requests, Handle(r)
  PROVE  TypeOK'
<1> USE DEF TypeOK, Labels, Running, Holding, Goto
<1>0. NoEntry(r) \in Entry /\ dest[r].req \in Requests /\ dest[r].size \in Nat
  BY DEF Entry, NoEntry
<1>1. CASE PopEntry(r)
  <2>1. Head(queue) \in Entry /\ Tail(queue) \in Seq(Entry)
    BY <1>1, HeadTailProperties DEF PopEntry
  <2> QED BY <1>1, <2>1 DEF PopEntry
<1>2. CASE PopEmpty(r)
  BY <1>2 DEF PopEmpty
<1>3. CASE PushRest(r)
  <2>1. [req |-> r, size |-> left[r]] \in Entry
    BY DEF Entry
  <2>2. Append(queue, [req |-> r, size |-> left[r]]) \in Seq(Entry)
    BY <2>1, AppendProperties
  <2> QED BY <1>0, <1>3, <2>2 DEF PushRest, End
<1>4. CASE NotifyDest(r)
  <2> DEFINE d == dest[r].req
             n == StorageMatch(r)
  <2>1. d \in Requests /\ n \in Nat
    BY <1>0, StorageMatchBounds
  <2>2. Matched(d, r, n) \in [to : Requests, peer : Requests, size : Nat]
    BY <2>1 DEF Matched
  <2>3. granted' \in [Requests -> Nat]
    BY <1>4, <2>1 DEF NotifyDest
  <2> QED BY <1>4, <2>2, <2>3 DEF NotifyDest
<1>5. CASE NotifyDestFails(r)
  BY <1>0, <1>5 DEF NotifyDestFails
<1>6. CASE NotifyReq(r)
  <2>1. Matched(r, dest[r].req, StorageMatch(r))
          \in [to : Requests, peer : Requests, size : Nat]
    BY <1>0, StorageMatchBounds DEF Matched
  <2> QED BY <1>6, <2>1 DEF NotifyReq
<1>7. CASE NotifyReqFails(r)
  BY <1>0, <1>7 DEF NotifyReqFails, End
<1>8. CASE SaveReq(r)
  <2>1. Row(r, dest[r].req, StorageMatch(r))
          \in [source : Requests, destination : Requests, size : Nat]
    BY <1>0, StorageMatchBounds DEF Row
  <2> QED BY <1>8, <2>1 DEF SaveReq
<1>9. CASE SaveDest(r)
  <2>1. Row(dest[r].req, r, StorageMatch(r))
          \in [source : Requests, destination : Requests, size : Nat]
    BY <1>0, StorageMatchBounds DEF Row
  <2> QED BY <1>9, <2>1 DEF SaveDest
<1>10. CASE SaveFails(r)
  BY <1>0, <1>10 DEF SaveFails, End
<1>11. CASE SettleLess(r)
  <2>1. [req |-> dest[r].req, size |-> dest[r].size - StorageMatch(r)] \in Entry
    <3> DEFINE m == dest[r].size - StorageMatch(r)
    <3>1. StorageMatch(r) \in Nat /\ StorageMatch(r) <= dest[r].size
      BY StorageMatchBounds
    <3>2. m \in Nat
      BY <1>0, <3>1
    <3> QED BY <1>0, <3>2 DEF Entry
  <2>2. queue' \in Seq(Entry)
    BY <1>11, <2>1, AppendProperties DEF SettleLess
  <2> QED BY <1>0, <1>11, <2>2 DEF SettleLess, End
<1>12. CASE SettleGreater(r)
  <2>1. left[r] - dest[r].size \in Nat
    BY <1>0, <1>12 DEF SettleGreater
  <2> QED BY <1>0, <1>12, <2>1 DEF SettleGreater
<1>13. CASE SettleEqual(r)
  BY <1>0, <1>13 DEF SettleEqual, End
<1> QED BY <1>1, <1>2, <1>3, <1>4, <1>5, <1>6, <1>7, <1>8, <1>9, <1>10,
           <1>11, <1>12, <1>13 DEF Handle

\* So does any other step.
LEMMA StepTypeOK == TypeOK /\ [Next]_vars => TypeOK'
<1> SUFFICES ASSUME TypeOK, [Next]_vars PROVE TypeOK'
  OBVIOUS
<1> USE DEF TypeOK
<1>1. ASSUME NEW r \in Requests, Submit(r) PROVE TypeOK'
  BY <1>1 DEF Submit, Goto, Labels, Running, Holding
<1>2. ASSUME NEW r \in Requests, Handle(r) PROVE TypeOK'
  BY <1>2, HandleTypeOK
<1>3. ASSUME NEW c \in Clients, Connect(c) \/ Disconnect(c) PROVE TypeOK'
  BY <1>3 DEF Connect, Disconnect
<1>4. CASE Expire
  BY <1>4 DEF Expire
<1>5. CASE Crash
  BY <1>5 DEF Crash, Entry, NoEntry, Labels
<1>6. CASE UNCHANGED vars
  BY <1>6 DEF vars
<1> QED BY <1>1, <1>2, <1>3, <1>4, <1>5, <1>6 DEF Next

\* The variables keep to the ranges TypeOK gives them.
THEOREM TypeCorrect == Spec => []TypeOK
BY InitTypeOK, StepTypeOK, PTL DEF Spec

-----------------------------------------------------------------------------
(* A request is in one place only.                                         *)

\* What the queue holds after a pop and after a push, index by index.
LEMMA PoppedQueue ==
  ASSUME queue \in Seq(Entry), queue # <<>>
  PROVE  /\ 1 \in DOMAIN queue /\ Head(queue) = queue[1]
         /\ \A i \in DOMAIN Tail(queue) : /\ i + 1 \in DOMAIN queue
                                          /\ Tail(queue)[i] = queue[i + 1]
         /\ DOMAIN Tail(queue) \subseteq Nat
BY HeadTailProperties, LenProperties

LEMMA PushedQueue ==
  ASSUME queue \in Seq(Entry), NEW e \in Entry
  PROVE  \A i \in DOMAIN Append(queue, e) :
            \/ i \in DOMAIN queue /\ Append(queue, e)[i] = queue[i]
            \/ i = Len(queue) + 1 /\ i \notin DOMAIN queue /\ Append(queue, e)[i] = e
<1>1. /\ Append(queue, e) \in Seq(Entry)
      /\ Len(Append(queue, e)) = Len(queue) + 1
      /\ \A i \in 1 .. Len(queue) : Append(queue, e)[i] = queue[i]
      /\ Append(queue, e)[Len(queue) + 1] = e
  BY AppendProperties
<1>2. DOMAIN queue = 1 .. Len(queue) /\ Len(queue) \in Nat
  BY LenProperties
<1>3. DOMAIN Append(queue, e) = 1 .. Len(queue) + 1
  BY <1>1, LenProperties
<1> QED BY <1>1, <1>2, <1>3

\* Every element of the queue is an entry.
LEMMA QueueEntries ==
  ASSUME TypeOK
  PROVE  \A i \in DOMAIN queue :
           /\ queue[i] \in Entry
           /\ queue[i].req \in Requests /\ queue[i].size \in Nat
<1>1. queue \in [1 .. Len(queue) -> Entry] /\ DOMAIN queue = 1 .. Len(queue)
  BY LenProperties DEF TypeOK
<1> QED BY <1>1 DEF Entry

\* Nobody is in flight and nothing is queued or held at the start.
LEMMA InitSingleHolder == Init => SingleHolder
BY DEF Init, SingleHolder, Queued, HeldBy, Holding

\* A step of a handler moves a request from one place to another.
LEMMA HandleSingleHolder ==
  ASSUME TypeOK, SingleHolder, NEW r \in Requests, Handle(r)
  PROVE  SingleHolder'
<1> USE DEF SingleHolder, Queued, HeldBy, Goto
<1>0. /\ pc \in [Requests -> Labels] /\ dest \in [Requests -> Entry]
      /\ queue \in Seq(Entry) /\ left[r] \in Nat
      /\ \A u \in Requests : dest[u].req \in Requests /\ dest[u].size \in Nat
      /\ \A i \in DOMAIN queue : queue[i] \in Entry /\ queue[i].req \in Requests
  BY QueueEntries DEF TypeOK, Entry
<1>1. CASE PopEntry(r)
  <2>1. CASE client[Head(queue).req] = client[r]
    BY <1>0, <1>1, <2>1, PoppedQueue DEF PopEntry
  <2>2. CASE client[Head(queue).req] # client[r]
    <3>1. /\ queue # <<>> /\ queue' = Tail(queue) /\ pc[r] = "pop"
          /\ pc' = [pc EXCEPT ![r] = "notify_dest"]
          /\ dest' = [dest EXCEPT ![r] = queue[1]]
      BY <1>0, <1>1, <2>2, PoppedQueue DEF PopEntry
    <3>2. /\ pc[queue[1].req] = "done" /\ queue[1].req \in Requests
          /\ \A i \in DOMAIN queue' : queue'[i].req # queue[1].req
      BY <1>0, <3>1, PoppedQueue
    <3>3. \A u \in Requests :
            /\ pc'[u] = IF u = r THEN "notify_dest" ELSE pc[u]
            /\ dest'[u] = IF u = r THEN queue[1] ELSE dest[u]
      BY <1>0, <3>1
    <3>4. \A i, j \in DOMAIN queue' : queue'[i].req = queue'[j].req => i = j
      BY <1>0, <3>1, PoppedQueue
    <3>5. \A i \in DOMAIN queue' :
            /\ pc[queue'[i].req] = "done" /\ queue'[i].req \in Requests
            /\ \A u \in Requests : ~ (pc[u] \in Holding /\ dest[u].req = queue'[i].req)
      BY <1>0, <3>1, PoppedQueue
    <3>6. \A u \in Requests : ~ (pc[u] \in Holding /\ dest[u].req = queue[1].req)
      BY <1>0, <3>1, PoppedQueue
    <3> QED BY <1>0, <3>1, <3>2, <3>3, <3>4, <3>5, <3>6 DEF Holding
  <2> QED BY <2>1, <2>2
<1>2. CASE PopEmpty(r)
  BY <1>0, <1>2 DEF PopEmpty, Holding
<1>3. CASE PushRest(r)
  <2> DEFINE e == [req |-> r, size |-> left[r]]
  <2>1. e \in Entry
    BY <1>0 DEF Entry
  <2>2. queue' = Append(queue, e) /\ pc[r] = "push_rest"
    BY <1>3 DEF PushRest
  <2>3. /\ \A u \in Requests : pc'[u] = IF u = r THEN "done" ELSE pc[u]
        /\ \A u \in Requests : u # r => dest'[u] = dest[u]
    BY <1>0, <1>3 DEF PushRest, End
  <2>4. /\ e.req = r
        /\ \A i \in DOMAIN queue : queue[i].req # r
        /\ \A u \in Requests : ~ HeldBy(r, u)
    BY <1>0, <2>2
  <2> HIDE DEF e
  <2>5. \A i \in DOMAIN queue' :
            \/ i \in DOMAIN queue /\ queue'[i] = queue[i]
            \/ i = Len(queue) + 1 /\ i \notin DOMAIN queue /\ queue'[i] = e
    BY <1>0, <2>1, <2>2, PushedQueue
  <2>6. \A u \in Requests : pc'[u] \in Holding =>
           pc[u] \in Holding /\ u # r /\ dest'[u] = dest[u]
    BY <2>3 DEF Holding
  <2>7. \A i, j \in DOMAIN queue' : queue'[i].req = queue'[j].req => i = j
    BY <2>4, <2>5
  <2>8. \A i \in DOMAIN queue' : pc'[queue'[i].req] = "done"
    BY <1>0, <2>3, <2>4, <2>5
  <2> QED BY <1>0, <2>2, <2>3, <2>4, <2>5, <2>6, <2>7, <2>8
<1>4. CASE \/ NotifyDest(r) \/ NotifyReq(r) \/ SaveReq(r) \/ SaveDest(r)
  <2>1. /\ dest' = dest /\ queue' = queue /\ pc[r] \in Holding /\ pc'[r] \in Holding
        /\ \A u \in Requests : u # r => pc'[u] = pc[u]
    BY <1>0, <1>4 DEF NotifyDest, NotifyReq, SaveReq, SaveDest, Holding
  <2>2. \A u \in Requests : pc'[u] \in Holding <=> pc[u] \in Holding
    BY <2>1
  <2>3. \A u \in Requests : pc[u] = "done" => pc'[u] = "done"
    BY <2>1 DEF Holding
  <2> QED BY <2>1, <2>2, <2>3
<1>5. CASE \/ NotifyDestFails(r) \/ NotifyReqFails(r) \/ SaveFails(r)
           \/ SettleGreater(r) \/ SettleEqual(r)
  <2>1. /\ queue' = queue /\ pc[r] \in Holding /\ pc'[r] \notin Holding
        /\ \A u \in Requests : u # r => pc'[u] = pc[u] /\ dest'[u] = dest[u]
    BY <1>0, <1>5
    DEF NotifyDestFails, NotifyReqFails, SaveFails, SettleGreater, SettleEqual,
        End, Holding
  <2>2. pc[r] # "done"
    BY <2>1 DEF Holding
  <2> QED BY <2>1, <2>2
<1>6. CASE SettleLess(r)
  <2> DEFINE d == dest[r].req
             e == [req |-> d, size |-> dest[r].size - StorageMatch(r)]
  <2>1. e \in Entry
    BY <1>0, StorageMatchBounds DEF Entry
  <2>2. queue' = Append(queue, e) /\ pc[r] = "settle"
    BY <1>6 DEF SettleLess
  <2>3. /\ \A u \in Requests : pc'[u] = IF u = r THEN "done" ELSE pc[u]
        /\ \A u \in Requests : u # r => dest'[u] = dest[u]
    BY <1>0, <1>6 DEF SettleLess, End
  <2>4. /\ e.req = d /\ pc[d] = "done" /\ d \in Requests
        /\ \A i \in DOMAIN queue : queue[i].req # d
        /\ \A u \in Requests : HeldBy(d, u) => u = r
    BY <1>0, <2>2 DEF Holding
  <2> HIDE DEF e, d
  <2>5. \A i \in DOMAIN queue' :
            \/ i \in DOMAIN queue /\ queue'[i] = queue[i]
            \/ i = Len(queue) + 1 /\ i \notin DOMAIN queue /\ queue'[i] = e
    BY <1>0, <2>1, <2>2, PushedQueue
  <2>6. \A u \in Requests : pc'[u] \in Holding =>
           pc[u] \in Holding /\ u # r /\ dest'[u] = dest[u]
    BY <2>3 DEF Holding
  <2>7. \A i, j \in DOMAIN queue' : queue'[i].req = queue'[j].req => i = j
    BY <2>4, <2>5
  <2>8. \A i \in DOMAIN queue' : pc'[queue'[i].req] = "done"
    BY <1>0, <2>3, <2>4, <2>5
  <2> QED BY <1>0, <2>2, <2>3, <2>4, <2>5, <2>6, <2>7, <2>8
<1> QED BY <1>1, <1>2, <1>3, <1>4, <1>5, <1>6 DEF Handle

\* No other step puts a request in a second place.
LEMMA StepSingleHolder ==
  TypeOK /\ SingleHolder /\ [Next]_vars => SingleHolder'
<1> SUFFICES ASSUME TypeOK, SingleHolder, [Next]_vars PROVE SingleHolder'
  OBVIOUS
<1> USE DEF SingleHolder, Queued, HeldBy
<1>0. pc \in [Requests -> Labels] /\ queue \in Seq(Entry)
  BY DEF TypeOK
<1>1. ASSUME NEW r \in Requests, Submit(r) PROVE SingleHolder'
  <2>1. /\ dest' = dest /\ queue' = queue /\ pc[r] = "new" /\ pc'[r] \notin Holding
        /\ \A u \in Requests : u # r => pc'[u] = pc[u]
    BY <1>0, <1>1 DEF Submit, Goto, Holding
  <2> QED BY <2>1
<1>2. ASSUME NEW r \in Requests, Handle(r) PROVE SingleHolder'
  BY <1>2, HandleSingleHolder
<1>3. ASSUME NEW c \in Clients, Connect(c) \/ Disconnect(c) PROVE SingleHolder'
  BY <1>3 DEF Connect, Disconnect
<1>4. CASE Expire
  BY <1>0, <1>4, PoppedQueue DEF Expire
<1>5. CASE Crash
  <2>1. queue' = <<>> /\ \A u \in Requests : pc'[u] \notin Holding
    BY <1>5 DEF Crash, InFlight, Running, Holding
  <2> QED BY <2>1
<1>6. CASE UNCHANGED vars
  BY <1>6 DEF vars
<1> QED BY <1>1, <1>2, <1>3, <1>4, <1>5, <1>6 DEF Next

\* Whatever the handlers interleave, no request is in two places.
THEOREM SingleHolderAlways == Spec => []SingleHolder
<1>1. TypeOK /\ SingleHolder /\ [Next]_vars => (TypeOK /\ SingleHolder)'
  BY StepTypeOK, StepSingleHolder
<1> QED BY InitTypeOK, InitSingleHolder, <1>1, PTL DEF Spec

-----------------------------------------------------------------------------
(* Matched and circulating amounts add up to what was asked for.           *)

\* SizesAddUp and what makes it inductive.
SizesInv == TypeOK /\ SingleHolder /\ SizesAddUp

\* Nothing has been matched or enqueued at the start.
LEMMA InitSizes == Init => SizesAddUp
<1> SUFFICES ASSUME Init PROVE SizesAddUp
  OBVIOUS
<1>1. asked \in [Requests -> Nat]
  BY SizesAssumption DEF Init
<1>2. \A r \in Requests : granted[r] <= asked[r] /\ OwnAddsUp(r) /\ HeldAddsUp(r)
  BY <1>1 DEF Init, OwnAddsUp, HeldAddsUp, Running, Holding
<1> QED BY <1>2 DEF Init, SizesAddUp

\* While its handler holds no announced match, the rest of a request is exact.
LEMMA OwnUnannounced ==
  ASSUME NEW r \in Requests, OwnAddsUp(r), asked[r] \in Nat,
         pc[r] \in {"pop", "push_rest", "notify_dest"}
  PROVE  /\ Announced(r) = 0 /\ left[r] > 0
         /\ granted[r] + left[r] = asked[r]
<1>1. Announced(r) = 0
  BY DEF Announced, Agreed, Holding
<1>2. pc[r] \in Running
  BY DEF Running, Holding
<1> QED BY <1>1, <1>2 DEF OwnAddsUp

\* A handler that does not move, and whose requests are given nothing, keeps
\* its sizes.
LEMMA SizesFrame ==
  ASSUME NEW u \in Requests,
         pc'[u] = pc[u], left'[u] = left[u], dest'[u] = dest[u], asked' = asked,
         granted'[u] = granted[u],
         pc[u] \in Holding => granted'[dest[u].req] = granted[dest[u].req],
         OwnAddsUp(u), HeldAddsUp(u)
  PROVE  (OwnAddsUp(u) /\ HeldAddsUp(u))'
BY DEF OwnAddsUp, HeldAddsUp, Announced, StorageMatch

\* Every step of a handler moves an amount or turns it from circulating into
\* matched, for both requests of the match alike.
LEMMA HandleSizes ==
  ASSUME SizesInv, NEW r \in Requests, Handle(r)
  PROVE  SizesAddUp'
<1> USE DEF Goto
<1>0. /\ pc \in [Requests -> Labels] /\ dest \in [Requests -> Entry]
      /\ queue \in Seq(Entry) /\ left \in [Requests -> Nat]
      /\ asked \in [Requests -> Nat] /\ granted \in [Requests -> Nat]
      /\ \A u \in Requests : dest[u].req \in Requests /\ dest[u].size \in Nat
      /\ \A i \in DOMAIN queue : queue[i].req \in Requests /\ queue[i].size \in Nat
      /\ \A u \in Requests : StorageMatch(u) \in Nat
  BY QueueEntries, StorageMatchBounds DEF SizesInv, TypeOK, Entry
<1>o. /\ \A u \in Requests : granted[u] <= asked[u] /\ OwnAddsUp(u) /\ HeldAddsUp(u)
      /\ \A i \in DOMAIN queue : EntryAddsUp(queue[i])
  BY DEF SizesInv, SizesAddUp
\* All steps but NotifyDest leave what has been matched alone.
<1>f. ASSUME UNCHANGED <<asked, granted>>,
             \A u \in Requests : u # r =>
               pc'[u] = pc[u] /\ dest'[u] = dest[u] /\ left'[u] = left[u],
             (OwnAddsUp(r) /\ HeldAddsUp(r))',
             \A i \in DOMAIN queue' : EntryAddsUp(queue'[i])
      PROVE  SizesAddUp'
  <2>1. ASSUME NEW u \in Requests, u # r PROVE (OwnAddsUp(u) /\ HeldAddsUp(u))'
    BY <1>o, <1>f, <2>1, SizesFrame
  <2>2. \A e : EntryAddsUp(e)' <=> EntryAddsUp(e)
    BY <1>f DEF EntryAddsUp
  <2>3. \A i \in DOMAIN queue' : EntryAddsUp(queue[i])'
    BY <1>f, <2>2 DEF EntryAddsUp
  <2> QED BY <1>o, <1>f, <2>1, <2>3 DEF SizesAddUp
<1>1. CASE PopEntry(r)
  <2>1. /\ queue # <<>> /\ queue' = Tail(queue) /\ pc[r] = "pop"
        /\ left' = left /\ UNCHANGED <<asked, granted>>
    BY <1>1 DEF PopEntry
  <2>2. \A i \in DOMAIN queue' : EntryAddsUp(queue'[i])
    BY <1>0, <1>o, <2>1, PoppedQueue
  <2>3. CASE UNCHANGED <<pc, dest>>
    <3>1. (OwnAddsUp(r) /\ HeldAddsUp(r))'
      BY <1>o, <2>1, <2>3, SizesFrame
    <3> QED BY <1>f, <2>1, <2>2, <2>3, <3>1
  <2>4. CASE /\ pc' = [pc EXCEPT ![r] = "notify_dest"]
             /\ dest' = [dest EXCEPT ![r] = queue[1]]
    <3>1. /\ pc'[r] = "notify_dest" /\ dest'[r] = queue[1]
          /\ \A u \in Requests : u # r => pc'[u] = pc[u] /\ dest'[u] = dest[u]
      BY <1>0, <2>4
    <3>2. EntryAddsUp(queue[1]) /\ queue[1].req \in Requests /\ queue[1].size \in Nat
      BY <1>0, <1>o, <2>1, PoppedQueue
    <3>3. OwnAddsUp(r)'
      BY <1>0, <1>o, <2>1, <3>1 DEF OwnAddsUp, Announced, Agreed, Holding, Running
    <3>4. HeldAddsUp(r)'
      BY <1>0, <2>1, <3>1, <3>2
      DEF HeldAddsUp, EntryAddsUp, Announced, Agreed, Holding
    <3> QED BY <1>f, <2>1, <2>2, <3>1, <3>3, <3>4
  <2> QED BY <1>0, <1>1, <2>3, <2>4, PoppedQueue DEF PopEntry
<1>2. CASE PopEmpty(r)
  <2>1. /\ pc'[r] = "push_rest" /\ pc[r] = "pop"
        /\ \A u \in Requests : u # r => pc'[u] = pc[u]
        /\ UNCHANGED <<asked, left, granted, dest, queue>>
    BY <1>0, <1>2 DEF PopEmpty
  <2>2. (OwnAddsUp(r) /\ HeldAddsUp(r))'
    BY <1>o, <2>1
    DEF OwnAddsUp, HeldAddsUp, Announced, Agreed, Holding, Running
  <2> QED BY <1>f, <1>o, <2>1, <2>2
<1>3. CASE PushRest(r)
  <2> DEFINE e == [req |-> r, size |-> left[r]]
  <2>1. queue' = Append(queue, e) /\ pc[r] = "push_rest" /\ UNCHANGED <<asked, granted>>
    BY <1>3 DEF PushRest
  <2>2. e \in Entry /\ EntryAddsUp(e)
    <3>1. e \in Entry /\ e.req = r /\ e.size = left[r]
      BY <1>0 DEF Entry
    <3>2. left[r] > 0 /\ granted[r] + left[r] = asked[r]
      BY <2>1, OwnUnannounced, <1>0, <1>o
    <3> HIDE DEF e
    <3> QED BY <3>1, <3>2 DEF EntryAddsUp
  <2> HIDE DEF e
  <2>3. \A i \in DOMAIN queue' : EntryAddsUp(queue'[i])
    BY <1>0, <1>o, <2>1, <2>2, PushedQueue
  <2>4. /\ pc'[r] = "done"
        /\ \A u \in Requests : u # r =>
             pc'[u] = pc[u] /\ dest'[u] = dest[u] /\ left'[u] = left[u]
    BY <1>0, <1>3 DEF PushRest, End
  <2>5. (OwnAddsUp(r) /\ HeldAddsUp(r))'
    BY <2>4 DEF OwnAddsUp, HeldAddsUp, Holding, Running
  <2> QED BY <1>f, <2>1, <2>3, <2>4, <2>5
<1>4. CASE NotifyDest(r)
  <2> DEFINE d == dest[r].req
             n == StorageMatch(r)
  <2>1. /\ pc[r] = "notify_dest"
        /\ granted' = [q \in Requests |->
                         IF q \in {r, d} THEN granted[q] + n ELSE granted[q]]
        /\ UNCHANGED <<asked, left, dest, queue>>
    BY <1>4 DEF NotifyDest
  <2>2. /\ pc'[r] = "notify_req"
        /\ \A u \in Requests : u # r => pc'[u] = pc[u]
    BY <1>0, <1>4 DEF NotifyDest
  <2>3. /\ StorageMatch(r)' = n
        /\ n \in Nat /\ n <= left[r] /\ n <= dest[r].size
    BY <1>0, <2>1, StorageMatchBounds DEF StorageMatch, SizesInv
  <2>4. d \in Requests /\ d # r
    BY <1>0, <2>1 DEF SizesInv, SingleHolder, HeldBy, Holding
  <2>5. /\ granted[r] + left[r] = asked[r] /\ left[r] > 0
        /\ granted[d] + dest[r].size = asked[d] /\ dest[r].size > 0
    BY <1>0, <1>o, <2>1
    DEF OwnAddsUp, HeldAddsUp, Announced, Agreed, Holding, Running
  <2>6. /\ \A i \in DOMAIN queue : queue[i].req # r /\ queue[i].req # d
        /\ \A u \in Requests :
             u # r /\ pc[u] \in Holding => dest[u].req # r /\ dest[u].req # d
        /\ pc[d] = "done"
    BY <1>0, <2>1 DEF SizesInv, SingleHolder, HeldBy, Queued, Holding
  <2> HIDE DEF d, n
  <2>7. /\ granted'[r] = granted[r] + n /\ granted'[d] = granted[d] + n
        /\ \A q \in Requests : q # r /\ q # d => granted'[q] = granted[q]
    BY <1>0, <2>1, <2>4
  <2>8. ASSUME NEW u \in Requests PROVE granted'[u] <= asked'[u]
    <3>1. granted[r] + n <= asked[r] /\ granted[d] + n <= asked[d]
      <4>1. granted[r] \in Nat /\ left[r] \in Nat /\ asked[r] \in Nat
            /\ granted[d] \in Nat /\ dest[r].size \in Nat /\ asked[d] \in Nat
        BY <1>0, <2>4
      <4> QED BY <2>3, <2>5, <4>1
    <3> QED BY <1>o, <2>1, <2>7, <3>1
  <2>9. \A i \in DOMAIN queue' : EntryAddsUp(queue[i])'
    BY <1>0, <1>o, <2>1, <2>6, <2>7 DEF EntryAddsUp
  <2>10. ASSUME NEW u \in Requests PROVE (OwnAddsUp(u) /\ HeldAddsUp(u))'
    <3>1. CASE u = r
      <4>1. Announced(r)' = n
        BY <2>2, <2>3 DEF Announced, Agreed, Holding
      <4>2. OwnAddsUp(r)'
        <5>1. /\ granted[r] \in Nat /\ left[r] \in Nat /\ asked[r] \in Nat
              /\ left'[r] = left[r] /\ asked'[r] = asked[r]
          BY <1>0, <2>1
        <5>2. granted'[r] + left[r] = asked[r] + n
          BY <2>3, <2>5, <2>7, <5>1
        <5> QED BY <2>2, <2>5, <4>1, <5>1, <5>2 DEF OwnAddsUp
      <4>3. HeldAddsUp(r)'
        <5>1. /\ dest'[r].req = d /\ dest'[r].size = dest[r].size /\ asked' = asked
              /\ granted[d] \in Nat /\ dest[r].size \in Nat /\ asked[d] \in Nat
          BY <1>0, <2>1, <2>4 DEF d
        <5>2. granted'[d] + dest[r].size = asked[d] + n
          BY <2>3, <2>5, <2>7, <5>1
        <5> QED BY <2>5, <4>1, <5>1, <5>2 DEF HeldAddsUp
      <4> QED BY <3>1, <4>2, <4>3
    <3>2. CASE u = d
      BY <2>2, <2>4, <2>6, <3>2 DEF OwnAddsUp, HeldAddsUp, Running, Holding
    <3>3. CASE u # r /\ u # d
      BY <1>0, <1>o, <2>1, <2>2, <2>6, <2>7, <3>3, SizesFrame
    <3> QED BY <3>1, <3>2, <3>3
  <2> QED BY <2>8, <2>9, <2>10 DEF SizesAddUp
<1>5. CASE NotifyReq(r) \/ SaveReq(r) \/ SaveDest(r)
  <2>1. /\ pc[r] \in Agreed /\ pc'[r] \in Agreed
        /\ \A u \in Requests : u # r => pc'[u] = pc[u]
        /\ UNCHANGED <<asked, left, granted, dest, queue>>
    BY <1>0, <1>5 DEF NotifyReq, SaveReq, SaveDest, Agreed, Holding
  <2>2. Announced(r)' = Announced(r)
    BY <2>1 DEF Announced, StorageMatch
  <2>3. pc[r] \in Holding /\ pc[r] \in Running /\ pc'[r] # "new"
    BY <2>1 DEF Agreed, Running, Holding
  <2>4. (OwnAddsUp(r) /\ HeldAddsUp(r))'
    BY <1>o, <2>1, <2>2, <2>3 DEF OwnAddsUp, HeldAddsUp
  <2> QED BY <1>f, <1>o, <2>1, <2>4
<1>6. CASE NotifyDestFails(r)
  <2>1. /\ pc[r] = "notify_dest" /\ pc'[r] = "pop"
        /\ \A u \in Requests : u # r => pc'[u] = pc[u] /\ dest'[u] = dest[u]
        /\ UNCHANGED <<asked, left, granted, queue>>
    BY <1>0, <1>6 DEF NotifyDestFails
  <2>2. (OwnAddsUp(r) /\ HeldAddsUp(r))'
    BY <1>o, <2>1
    DEF OwnAddsUp, HeldAddsUp, Announced, Agreed, Holding, Running
  <2> QED BY <1>f, <1>o, <2>1, <2>2
<1>7. CASE NotifyReqFails(r) \/ SaveFails(r) \/ SettleEqual(r)
  <2>1. /\ pc'[r] \in {"failed", "done"}
        /\ \A u \in Requests :
             u # r => pc'[u] = pc[u] /\ dest'[u] = dest[u] /\ left'[u] = left[u]
        /\ UNCHANGED <<asked, granted, queue>>
    BY <1>0, <1>7 DEF NotifyReqFails, SaveFails, SettleEqual, End
  <2>2. (OwnAddsUp(r) /\ HeldAddsUp(r))'
    BY <2>1 DEF OwnAddsUp, HeldAddsUp, Holding, Running
  <2> QED BY <1>f, <1>o, <2>1, <2>2
<1>8. CASE SettleLess(r)
  <2> DEFINE d == dest[r].req
             e == [req |-> d, size |-> dest[r].size - StorageMatch(r)]
  <2>1. /\ queue' = Append(queue, e) /\ pc[r] = "settle" /\ left[r] < dest[r].size
        /\ UNCHANGED <<asked, granted>>
    BY <1>8 DEF SettleLess
  <2>2. StorageMatch(r) = left[r]
    BY <1>0, <2>1 DEF StorageMatch, Smaller
  <2>3. granted[d] + dest[r].size = asked[d] + StorageMatch(r)
    BY <1>o, <2>1 DEF HeldAddsUp, Announced, Agreed, Holding
  <2>4. /\ e.size = dest[r].size - left[r] /\ e.req = d /\ d \in Requests
        /\ dest[r].size \in Nat /\ left[r] \in Nat
        /\ granted[d] \in Nat /\ asked[d] \in Nat
    BY <1>0, <2>2
  <2>5. e \in Entry /\ EntryAddsUp(e)
    <3> HIDE DEF d
    <3>1. /\ dest[r].size - left[r] \in Nat /\ dest[r].size - left[r] > 0
          /\ granted[d] + (dest[r].size - left[r]) = asked[d]
      <4> DEFINE x == dest[r].size
                 y == left[r]
      <4>1. x \in Nat /\ y \in Nat /\ y < x
        BY <2>1, <2>4
      <4>2. granted[d] \in Nat /\ asked[d] \in Nat /\ granted[d] + x = asked[d] + y
        BY <2>2, <2>3, <2>4
      <4> HIDE DEF x, y
      <4>3. x - y \in Nat /\ x - y > 0 /\ granted[d] + (x - y) = asked[d]
        BY <4>1, <4>2
      <4> QED BY <4>3 DEF x, y
    <3>2. e \in Entry
      BY <2>2, <2>4, <3>1 DEF Entry
    <3> HIDE DEF e
    <3> QED BY <2>4, <3>1, <3>2 DEF EntryAddsUp
  <2> HIDE DEF e, d
  <2>6. \A i \in DOMAIN queue' : EntryAddsUp(queue'[i])
    BY <1>0, <1>o, <2>1, <2>5, PushedQueue
  <2>7. /\ pc'[r] = "done"
        /\ \A u \in Requests : u # r =>
             pc'[u] = pc[u] /\ dest'[u] = dest[u] /\ left'[u] = left[u]
    BY <1>0, <1>8 DEF SettleLess, End
  <2>8. (OwnAddsUp(r) /\ HeldAddsUp(r))'
    BY <2>7 DEF OwnAddsUp, HeldAddsUp, Holding, Running
  <2> QED BY <1>f, <2>1, <2>6, <2>7, <2>8
<1>9. CASE SettleGreater(r)
  <2>1. /\ pc[r] = "settle" /\ pc'[r] = "pop" /\ left[r] > dest[r].size
        /\ left'[r] = left[r] - dest[r].size
        /\ \A u \in Requests :
             u # r => pc'[u] = pc[u] /\ dest'[u] = dest[u] /\ left'[u] = left[u]
        /\ UNCHANGED <<asked, granted, queue>>
    BY <1>0, <1>9 DEF SettleGreater
  <2>2. StorageMatch(r) = dest[r].size
    BY <1>0, <2>1 DEF StorageMatch, Smaller
  <2>3. granted[r] + left[r] = asked[r] + dest[r].size
    BY <1>o, <2>1, <2>2 DEF OwnAddsUp, Announced, Agreed, Holding, Running
  <2>4. left'[r] > 0 /\ granted[r] + left'[r] = asked[r]
    <3>1. dest[r].size \in Nat /\ left[r] \in Nat /\ granted[r] \in Nat /\ asked[r] \in Nat
      BY <1>0
    <3> QED BY <2>1, <2>3, <3>1
  <2>5. Announced(r)' = 0 /\ pc'[r] \notin Holding
    BY <2>1 DEF Announced, Agreed, Holding
  <2>6. (OwnAddsUp(r) /\ HeldAddsUp(r))'
    BY <1>0, <2>1, <2>4, <2>5 DEF OwnAddsUp, HeldAddsUp
  <2> QED BY <1>f, <1>o, <2>1, <2>6
<1> QED BY <1>1, <1>2, <1>3, <1>4, <1>5, <1>6, <1>7, <1>8, <1>9 DEF Handle

\* The other steps only start a request or forget remainders.
LEMMA StepSizes == SizesInv /\ [Next]_vars => SizesInv'
<1> SUFFICES ASSUME SizesInv, [Next]_vars PROVE SizesAddUp'
  BY StepTypeOK, StepSingleHolder DEF SizesInv
<1>0. /\ pc \in [Requests -> Labels] /\ queue \in Seq(Entry)
      /\ left \in [Requests -> Nat] /\ asked \in [Requests -> Nat]
      /\ granted \in [Requests -> Nat]
  BY DEF SizesInv, TypeOK
<1>o. /\ \A u \in Requests : granted[u] <= asked[u] /\ OwnAddsUp(u) /\ HeldAddsUp(u)
      /\ \A i \in DOMAIN queue : EntryAddsUp(queue[i])
  BY DEF SizesInv, SizesAddUp
<1>1. ASSUME NEW r \in Requests, Submit(r) PROVE SizesAddUp'
  <2>1. /\ UNCHANGED <<asked, granted, queue, dest>> /\ pc[r] = "new"
        /\ \A u \in Requests : u # r => pc'[u] = pc[u] /\ left'[u] = left[u]
    BY <1>0, <1>1 DEF Submit, Goto
  <2>2. \/ pc'[r] \in {"done", "refused"}
        \/ pc'[r] = "pop" /\ left'[r] = asked[r] /\ left'[r] > 0
    BY <1>0, <1>1 DEF Submit, Goto
  <2>3. (OwnAddsUp(r) /\ HeldAddsUp(r))'
    <3>1. pc'[r] # "new" /\ pc'[r] \notin Holding
      BY <2>2 DEF Holding
    <3>2. pc'[r] = "pop" => granted[r] + left'[r] = asked[r] /\ Announced(r)' = 0
      BY <1>0, <1>o, <2>1, <2>2 DEF OwnAddsUp, Announced, Agreed, Holding
    <3> QED BY <1>0, <2>1, <2>2, <3>1, <3>2 DEF OwnAddsUp, HeldAddsUp, Running, Holding
  <2>4. ASSUME NEW u \in Requests, u # r PROVE (OwnAddsUp(u) /\ HeldAddsUp(u))'
    BY <1>o, <2>1, <2>4, SizesFrame
  <2>5. \A i \in DOMAIN queue' : EntryAddsUp(queue[i])'
    BY <1>o, <2>1 DEF EntryAddsUp
  <2> QED BY <1>o, <2>1, <2>3, <2>4, <2>5 DEF SizesAddUp
<1>2. ASSUME NEW r \in Requests, Handle(r) PROVE SizesAddUp'
  BY <1>2, HandleSizes
<1>3. CASE UNCHANGED <<client, asked, pc, left, dest, queue, rows, told, granted>>
  <2>1. \A u \in Requests : (OwnAddsUp(u) /\ HeldAddsUp(u))'
    BY <1>o, <1>3, SizesFrame
  <2>2. \A i \in DOMAIN queue' : EntryAddsUp(queue[i])'
    BY <1>o, <1>3 DEF EntryAddsUp
  <2> QED BY <1>o, <1>3, <2>1, <2>2 DEF SizesAddUp
<1>4. CASE Expire
  <2>1. \A u \in Requests : (OwnAddsUp(u) /\ HeldAddsUp(u))'
    BY <1>o, <1>4, SizesFrame DEF Expire
  <2>2. \A i \in DOMAIN queue' : EntryAddsUp(queue[i])'
    BY <1>0, <1>o, <1>4, PoppedQueue DEF Expire, EntryAddsUp
  <2> QED BY <1>o, <1>4, <2>1, <2>2 DEF Expire, SizesAddUp
<1>5. CASE Crash
  <2>1. /\ queue' = <<>> /\ UNCHANGED <<asked, granted>>
        /\ \A u \in Requests : /\ pc'[u] \notin Running
                               /\ pc'[u] = "new" => pc[u] = "new"
    BY <1>0, <1>5 DEF Crash, InFlight, Running, Holding
  <2>2. \A u \in Requests : (OwnAddsUp(u) /\ HeldAddsUp(u))'
    BY <1>o, <2>1 DEF OwnAddsUp, HeldAddsUp, Running
  <2> QED BY <1>o, <2>1, <2>2 DEF SizesAddUp
<1> QED BY <1>1, <1>2, <1>3, <1>4, <1>5 DEF Next, vars, Connect, Disconnect

\* No request is given more than it asked for, and nothing of it is counted
\* twice or invented on its way through queue and handlers.
THEOREM SizesAddUpAlways == Spec => []SizesAddUp
<1>1. Init => SizesInv
  BY InitTypeOK, InitSingleHolder, InitSizes DEF SizesInv
<1>2. SizesInv => SizesAddUp
  BY DEF SizesInv
<1> QED BY <1>1, StepSizes, <1>2, PTL DEF Spec

-----------------------------------------------------------------------------
(* The ledger is backed by the messages.                                   *)

\* What a handler has done about the match it is working on.
MatchProgress(r) ==
  LET d == dest[r].req
      n == StorageMatch(r)
  IN pc[r] \in Holding =>
       /\ client[d] # client[r]
       /\ pc[r] \in Agreed => Matched(d, r, n) \in told
       /\ pc[r] \in {"save_req", "save_dest", "settle"} => Matched(r, d, n) \in told
       /\ pc[r] = "save_dest" => Row(r, d, n) \in rows

\* A one-sided row is the one its handler is about to mirror, or was.
Explained(w) ==
  \/ Row(w.destination, w.source, w.size) \in rows
  \/ pc[w.source] = "failed"
  \/ /\ pc[w.source] = "save_dest"
     /\ w = Row(w.source, dest[w.source].req, StorageMatch(w.source))

LedgerInv ==
  /\ SizesInv
  /\ \A r \in Requests : MatchProgress(r)
  /\ RowsWereAnnounced
  /\ \A w \in rows : Explained(w)

\* What a step leaves alone: a handler that stands still keeps its progress,
\* as messages and rows are never taken back.
LEMMA ProgressFrame ==
  ASSUME NEW u \in Requests, MatchProgress(u),
         pc'[u] = pc[u], left'[u] = left[u], dest'[u] = dest[u],
         client' = client, told \subseteq told', rows \subseteq rows'
  PROVE  MatchProgress(u)'
BY DEF MatchProgress, StorageMatch, Matched, Row

LEMMA ExplainedFrame ==
  ASSUME NEW w, Explained(w), rows \subseteq rows',
         \/ pc[w.source] # "save_dest" /\ (pc[w.source] = "failed" => pc'[w.source] = "failed")
         \/ /\ pc'[w.source] = pc[w.source] /\ left'[w.source] = left[w.source]
            /\ dest'[w.source] = dest[w.source]
         \/ pc'[w.source] = "failed"
  PROVE  Explained(w)'
BY DEF Explained, StorageMatch, Row

\* A handler announces a match to both clients, then saves it for both.
LEMMA HandleLedger ==
  ASSUME LedgerInv, NEW r \in Requests, Handle(r)
  PROVE  /\ \A u \in Requests : MatchProgress(u)'
         /\ RowsWereAnnounced'
         /\ \A w \in rows' : Explained(w)'
<1> USE DEF Goto
<1>0. /\ pc \in [Requests -> Labels] /\ dest \in [Requests -> Entry]
      /\ queue \in Seq(Entry) /\ left \in [Requests -> Nat]
      /\ \A u \in Requests : dest[u].req \in Requests /\ dest[u].size \in Nat
      /\ rows \subseteq [source : Requests, destination : Requests, size : Nat]
  BY DEF LedgerInv, SizesInv, TypeOK, Entry
<1>o. /\ \A u \in Requests : MatchProgress(u)
      /\ \A w \in rows : Explained(w)
      /\ RowsWereAnnounced
  BY DEF LedgerInv
<1>s. \A w \in rows : w.source \in Requests
  BY <1>0
\* Steps that neither announce nor save anything.
<1>f. ASSUME UNCHANGED <<client, rows, told>>,
             \A u \in Requests : u # r =>
               pc'[u] = pc[u] /\ dest'[u] = dest[u] /\ left'[u] = left[u],
             MatchProgress(r)',
             pc[r] # "failed",
             pc[r] # "save_dest" \/ pc'[r] = "failed"
      PROVE  /\ \A u \in Requests : MatchProgress(u)'
             /\ RowsWereAnnounced'
             /\ \A w \in rows' : Explained(w)'
  <2>1. \A u \in Requests : MatchProgress(u)'
    BY <1>o, <1>f, ProgressFrame
  <2>2. RowsWereAnnounced'
    BY <1>o, <1>f DEF RowsWereAnnounced, Matched
  <2>3. ASSUME NEW w \in rows PROVE Explained(w)'
    BY <1>o, <1>f, <1>s, <2>3, ExplainedFrame
  <2> QED BY <1>f, <2>1, <2>2, <2>3
<1>1. CASE PopEntry(r)
  <2>1. /\ queue # <<>> /\ pc[r] = "pop"
        /\ left' = left /\ UNCHANGED <<client, rows, told>>
    BY <1>1 DEF PopEntry
  <2>2. CASE UNCHANGED <<pc, dest>>
    <3>1. MatchProgress(r)'
      BY <1>o, <2>1, <2>2, ProgressFrame
    <3> QED BY <1>f, <2>1, <2>2, <3>1
  <2>3. CASE /\ client[queue[1].req] # client[r]
             /\ pc' = [pc EXCEPT ![r] = "notify_dest"]
             /\ dest' = [dest EXCEPT ![r] = queue[1]]
    <3>1. /\ pc'[r] = "notify_dest" /\ dest'[r] = queue[1]
          /\ \A u \in Requests : u # r => pc'[u] = pc[u] /\ dest'[u] = dest[u]
      BY <1>0, <2>3
    <3>2. MatchProgress(r)'
      BY <2>1, <2>3, <3>1 DEF MatchProgress, Agreed
    <3> QED BY <1>f, <2>1, <3>1, <3>2
  <2> QED BY <1>0, <1>1, <2>2, <2>3, PoppedQueue DEF PopEntry
<1>2. CASE PopEmpty(r) \/ PushRest(r) \/ NotifyDestFails(r) \/ NotifyReqFails(r)
           \/ SaveFails(r) \/ SettleLess(r) \/ SettleGreater(r) \/ SettleEqual(r)
  <2>1. /\ pc'[r] \in {"push_rest", "pop", "failed", "done"}
        /\ pc[r] # "failed"
        /\ pc[r] # "save_dest" \/ pc'[r] = "failed"
        /\ \A u \in Requests : u # r =>
             pc'[u] = pc[u] /\ dest'[u] = dest[u] /\ left'[u] = left[u]
        /\ UNCHANGED <<client, rows, told>>
    BY <1>0, <1>2
    DEF PopEmpty, PushRest, NotifyDestFails, NotifyReqFails, SaveFails,
        SettleLess, SettleGreater, SettleEqual, End
  <2>2. MatchProgress(r)'
    BY <2>1 DEF MatchProgress, Holding
  <2> QED BY <1>f, <2>1, <2>2
<1>3. CASE NotifyDest(r) \/ NotifyReq(r)
  <2>1. /\ pc[r] \in {"notify_dest", "notify_req"}
        /\ \A u \in Requests : u # r => pc'[u] = pc[u]
        /\ told \subseteq told'
        /\ UNCHANGED <<client, rows, left, dest>>
    BY <1>0, <1>3 DEF NotifyDest, NotifyReq
  <2>2. StorageMatch(r)' = StorageMatch(r)
    BY <2>1 DEF StorageMatch
  <2>3. \/ /\ pc[r] = "notify_dest" /\ pc'[r] = "notify_req"
           /\ Matched(dest[r].req, r, StorageMatch(r)) \in told'
        \/ /\ pc[r] = "notify_req" /\ pc'[r] = "save_req"
           /\ Matched(r, dest[r].req, StorageMatch(r)) \in told'
    BY <1>0, <1>3 DEF NotifyDest, NotifyReq
  <2>4. MatchProgress(r)'
    BY <1>o, <2>1, <2>2, <2>3 DEF MatchProgress, Agreed, Holding, Matched, Row
  <2>5. \A u \in Requests : MatchProgress(u)'
    BY <1>o, <2>1, <2>4, ProgressFrame
  <2>6. RowsWereAnnounced'
    BY <1>o, <2>1 DEF RowsWereAnnounced, Matched
  <2>7. ASSUME NEW w \in rows PROVE Explained(w)'
    BY <1>o, <1>s, <2>1, <2>7, ExplainedFrame
  <2> QED BY <2>1, <2>5, <2>6, <2>7
<1>4. CASE SaveReq(r) \/ SaveDest(r)
  <2> DEFINE d == dest[r].req
             n == StorageMatch(r)
  <2>1. /\ pc[r] \in {"save_req", "save_dest"}
        /\ \A u \in Requests : u # r => pc'[u] = pc[u]
        /\ UNCHANGED <<client, told, left, dest>>
    BY <1>0, <1>4 DEF SaveReq, SaveDest
  <2>2. StorageMatch(r)' = n
    BY <2>1 DEF StorageMatch
  <2>3. \/ /\ pc[r] = "save_req" /\ pc'[r] = "save_dest"
           /\ rows' = rows \cup {Row(r, d, n)}
        \/ /\ pc[r] = "save_dest" /\ pc'[r] = "settle"
           /\ rows' = rows \cup {Row(d, r, n)}
    BY <1>0, <1>4 DEF SaveReq, SaveDest
  <2>4. /\ Matched(d, r, n) \in told /\ Matched(r, d, n) \in told
        /\ client[d] # client[r]
        /\ pc[r] = "save_dest" => Row(r, d, n) \in rows
    BY <1>o, <2>1 DEF MatchProgress, Agreed, Holding
  <2>5. n > 0
    <3>1. left[r] > 0 /\ dest[r].size > 0
      BY <2>1 DEF LedgerInv, SizesInv, SizesAddUp, OwnAddsUp, HeldAddsUp,
                  Running, Holding
    <3> QED BY <1>0, <3>1 DEF StorageMatch, Smaller
  <2>6. MatchProgress(r)'
    BY <2>1, <2>2, <2>3, <2>4 DEF MatchProgress, Agreed, Holding, Matched, Row
  <2>7. \A u \in Requests : MatchProgress(u)'
    BY <1>o, <2>1, <2>3, <2>6, ProgressFrame
  <2>8. d \in Requests
    BY <1>0
  <2> HIDE DEF d, n
  <2>9. RowsWereAnnounced'
    <3>1. ASSUME NEW w \in rows', w \notin rows
          PROVE  /\ w.size > 0
                 /\ Matched(w.source, w.destination, w.size) \in told
                 /\ Matched(w.destination, w.source, w.size) \in told
                 /\ client[w.source] # client[w.destination]
      BY <2>3, <2>4, <2>5, <3>1 DEF Row
    <3> QED BY <1>o, <2>1, <3>1 DEF RowsWereAnnounced, Matched
  <2>10. ASSUME NEW w \in rows' PROVE Explained(w)'
    <3>1. CASE pc[r] = "save_req" /\ w \in rows
      BY <1>o, <1>s, <2>1, <2>3, <3>1, ExplainedFrame
    <3>2. CASE pc[r] = "save_req" /\ w = Row(r, d, n)
      <4>1. /\ w.source = r /\ dest'[r].req = d /\ pc'[r] = "save_dest"
            /\ w = Row(w.source, d, StorageMatch(r)')
        BY <2>1, <2>2, <2>3, <3>2 DEF Row, d
      <4> QED BY <2>2, <4>1, <3>2 DEF Explained, Row
    <3>3. CASE pc[r] = "save_dest" /\ w = Row(d, r, n)
      <4>1. Row(w.destination, w.source, w.size) \in rows
        BY <2>4, <3>3 DEF Row
      <4> QED BY <2>3, <4>1 DEF Explained, Row
    <3>4. CASE pc[r] = "save_dest" /\ w \in rows
      <4>1. CASE w.source # r
        BY <1>o, <1>s, <2>1, <2>3, <3>4, <4>1, ExplainedFrame
      <4>2. CASE w.source = r /\ w = Row(r, d, n)
        <5>1. Row(w.destination, w.source, w.size) \in rows'
          BY <2>3, <3>4, <4>2 DEF Row
        <5> QED BY <5>1 DEF Explained, Row
      <4>3. CASE w.source = r /\ w # Row(r, d, n)
        <5>1. Row(w.destination, w.source, w.size) \in rows
          BY <1>o, <3>4, <4>3 DEF Explained, d, n
        <5> QED BY <2>3, <5>1 DEF Explained, Row
      <4> QED BY <4>1, <4>2, <4>3
    <3> QED BY <2>1, <2>3, <3>1, <3>2, <3>3, <3>4
  <2> QED BY <2>7, <2>9, <2>10
<1> QED BY <1>1, <1>2, <1>3, <1>4 DEF Handle

\* No other step announces, saves or settles anything.
LEMMA StepLedger == LedgerInv /\ [Next]_vars => LedgerInv'
<1> SUFFICES ASSUME LedgerInv, [Next]_vars
             PROVE  /\ \A u \in Requests : MatchProgress(u)'
                    /\ RowsWereAnnounced'
                    /\ \A w \in rows' : Explained(w)'
  BY StepSizes DEF LedgerInv
<1>0. /\ pc \in [Requests -> Labels] /\ left \in [Requests -> Nat]
      /\ \A w \in rows : w.source \in Requests
      /\ \A u \in Requests : MatchProgress(u)
      /\ \A w \in rows : Explained(w)
      /\ RowsWereAnnounced
  BY DEF LedgerInv, SizesInv, TypeOK
<1>1. ASSUME NEW r \in Requests, Handle(r)
      PROVE  /\ \A u \in Requests : MatchProgress(u)'
             /\ RowsWereAnnounced'
             /\ \A w \in rows' : Explained(w)'
  BY <1>1, HandleLedger
<1>2. ASSUME NEW r \in Requests, Submit(r)
      PROVE  /\ \A u \in Requests : MatchProgress(u)'
             /\ RowsWereAnnounced'
             /\ \A w \in rows' : Explained(w)'
  <2>1. /\ UNCHANGED <<client, rows, told, dest>> /\ pc[r] = "new"
        /\ pc'[r] \notin Holding
        /\ \A u \in Requests : u # r => pc'[u] = pc[u] /\ left'[u] = left[u]
    BY <1>0, <1>2 DEF Submit, Goto, Holding
  <2>2. MatchProgress(r)'
    BY <2>1 DEF MatchProgress
  <2>3. \A u \in Requests : MatchProgress(u)'
    BY <1>0, <2>1, <2>2, ProgressFrame
  <2>4. \A w \in rows : Explained(w)'
    BY <1>0, <2>1, ExplainedFrame
  <2> QED BY <1>0, <2>1, <2>3, <2>4 DEF RowsWereAnnounced, Matched
<1>3. CASE UNCHANGED <<client, asked, pc, left, dest, rows, told, granted>>
  <2>1. \A u \in Requests : MatchProgress(u)'
    BY <1>0, <1>3, ProgressFrame
  <2>2. \A w \in rows : Explained(w)'
    BY <1>0, <1>3, ExplainedFrame
  <2> QED BY <1>0, <1>3, <2>1, <2>2 DEF RowsWereAnnounced, Matched
<1>4. CASE Crash
  <2>1. /\ UNCHANGED <<client, rows, told>>
        /\ \A u \in Requests :
             /\ pc'[u] \notin Holding
             /\ pc[u] = "save_dest" => pc'[u] = "failed"
             /\ pc[u] = "failed" => pc'[u] = "failed"
    BY <1>0, <1>4 DEF Crash, InFlight, Running, Holding
  <2>2. \A u \in Requests : MatchProgress(u)'
    BY <2>1 DEF MatchProgress
  <2>3. \A w \in rows : Explained(w)'
    BY <1>0, <2>1, ExplainedFrame
  <2> QED BY <1>0, <2>1, <2>2, <2>3 DEF RowsWereAnnounced, Matched
<1> QED BY <1>1, <1>2, <1>3, <1>4 DEF Next, vars, Connect, Disconnect, Expire

\* LedgerInv holds in every reachable state.
LEMMA LedgerInvariant == Spec => []LedgerInv
<1>1. Init => LedgerInv
  <2> SUFFICES ASSUME Init PROVE LedgerInv
    OBVIOUS
  <2>1. SizesInv
    BY InitTypeOK, InitSingleHolder, InitSizes DEF SizesInv
  <2>2. /\ rows = {} /\ \A u \in Requests : pc[u] = "new"
    BY DEF Init
  <2> QED BY <2>1, <2>2 DEF LedgerInv, MatchProgress, RowsWereAnnounced, Holding
<1> QED BY <1>1, StepLedger, PTL DEF Spec

\* No row without both clients having been told of it before.
THEOREM RowsAnnouncedAlways == Spec => []RowsWereAnnounced
<1>1. LedgerInv => RowsWereAnnounced
  BY DEF LedgerInv
<1> QED BY <1>1, LedgerInvariant, PTL

\* A one-sided row is always the work of one handler at a known place.
THEOREM OneSidedRowsAlways == Spec => []OneSidedRowsExplained
<1>1. LedgerInv => OneSidedRowsExplained
  BY DEF LedgerInv, Explained, OneSidedRowsExplained
<1> QED BY <1>1, LedgerInvariant, PTL

-----------------------------------------------------------------------------
(* The handlers implement the ledger.                                      *)

\* Some of r may still be matched: its handler runs, it is queued, or a handler
\* has popped it.
Circulates(r) == pc[r] \in Running \/ Queued(r) \/ \E u \in Requests : HeldBy(r, u)

\* Wherever a request circulates, what remains of it is what has not been granted.
LEMMA RemainingIsUngranted ==
  ASSUME SizesInv, NEW r \in Requests
  PROVE  Remaining(r) = IF Circulates(r) THEN asked[r] - granted[r] ELSE 0
<1>0. /\ left[r] \in Nat /\ asked[r] \in Nat /\ granted[r] \in Nat
      /\ \A i \in DOMAIN queue : queue[i].size \in Nat /\ EntryAddsUp(queue[i])
      /\ \A u \in Requests : /\ dest[u].size \in Nat /\ StorageMatch(u) \in Nat
                             /\ OwnAddsUp(u) /\ HeldAddsUp(u)
  BY QueueEntries, StorageMatchBounds DEF SizesInv, TypeOK, Entry, SizesAddUp
<1>1. \A u \in Requests : Announced(u) \in Nat
  BY <1>0 DEF Announced
<1>2. CASE pc[r] \in Running
  <2>1. left[r] - Announced(r) = asked[r] - granted[r]
    BY <1>0, <1>1, <1>2 DEF OwnAddsUp
  <2> QED BY <1>2, <2>1 DEF Remaining, Circulates
<1>3. CASE pc[r] \notin Running /\ Queued(r)
  <2>1. PICK i \in DOMAIN queue : i = CHOOSE j \in DOMAIN queue : queue[j].req = r
    BY <1>3 DEF Queued
  <2>2. queue[i].req = r
    BY <1>3, <2>1 DEF Queued
  <2>3. queue[i].size = asked[r] - granted[r]
    BY <1>0, <2>2 DEF EntryAddsUp
  <2> QED BY <1>3, <2>1, <2>3 DEF Remaining, Circulates
<1>4. CASE pc[r] \notin Running /\ ~Queued(r) /\ \E u \in Requests : HeldBy(r, u)
  <2>1. PICK u \in Requests : u = CHOOSE v \in Requests : HeldBy(r, v)
    BY <1>4
  <2>2. HeldBy(r, u)
    BY <1>4, <2>1
  <2>3. dest[u].size - Announced(u) = asked[r] - granted[r]
    BY <1>0, <1>1, <2>2 DEF HeldBy, HeldAddsUp
  <2>4. Remaining(r) = dest[u].size - Announced(u)
    BY <1>4, <2>1 DEF Remaining
  <2> QED BY <1>4, <2>3, <2>4 DEF Circulates
<1>5. CASE ~Circulates(r)
  BY <1>5 DEF Remaining, Circulates
<1> QED BY <1>2, <1>3, <1>4, <1>5 DEF Circulates

RemainingUngranted ==
  \A r \in Requests : Remaining(r) = IF Circulates(r) THEN asked[r] - granted[r] ELSE 0

LEMMA RemainingNow == SizesInv => RemainingUngranted
BY RemainingIsUngranted DEF RemainingUngranted

\* So it is before and after a step.
LEMMA RemainingAround ==
  SizesInv /\ SizesInv' => RemainingUngranted /\ RemainingUngranted'
BY RemainingNow, PTL

\* A request that has not arrived does not circulate.
LEMMA NewIsNowhere ==
  ASSUME SizesInv, NEW r \in Requests, pc[r] = "new"
  PROVE  ~Circulates(r) /\ granted[r] = 0
<1>1. ~Queued(r) /\ \A u \in Requests : ~HeldBy(r, u)
  BY DEF SizesInv, SingleHolder
<1> QED BY <1>1 DEF Circulates, Running, Holding, SizesInv, SizesAddUp, OwnAddsUp

LEMMA InitLedger == Init => Ledger!Init
<1> SUFFICES ASSUME Init PROVE Ledger!Init
  OBVIOUS
<1>1. \A r \in Requests : pc[r] = "new" /\ ~Queued(r)
  BY DEF Init, Queued
<1>2. \A r \in Requests : Remaining(r) = 0
  BY <1>1 DEF Remaining, Running, Holding, HeldBy
<1> QED BY <1>1, <1>2 DEF Init, Ledger!Init

\* A step that grants nothing and brings nothing back into circulation forgets
\* the remainders of the requests that do not circulate any more.
LEMMA ForgettingStep ==
  ASSUME SizesInv, SizesInv', UNCHANGED <<client, asked, granted>>,
         \A r \in Requests : pc'[r] = "new" <=> pc[r] = "new",
         \A r \in Requests : Circulates(r)' => Circulates(r)
  PROVE  Ledger!Forget
<1> DEFINE R == {r \in Requests : pc[r] # "new" /\ ~Circulates(r)'}
<1>1. ASSUME NEW r \in Requests
      PROVE  Remaining(r)' = IF r \in R THEN 0 ELSE Remaining(r)
  <2>1. Remaining(r)' = IF Circulates(r)' THEN asked[r] - granted[r] ELSE 0
    BY RemainingAround DEF RemainingUngranted
  <2>2. Remaining(r) = IF Circulates(r) THEN asked[r] - granted[r] ELSE 0
    BY RemainingAround DEF RemainingUngranted
  <2>3. pc[r] = "new" => ~Circulates(r)
    BY NewIsNowhere
  <2> QED BY <2>1, <2>2, <2>3
<1>2. {r \in Requests : pc[r] # "new"}' = {r \in Requests : pc[r] # "new"}
  OBVIOUS
<1>3. R \in SUBSET {r \in Requests : pc[r] # "new"}
  OBVIOUS
<1> HIDE DEF R
<1> QED BY <1>1, <1>2, <1>3 DEF Ledger!Forget

\* The arrival of a request opens it.
LEMMA OpeningStep ==
  ASSUME SizesInv, SizesInv', NEW r \in Requests, Submit(r)
  PROVE  Ledger!Open(r)
<1>0. pc \in [Requests -> Labels] /\ asked[r] \in Nat
  BY DEF SizesInv, TypeOK
<1>1. /\ pc[r] = "new" /\ pc'[r] # "new"
      /\ pc'[r] \in Running <=> asked[r] > 0 /\ asked[r] <= MaxRequestSize
      /\ asked[r] = 0 \/ asked[r] > MaxRequestSize \/ pc'[r] = "pop"
      /\ \A u \in Requests \ {r} : pc'[u] = pc[u]
      /\ pc'[r] \notin Holding
      /\ UNCHANGED <<client, asked, granted, queue, dest>>
  BY <1>0, SizesAssumption DEF Submit, Goto, Running, Holding
<1>2. \A q \in Requests : (Queued(q))' = Queued(q)
  BY <1>1 DEF Queued
<1>3. \A q, u \in Requests : HeldBy(q, u)' = HeldBy(q, u)
  BY <1>1 DEF HeldBy, Holding
<1>4. ~Circulates(r) /\ granted[r] = 0
  BY <1>1, NewIsNowhere
<1>5. Circulates(r)' <=> asked[r] > 0 /\ asked[r] <= MaxRequestSize
  BY <1>1, <1>2, <1>3, <1>4 DEF Circulates
<1>6. Remaining(r)' = IF asked[r] <= MaxRequestSize THEN asked[r] ELSE 0
  <2>1. Remaining(r)' = IF Circulates(r)' THEN asked[r] - granted[r] ELSE 0
    BY <1>1, RemainingAround DEF RemainingUngranted
  <2> QED BY <1>0, <1>4, <1>5, <2>1, SizesAssumption
<1>7. ASSUME NEW q \in Requests \ {r} PROVE Remaining(q)' = Remaining(q)
  <2>1. Circulates(q)' <=> Circulates(q)
    BY <1>1, <1>2, <1>3 DEF Circulates
  <2> QED BY <1>1, <2>1, RemainingAround DEF RemainingUngranted
<1>8. {q \in Requests : pc[q] # "new"}' = {q \in Requests : pc[q] # "new"} \cup {r}
  BY <1>1
<1> QED BY <1>1, <1>6, <1>7, <1>8 DEF Ledger!Open

\* Both requests of a match are told of it and granted it at the same time.
LEMMA MatchingStep ==
  ASSUME LedgerInv, SizesInv', NEW r \in Requests, NotifyDest(r)
  PROVE  Ledger!Match(r, dest[r].req)
<1> DEFINE n == StorageMatch(r)
<1>1. PICK d \in Requests : d = dest[r].req
  BY DEF LedgerInv, SizesInv, TypeOK, Entry
<1>2. /\ pc \in [Requests -> Labels] /\ left[r] \in Nat /\ dest[r].size \in Nat
      /\ asked \in [Requests -> Nat] /\ granted \in [Requests -> Nat]
  BY DEF LedgerInv, SizesInv, TypeOK, Entry
<1>3. /\ pc[r] = "notify_dest" /\ pc'[r] = "notify_req"
      /\ \A u \in Requests \ {r} : pc'[u] = pc[u]
      /\ UNCHANGED <<client, asked, queue, dest>>
  BY <1>2 DEF NotifyDest, Goto
<1>4. r # d /\ client[r] # client[d]
  BY <1>1, <1>3 DEF LedgerInv, MatchProgress, Holding
<1>5. granted' = [q \in Requests |-> IF q \in {r, d} THEN granted[q] + n ELSE granted[q]]
  BY <1>1 DEF NotifyDest
<1>6. \A q, u \in Requests : /\ Queued(q)' <=> Queued(q)
                             /\ HeldBy(q, u)' <=> HeldBy(q, u)
                             /\ pc'[q] \in Running <=> pc[q] \in Running
  BY <1>3 DEF Queued, HeldBy, Holding, Running
<1>7. \A q \in Requests : Circulates(q)' <=> Circulates(q)
  BY <1>6 DEF Circulates
<1>8. HeldBy(d, r) /\ Circulates(r) /\ Circulates(d)
  BY <1>1, <1>3 DEF HeldBy, Holding, Running, Circulates
<1>9. /\ Remaining(r) = left[r] /\ Remaining(d) = dest[r].size
      /\ left[r] > 0 /\ dest[r].size > 0
  <2>1. Announced(r) = 0 /\ left[r] > 0 /\ granted[r] + left[r] = asked[r]
    BY <1>3, OwnUnannounced, <1>2 DEF LedgerInv, SizesInv, SizesAddUp
  <2>2. dest[r].size > 0 /\ granted[d] + dest[r].size = asked[d]
    BY <1>1, <1>2, <1>3, <2>1 DEF LedgerInv, SizesInv, SizesAddUp, HeldAddsUp, Holding
  <2> QED BY <1>2, <1>8, <2>1, <2>2, RemainingIsUngranted DEF LedgerInv
<1>10. /\ n = Ledger!Smaller(Remaining(r), Remaining(d))
       /\ n \in Nat /\ n > 0
  BY <1>2, <1>9 DEF StorageMatch, Smaller, Ledger!Smaller
<1> HIDE DEF n
<1>11. ASSUME NEW q \in Requests
       PROVE  Remaining(q)' = IF q \in {r, d} THEN Remaining(q) - n ELSE Remaining(q)
  <2>1. /\ Remaining(q)' = IF Circulates(q)' THEN asked[q] - granted'[q] ELSE 0
        /\ Remaining(q) = IF Circulates(q) THEN asked[q] - granted[q] ELSE 0
    BY <1>3, RemainingAround DEF LedgerInv, RemainingUngranted
  <2> QED BY <1>2, <1>5, <1>7, <1>8, <1>10, <2>1
<1>12. {q \in Requests : pc[q] # "new"}' = {q \in Requests : pc[q] # "new"}
  BY <1>3
<1> QED BY <1>1, <1>3, <1>4, <1>5, <1>10, <1>11, <1>12 DEF Ledger!Match

\* Every other statement of a handler passes a request on, or drops it.
LEMMA PassingStep ==
  ASSUME SizesInv, NEW r \in Requests, Handle(r), ~NotifyDest(r)
  PROVE  /\ UNCHANGED <<client, asked, granted>>
         /\ \A q \in Requests : pc'[q] = "new" <=> pc[q] = "new"
         /\ \A q \in Requests : Circulates(q)' => Circulates(q)
<1>0. /\ pc \in [Requests -> Labels] /\ dest \in [Requests -> Entry] /\ queue \in Seq(Entry)
      /\ left[r] \in Nat /\ dest[r].req \in Requests
      /\ \A i \in DOMAIN queue : queue[i].req \in Requests
  BY QueueEntries DEF SizesInv, TypeOK, Entry
<1>1. pc[r] \in Running
  BY DEF Handle, PopEntry, PopEmpty, PushRest, NotifyDest, NotifyDestFails, NotifyReq,
         NotifyReqFails, SaveReq, SaveDest, SaveFails, SettleLess, SettleGreater, SettleEqual,
         Running, Holding
<1>2. /\ UNCHANGED <<client, asked, granted>>
      /\ pc'[r] # "new"
      /\ \A u \in Requests \ {r} : pc'[u] = pc[u] /\ dest'[u] = dest[u]
  BY <1>0 DEF Handle, PopEntry, PopEmpty, PushRest, NotifyDestFails, NotifyReq,
         NotifyReqFails, SaveReq, SaveDest, SaveFails, SettleLess, SettleGreater, SettleEqual,
         Goto, End
<1>3. ASSUME NEW q \in Requests, Queued(q)' PROVE Circulates(q)
  <2>1. CASE queue' = queue
    BY <1>3, <2>1 DEF Queued, Circulates
  <2>2. CASE PopEntry(r)
    BY <1>0, <1>3, <2>2, PoppedQueue DEF PopEntry, Queued, Circulates
  <2>3. CASE PushRest(r)
    <3>1. [req |-> r, size |-> left[r]] \in Entry
      BY <1>0 DEF Entry
    <3>2. Queued(q) \/ q = r
      BY <1>0, <1>3, <2>3, <3>1, PushedQueue DEF PushRest, Queued
    <3> QED BY <1>1, <3>2 DEF Circulates
  <2>4. CASE SettleLess(r)
    <3> DEFINE m == dest[r].size - StorageMatch(r)
               e == [req |-> dest[r].req, size |-> m]
    <3>1. e \in Entry /\ e.req = dest[r].req
      <4>1. m \in Nat
        BY <1>0, StorageMatchBounds DEF Entry, SizesInv
      <4> QED BY <1>0, <4>1 DEF Entry
    <3>2. queue' = Append(queue, e)
      BY <2>4 DEF SettleLess
    <3> HIDE DEF e
    <3>3. Queued(q) \/ q = dest[r].req
      BY <1>0, <1>3, <3>1, <3>2, PushedQueue DEF Queued
    <3>4. pc[r] \in Holding
      BY <2>4 DEF SettleLess, Holding
    <3> QED BY <3>3, <3>4 DEF Circulates, HeldBy
  <2> QED BY <2>1, <2>2, <2>3, <2>4 DEF Handle, PopEmpty, NotifyDestFails, NotifyReq,
         NotifyReqFails, SaveReq, SaveDest, SaveFails, SettleGreater, SettleEqual
<1>4. ASSUME NEW q \in Requests, NEW u \in Requests, HeldBy(q, u)' PROVE Circulates(q)
  <2>1. CASE u # r
    BY <1>2, <1>4, <2>1 DEF HeldBy, Circulates
  <2>2. CASE u = r /\ PopEntry(r)
    <3>1. queue # <<>> /\ (UNCHANGED <<pc, dest>> \/ dest'[r] = queue[1])
      BY <1>0, <2>2, PoppedQueue DEF PopEntry
    <3>2. CASE UNCHANGED <<pc, dest>>
      BY <1>4, <3>2 DEF HeldBy, Circulates
    <3>3. CASE dest'[r] = queue[1]
      BY <1>0, <1>4, <2>2, <3>1, <3>3, PoppedQueue DEF HeldBy, Queued, Circulates
    <3> QED BY <3>1, <3>2, <3>3
  <2>3. CASE u = r /\ ~PopEntry(r)
    <3>1. pc[r] \in Holding /\ dest'[r] = dest[r]
      BY <1>0, <1>4, <2>3
      DEF Handle, PopEmpty, PushRest, NotifyDestFails, NotifyReq, NotifyReqFails, SaveReq,
          SaveDest, SaveFails, SettleLess, SettleGreater, SettleEqual, Goto, End, HeldBy, Holding
    <3> QED BY <1>4, <2>3, <3>1 DEF HeldBy, Circulates
  <2> QED BY <2>1, <2>2, <2>3
<1>5. \A q \in Requests : pc'[q] \in Running => pc[q] \in Running
  BY <1>1, <1>2
<1> QED BY <1>1, <1>2, <1>3, <1>4, <1>5 DEF Circulates, Running, Holding

\* Every step of the handlers and their environment is one of the ledger's.
LEMMA StepOfLedger ==
  ASSUME LedgerInv, LedgerInv', [Next]_vars
  PROVE  [Ledger!Next]_(Ledger!vars)
<1>0. SizesInv /\ SizesInv'
  BY DEF LedgerInv
<1>1. ASSUME NEW r \in Requests, Submit(r) PROVE Ledger!Next
  BY <1>0, <1>1, OpeningStep DEF Ledger!Next
<1>2. ASSUME NEW r \in Requests, Handle(r) PROVE Ledger!Next
  <2>1. CASE NotifyDest(r)
    <3>1. dest[r].req \in Requests
      BY <1>0 DEF SizesInv, TypeOK, Entry
    <3> QED BY <1>0, <2>1, <3>1, MatchingStep DEF Ledger!Next
  <2>2. CASE ~NotifyDest(r)
    BY <1>0, <1>2, <2>2, PassingStep, ForgettingStep DEF Ledger!Next
  <2> QED BY <2>1, <2>2
<1>3. CASE UNCHANGED <<client, asked, pc, dest, granted>>
           /\ \A q \in Requests : Queued(q)' => Queued(q)
  <2>1. \A q \in Requests : Circulates(q)' => Circulates(q)
    BY <1>3 DEF Circulates, HeldBy
  <2> QED BY <1>0, <1>3, <2>1, ForgettingStep DEF Ledger!Next
<1>4. CASE UNCHANGED <<client, asked, pc, dest, granted, queue>>
  <2>1. \A q \in Requests : Queued(q)' => Queued(q)
    BY <1>4 DEF Queued
  <2>2. UNCHANGED <<client, asked, pc, dest, granted>>
    BY <1>4
  <2> QED BY <1>3, <2>1, <2>2
<1>5. ASSUME NEW c \in Clients, Connect(c) \/ Disconnect(c)
      PROVE  [Ledger!Next]_(Ledger!vars)
  BY <1>4, <1>5 DEF Connect, Disconnect
<1>6. CASE Expire
  <2>1. \A q \in Requests : Queued(q)' => Queued(q)
    BY <1>0, <1>6, PoppedQueue DEF Expire, Queued, SizesInv, TypeOK
  <2> QED BY <1>3, <1>6, <2>1 DEF Expire
<1>7. CASE Crash
  <2>1. /\ UNCHANGED <<client, asked, granted>> /\ queue' = <<>>
        /\ \A q \in Requests : /\ pc'[q] \notin Running
                               /\ pc'[q] = "new" <=> pc[q] = "new"
    BY <1>0, <1>7 DEF Crash, InFlight, Running, Holding, SizesInv, TypeOK
  <2>2. \A q \in Requests : ~Circulates(q)'
    BY <2>1 DEF Circulates, Queued, HeldBy, Running
  <2> QED BY <1>0, <2>1, <2>2, ForgettingStep DEF Ledger!Next
<1>8. CASE UNCHANGED vars
  BY <1>4, <1>8 DEF vars
<1> QED BY <1>1, <1>2, <1>5, <1>6, <1>7, <1>8 DEF Next

\* What the handlers do with queue, database and messages, one statement at a
\* time and for any interleaving, is for their clients a sequence of atomic
\* exchanges between two requests of different clients.
THEOREM HandlersImplementLedger == Spec => ImplementsLedger
<1>1. LedgerInv /\ LedgerInv' /\ [Next]_vars => [Ledger!Next]_(Ledger!vars)
  BY StepOfLedger
<1> QED BY InitLedger, LedgerInvariant, <1>1, PTL DEF Spec, ImplementsLedger, Ledger!Spec
=============================================================================
