---------------------------- MODULE Restore_proofs ----------------------------
(***************************************************************************)
(* Proofs about Rendezvous and Restore, for any peers, number of attempts, *)
(* windows, faults and backups.                                            *)
(*                                                                         *)
(* What the nonces protect is settled by the requests and attempts alone.  *)
(* So every step of Restore is first reduced to what it does to these two, *)
(* which is one of the few things in Effect.  That a window unpacks all    *)
(* files is then proved from the files that attempts have sent, the peers  *)
(* that are done, and the peers that a window has asked.  That no window   *)
(* waits in vain is proved from what an attempt has yet to do.             *)
(***************************************************************************)
EXTENDS Restore, TLAPS

-----------------------------------------------------------------------------
(* What a step does to requests and attempts.                               *)

Steps ==
  {"unused", "incoming", "connecting", "receiving", "serving", "dropped", "hung"}

RequestRecord == [nonce : Slots \cup {None}, purpose : Purposes \cup {"none"}]

Attempt ==
  [peer : Peers \cup {None}, purpose : Purposes \cup {"none"}, step : Steps,
   nonce : Slots \cup {None}, used : Purposes \cup {"none"}]

\* A new request, with or without the attempt that follows it.
Asked(k, p, purpose) ==
  /\ AddRequest(k, p, purpose)
  /\ \/ att' = att
     \/ att' = [att EXCEPT ![k] = [Unused EXCEPT !.peer = p, !.purpose = purpose,
                                                 !.step = "incoming"]]

\* An attempt is over, or goes on after its nonce was checked.
Moved(k) ==
  /\ requests' = requests
  /\ \/ End(k)
     \/ Become(k, "connecting") /\ At(k, "incoming")
     \/ Become(k, "dropped") /\ ~At(k, "incoming") /\ ~At(k, "connecting") /\ ~At(k, "unused")
     \/ /\ Become(k, "serving") \/ Become(k, "hung")
        /\ \/ At(k, "receiving") /\ att[k].used # "transport" /\ att[k].nonce = k
           \/ At(k, "serving")

\* The request of the attempt's peer is taken out.
Taken(k) == Finalize(k)

\* Requests are forgotten, and attempts with them.
Forgotten ==
  /\ \A p \in Peers : requests'[p] \in {requests[p], NoRequest}
  /\ requests' \in [Peers -> RequestRecord]
  /\ \/ att' = att
     \/ att' = [k \in Slots |-> IF At(k, "incoming") THEN att[k] ELSE Unused]

Effect ==
  \/ UNCHANGED <<requests, att>>
  \/ \E k \in Slots, p \in Peers, purpose \in Purposes : Asked(k, p, purpose)
  \/ \E k \in Slots : Moved(k) \/ Taken(k)
  \/ Forgotten

-----------------------------------------------------------------------------
(* The inductive invariant.                                                 *)

\* A request has a nonce and a purpose, or there is none.
RequestOK(p) ==
  requests[p] # NoRequest => requests[p].nonce # None /\ requests[p].purpose \in Purposes

\* An attempt is about a peer; a request was taken out for it if it has a nonce, and
\* the one that was announced if that is its own.
AttemptOK(k) ==
  /\ ~At(k, "unused") => att[k].peer \in Peers
  /\ att[k].nonce # None => att[k].used \in Purposes
  /\ At(k, "unused") \/ At(k, "incoming") \/ At(k, "connecting") => att[k].used = "none"
  /\ att[k].nonce = k => att[k].used = att[k].purpose

\* A nonce that waits to be taken out is in no attempt, and in no other request.
NotTaken ==
  /\ \A p \in Peers, k \in Slots : requests[p].nonce # None => att[k].nonce # requests[p].nonce
  /\ \A p, q \in Peers : requests[p].nonce # None /\ requests[p].nonce = requests[q].nonce => p = q

\* The attempt in the slot of a request was announced for the same purpose.
SamePurpose ==
  \A p \in Peers, k \in Slots :
    requests[p].nonce = k /\ ~At(k, "unused") => att[k].purpose = requests[p].purpose

NonceInv ==
  /\ requests \in [Peers -> RequestRecord] /\ att \in [Slots -> Attempt]
  /\ \A p \in Peers : RequestOK(p)
  /\ \A k \in Slots : AttemptOK(k)
  /\ NotTaken /\ SamePurpose
  /\ NonceUsedOnce /\ ServedAsAsked

LEMMA InitNonceInv == Init => NonceInv
<1> SUFFICES ASSUME Init PROVE NonceInv
  OBVIOUS
<1> USE DEF Init, NoRequest, Unused, At, None, Purposes
<1>1. requests \in [Peers -> RequestRecord] /\ att \in [Slots -> Attempt]
  BY DEF RequestRecord, Attempt, Steps
<1>2. ASSUME NEW k \in Slots PROVE k # None /\ att[k] = Unused
  BY SlotsAssumption
<1>3. \A k \in Slots : AttemptOK(k)
  BY <1>2 DEF AttemptOK
<1>4. \A p \in Peers : RequestOK(p)
  BY DEF RequestOK
<1>5. NotTaken /\ SamePurpose
  BY <1>2 DEF NotTaken, SamePurpose
<1>6. NonceUsedOnce /\ ServedAsAsked
  BY <1>2 DEF NonceUsedOnce, ServedAsAsked
<1> QED BY <1>1, <1>3, <1>4, <1>5, <1>6 DEF NonceInv

LEMMA AskedNonceInv ==
  ASSUME NonceInv, NEW k \in Slots, NEW p \in Peers, NEW purpose \in Purposes,
         Asked(k, p, purpose)
  PROVE  NonceInv'
<1> USE DEF NonceInv, RequestRecord, Attempt
<1>0. k # None
  BY SlotsAssumption
<1>1. /\ att[k] = Unused
      /\ \A q \in Peers : requests[q].nonce # k
      /\ \A j \in Slots : att[j].nonce # k
  BY DEF Asked, AddRequest, Vacant, Free
<1>2. /\ requests'[p] = [nonce |-> k, purpose |-> purpose]
      /\ \A q \in Peers \ {p} : requests'[q] = requests[q]
      /\ requests' \in [Peers -> RequestRecord]
  BY DEF Asked, AddRequest
<1>3. /\ \A j \in Slots \ {k} : att'[j] = att[j]
      /\ \/ att'[k] = att[k]
         \/ /\ att'[k].peer = p /\ att'[k].purpose = purpose /\ att'[k].step = "incoming"
            /\ att'[k].nonce = None /\ att'[k].used = "none"
      /\ att' \in [Slots -> Attempt]
  <2> DEFINE new == [Unused EXCEPT !.peer = p, !.purpose = purpose, !.step = "incoming"]
  <2>1. Unused \in Attempt
    BY DEF Unused, Steps
  <2>2. /\ new \in Attempt
        /\ new.peer = p /\ new.purpose = purpose /\ new.step = "incoming"
        /\ new.nonce = None /\ new.used = "none"
    BY <2>1 DEF Unused, Steps
  <2>3. att' = att \/ att' = [att EXCEPT ![k] = new]
    BY DEF Asked
  <2> HIDE DEF new
  <2>4. /\ \A j \in Slots \ {k} : att'[j] = att[j]
        /\ att'[k] = att[k] \/ att'[k] = new
        /\ att' \in [Slots -> Attempt]
    BY <2>2, <2>3
  <2> QED BY <2>2, <2>4
<1>4. \A j \in Slots : att'[j].nonce = att[j].nonce
  BY <1>1, <1>3 DEF Unused
<1>5. \A q \in Peers : RequestOK(q)'
  BY <1>0, <1>2 DEF RequestOK
<1>6. ASSUME NEW j \in Slots PROVE AttemptOK(j)'
  <2>1. CASE j # k
    BY <1>3, <2>1 DEF AttemptOK, At
  <2>2. CASE j = k
    BY <1>0, <1>1, <1>3, <2>2 DEF AttemptOK, At, Unused
  <2> QED BY <2>1, <2>2
<1>7. NotTaken'
  <2>1. ASSUME NEW q \in Peers, NEW j \in Slots, requests'[q].nonce # None
        PROVE  att'[j].nonce # requests'[q].nonce
    BY <1>1, <1>2, <1>4, <2>1 DEF NotTaken
  <2>2. ASSUME NEW q1 \in Peers, NEW q2 \in Peers, requests'[q1].nonce # None,
               requests'[q1].nonce = requests'[q2].nonce
        PROVE  q1 = q2
    BY <1>1, <1>2, <2>2 DEF NotTaken
  <2> QED BY <2>1, <2>2 DEF NotTaken
<1>8. SamePurpose'
  <2> SUFFICES ASSUME NEW q \in Peers, NEW j \in Slots,
                      requests'[q].nonce = j, att'[j].step # "unused"
               PROVE  att'[j].purpose = requests'[q].purpose
    BY DEF SamePurpose, At
  <2>1. CASE q = p
    BY <1>1, <1>2, <1>3, <2>1 DEF Unused
  <2>2. CASE q # p
    <3>1. j # k
      BY <1>1, <1>2, <2>2
    <3> QED BY <1>2, <1>3, <2>2, <3>1 DEF SamePurpose, At
  <2> QED BY <2>1, <2>2
<1>9. NonceUsedOnce'
  BY <1>4 DEF NonceUsedOnce
<1>10. ServedAsAsked'
  BY <1>1, <1>3 DEF ServedAsAsked, At, Unused
<1> QED BY <1>2, <1>3, <1>5, <1>6, <1>7, <1>8, <1>9, <1>10

LEMMA MovedNonceInv ==
  ASSUME NonceInv, NEW k \in Slots, Moved(k)
  PROVE  NonceInv'
<1> USE DEF NonceInv, Attempt
<1>0. k # None
  BY SlotsAssumption
<1>1. /\ \A j \in Slots \ {k} : att'[j] = att[j]
      /\ \/ att'[k] = Unused
         \/ /\ \/ att'[k].step = "connecting" /\ att[k].step = "incoming"
               \/ att'[k].step \in {"dropped", "serving", "hung"} /\ att[k].step # "unused"
            /\ att'[k].peer = att[k].peer /\ att'[k].purpose = att[k].purpose
            /\ att'[k].nonce = att[k].nonce /\ att'[k].used = att[k].used
      /\ att' \in [Slots -> Attempt]
      /\ requests' = requests
  BY DEF Moved, End, Become, At, Unused, Steps
<1>2. \A j \in Slots : att'[j].nonce \in {att[j].nonce, None}
  BY <1>1 DEF Unused
<1>3. \A j \in Slots : AttemptOK(j)'
  BY <1>0, <1>1 DEF AttemptOK, At, Unused
<1>4. NotTaken' /\ NonceUsedOnce'
  BY <1>1, <1>2 DEF NotTaken, NonceUsedOnce
<1>5. SamePurpose'
  BY <1>1 DEF SamePurpose, At, Unused
<1>6. ServedAsAsked'
  <2> SUFFICES ASSUME NEW j \in Slots, att'[j].step = "serving" \/ att'[j].step = "hung"
               PROVE  /\ att'[j].nonce = j /\ att'[j].used = "restore"
                      /\ att'[j].purpose = "restore"
    BY DEF ServedAsAsked, At
  <2>1. CASE j # k
    BY <1>1, <2>1 DEF ServedAsAsked, At
  <2>2. CASE j = k
    <3>1. \/ At(k, "receiving") /\ att[k].used # "transport" /\ att[k].nonce = k
          \/ At(k, "serving")
      BY <2>2 DEF Moved, End, Become, Unused
    <3>2. att'[k] # Unused
      BY <2>2 DEF Unused
    <3>3. AttemptOK(k)
      OBVIOUS
    <3>4. att[k].nonce = k /\ att[k].used = "restore" /\ att[k].purpose = "restore"
      BY <1>0, <3>1, <3>3 DEF AttemptOK, ServedAsAsked, Purposes
    <3> QED BY <1>1, <2>2, <3>2, <3>4
  <2> QED BY <2>1, <2>2
<1>7. \A p \in Peers : RequestOK(p)'
  BY <1>1 DEF RequestOK
<1> QED BY <1>1, <1>3, <1>4, <1>5, <1>6, <1>7

LEMMA TakenRequest ==
  ASSUME NonceInv, NEW k \in Slots, NEW p \in Peers, At(k, "connecting"),
         NEW n \in Slots, NEW purpose \in Purposes,
         requests[p].nonce = n, requests[p].purpose = purpose,
         n = k => att[k].purpose = purpose,
         requests' \in [Peers -> RequestRecord], att' \in [Slots -> Attempt],
         requests'[p].nonce = None, requests'[p].purpose = "none", requests'[p] = NoRequest,
         \A q \in Peers \ {p} : requests'[q] = requests[q],
         \A j \in Slots \ {k} : att'[j] = att[j],
         att'[k].step = "receiving", att'[k].nonce = n, att'[k].used = purpose,
         att'[k].peer = att[k].peer, att'[k].purpose = att[k].purpose
  PROVE  NonceInv'
<1>0. n # None
  BY SlotsAssumption
<1> USE DEF NonceInv
<1>1. ASSUME NEW j \in Slots PROVE AttemptOK(j)'
  BY <1>0 DEF AttemptOK, At
<1>2. \A q \in Peers : RequestOK(q)'
  BY DEF RequestOK
<1>3. NotTaken'
  <2>1. ASSUME NEW q \in Peers, NEW j \in Slots, requests'[q].nonce # None
        PROVE  att'[j].nonce # requests'[q].nonce
    <3>1. q # p /\ requests'[q] = requests[q]
      BY <2>1
    <3> QED BY <1>0, <2>1, <3>1 DEF NotTaken
  <2>2. ASSUME NEW q1 \in Peers, NEW q2 \in Peers, requests'[q1].nonce # None,
               requests'[q1].nonce = requests'[q2].nonce
        PROVE  q1 = q2
    BY <2>2 DEF NotTaken
  <2> QED BY <2>1, <2>2 DEF NotTaken
<1>4. NonceUsedOnce'
  <2>1. \A j \in Slots : att[j].nonce # n
    BY <1>0 DEF NotTaken
  <2> QED BY <2>1 DEF NonceUsedOnce
<1>5. SamePurpose'
  <2> SUFFICES ASSUME NEW q \in Peers, NEW j \in Slots,
                      requests'[q].nonce = j, att'[j].step # "unused"
               PROVE  att'[j].purpose = requests'[q].purpose
    BY DEF SamePurpose, At
  <2>1. q # p /\ requests'[q] = requests[q]
    BY SlotsAssumption
  <2> QED BY <2>1 DEF SamePurpose, At
<1>6. ServedAsAsked'
  BY DEF ServedAsAsked, At
<1> QED BY <1>1, <1>2, <1>3, <1>4, <1>5, <1>6

LEMMA TakenNonceInv ==
  ASSUME NonceInv, NEW k \in Slots, Taken(k)
  PROVE  NonceInv'
<1> USE DEF NonceInv, RequestRecord, Attempt
<1>0. At(k, "connecting") /\ att[k].peer \in Peers
  BY DEF Taken, Finalize, AttemptOK, At
<1>1. PICK p \in Peers : p = att[k].peer
  BY <1>0
<1>2. CASE requests[p] = NoRequest
  <2>1. requests' = requests /\ End(k)
    BY <1>1, <1>2 DEF Taken, Finalize
  <2> QED BY <2>1, MovedNonceInv DEF Moved
<1>3. CASE requests[p] # NoRequest
  <2>1. PICK n \in Slots, purpose \in Purposes :
          requests[p].nonce = n /\ requests[p].purpose = purpose
    BY <1>3 DEF RequestOK
  <2>2. n = k => att[k].purpose = purpose
    BY <1>0, <2>1 DEF SamePurpose, At
  <2>3. /\ requests' = [requests EXCEPT ![p] = NoRequest]
        /\ att' = [att EXCEPT ![k] = [att[k] EXCEPT !.step = "receiving", !.nonce = n,
                                                    !.used = purpose]]
    BY <1>1, <1>3, <2>1 DEF Taken, Finalize
  <2> DEFINE new == [att[k] EXCEPT !.step = "receiving", !.nonce = n, !.used = purpose]
  <2>4. /\ new \in Attempt
        /\ new.step = "receiving" /\ new.nonce = n /\ new.used = purpose
        /\ new.peer = att[k].peer /\ new.purpose = att[k].purpose
    BY DEF Steps
  <2>5. att' = [att EXCEPT ![k] = new]
    BY <2>3
  <2> HIDE DEF new
  <2>6. /\ att' \in [Slots -> Attempt] /\ att'[k] = new
        /\ \A j \in Slots \ {k} : att'[j] = att[j]
    BY <2>4, <2>5
  <2>7. /\ requests' \in [Peers -> RequestRecord]
        /\ \A q \in Peers \ {p} : requests'[q] = requests[q]
        /\ requests'[p] = NoRequest
        /\ requests'[p].nonce = None /\ requests'[p].purpose = "none"
    BY <2>3 DEF NoRequest
  <2> HIDE DEF NonceInv, Attempt, RequestRecord
  <2> QED BY <1>0, <2>1, <2>2, <2>4, <2>6, <2>7, TakenRequest
<1> QED BY <1>2, <1>3

LEMMA ForgottenNonceInv ==
  ASSUME NonceInv, Forgotten
  PROVE  NonceInv'
<1> USE DEF NonceInv, Attempt
<1>1. /\ \A p \in Peers : requests'[p] \in {requests[p], NoRequest}
      /\ requests' \in [Peers -> RequestRecord]
  BY DEF Forgotten
<1>2. \A k \in Slots : k # None /\ att'[k] \in {att[k], Unused}
  BY SlotsAssumption DEF Forgotten
<1>3. att' \in [Slots -> Attempt]
  BY DEF Forgotten, Unused, Steps
<1>4. \A p \in Peers : RequestOK(p)'
  BY <1>1 DEF RequestOK
<1>5. \A k \in Slots : AttemptOK(k)'
  BY <1>2 DEF AttemptOK, At, Unused
<1>6. NotTaken'
  BY <1>1, <1>2 DEF NotTaken, NoRequest, Unused
<1>7. SamePurpose'
  BY <1>1, <1>2 DEF SamePurpose, NoRequest, Unused, At
<1>8. NonceUsedOnce' /\ ServedAsAsked'
  BY <1>2 DEF NonceUsedOnce, ServedAsAsked, Unused, At
<1> QED BY <1>1, <1>3, <1>4, <1>5, <1>6, <1>7, <1>8

-----------------------------------------------------------------------------
(* The windows and the flag.                                                *)

\* A window is at a known step, and asks only peers of the client.
WindowInv ==
  /\ wpc \in [Windows -> {"idle", "request", "wait", "unpack"}]
  /\ todo \in [Windows -> SUBSET Peers]
  /\ RunningIsSomeones

LEMMA InitWindowInv == Init => WindowInv
BY DEF Init, WindowInv, RunningIsSomeones

\* Only windows touch wpc and todo, and whoever sets the flag, or leaves it set,
\* is one that is not idle.
LEMMA StepWindowInv == WindowInv /\ [Next]_vars => WindowInv'
<1> SUFFICES ASSUME WindowInv, [Next]_vars PROVE WindowInv'
  OBVIOUS
<1> USE DEF WindowInv, RunningIsSomeones
<1>1. CASE UNCHANGED <<windows, running>>
  BY <1>1 DEF windows
<1>2. CASE UNCHANGED windows /\ running' = FALSE
  BY <1>2 DEF windows
<1>3. ASSUME NEW w \in Windows, StartRestore(w) \/ StartTogether(w) PROVE WindowInv'
  <2>1. Begin(w)
    BY <1>3 DEF StartRestore, StartTogether
  <2>2. wpc'[w] = "request"
    BY <2>1 DEF Begin
  <2> QED BY <2>1, <2>2 DEF Begin
<1>4. ASSUME NEW w \in Windows, Finish(w) PROVE WindowInv'
  BY <1>4 DEF Finish
<1>5. ASSUME NEW w \in Windows, NEW p \in Peers, AddPeer(w, p), UNCHANGED running PROVE WindowInv'
  <2>1. wpc'[w] # "idle"
    BY <1>5 DEF AddPeer
  <2> QED BY <1>5, <2>1 DEF AddPeer
<1>6. ASSUME NEW w \in Windows, Goto(w, "unpack"), UNCHANGED running PROVE WindowInv'
  <2>1. wpc'[w] # "idle"
    BY <1>6 DEF Goto
  <2> QED BY <1>6, <2>1 DEF Goto
<1>7. ASSUME NEW w \in Windows, WindowStep(w) \/ AskFails(w) \/ WindowFails(w) PROVE WindowInv'
  <2>1. CASE RequestPeer(w)
    BY <1>5, <2>1 DEF RequestPeer
  <2>2. CASE Poll(w)
    BY <1>4, <1>6, <2>2 DEF Poll, flags
  <2>3. CASE Unpack(w) \/ WindowFails(w)
    BY <1>4, <2>3 DEF Unpack, WindowFails
  <2>4. CASE AskFails(w)
    BY <1>4, <1>5, <2>4 DEF AskFails
  <2> QED BY <1>7, <2>1, <2>2, <2>3, <2>4 DEF WindowStep
<1>8. ASSUME NEW k \in Slots, AttemptStep(k) PROVE WindowInv'
  <2>1. CASE ListenForClient(k) \/ FinalizeAttempt(k) \/ Serve(k)
    BY <1>1, <2>1 DEF ListenForClient, FinalizeAttempt, Serve, flags
  <2>2. CASE SendFile(k) \/ SessionDone(k) \/ SessionError(k)
    BY <1>1, <1>2, <2>2 DEF SendFile, SessionDone, SessionError, Failed, flags
  <2> QED BY <1>8, <2>1, <2>2 DEF AttemptStep
<1>9. ASSUME NEW k \in Slots, NEW p \in Peers, BackupConnects(k, p) \/ Matched(k, p)
      PROVE  WindowInv'
  BY <1>1, <1>9 DEF BackupConnects, Matched, flags
<1>10. ASSUME NEW p \in Peers, HandleMatch(p) \/ ThrottleOver(p) \/ ExpireRequest(p)
       PROVE  WindowInv'
  BY <1>1, <1>10 DEF HandleMatch, ThrottleOver, ExpireRequest, flags
<1>11. CASE StartBackup \/ SetBackupStarted \/ SizeFails \/ SetBackupFinished
  BY <1>1, <1>11 DEF StartBackup, SetBackupStarted, SizeFails, SetBackupFinished
<1>12. ASSUME NEW k \in Slots, Lose(k) \/ Break(k) \/ PeerGivesUp(k) PROVE WindowInv'
  BY <1>1, <1>12 DEF Lose, Break, PeerGivesUp, flags
<1>13. CASE ClientRestart
  BY <1>13 DEF ClientRestart
<1>14. CASE UNCHANGED vars
  BY <1>1, <1>14 DEF vars, flags
<1> QED BY <1>3, <1>7, <1>8, <1>9, <1>10, <1>11, <1>12, <1>13, <1>14 DEF Next, Faults

-----------------------------------------------------------------------------
(* The steps of Restore.                                                    *)

\* Every step of Restore, whatever else it does, has one of these effects.
LEMMA StepEffect ==
  ASSUME NonceInv, WindowInv, [Next]_vars
  PROVE  Effect
<1> USE DEF Effect
<1>1. ASSUME NEW k \in Slots, NEW p \in Peers, NEW purpose \in Purposes,
             Ask(k, p, purpose) \/ AskInVain(k, p, purpose)
      PROVE  Effect
  <2>1. Asked(k, p, purpose)
    BY <1>1 DEF Ask, AskInVain, Asked
  <2> QED BY <2>1
<1>2. ASSUME NEW w \in Windows, StartRestore(w) \/ StartTogether(w) PROVE Effect
  BY <1>2 DEF StartRestore, StartTogether, Begin, rendezvous
<1>3. ASSUME NEW w \in Windows, WindowStep(w) \/ AskFails(w) \/ WindowFails(w) PROVE Effect
  <2>1. CASE Poll(w) \/ Unpack(w) \/ WindowFails(w)
    BY <2>1 DEF Poll, Unpack, WindowFails, rendezvous
  <2>2. CASE RequestPeer(w) \/ AskFails(w)
    <3>1. todo[w] \subseteq Peers
      BY DEF WindowInv
    <3> QED BY <1>1, <2>2, <3>1 DEF RequestPeer, AskFails, Purposes
  <2> QED BY <1>3, <2>1, <2>2 DEF WindowStep
<1>4. ASSUME NEW k \in Slots, AttemptStep(k) PROVE Effect
  <2> SUFFICES Moved(k) \/ Taken(k) \/ UNCHANGED <<requests, att>>
    OBVIOUS
  <2>1. CASE ListenForClient(k)
    BY <2>1 DEF ListenForClient, Listen, Moved
  <2>2. CASE FinalizeAttempt(k)
    BY <2>2 DEF FinalizeAttempt, Taken
  <2>3. CASE Serve(k)
    BY <2>3 DEF Serve, ReceiveRequest, Dispatch, Moved, At
  <2>4. CASE SendFile(k)
    BY <2>4 DEF SendFile, Failed, Moved, rendezvous
  <2>5. CASE SessionDone(k)
    BY <2>5 DEF SessionDone, Moved
  <2>6. CASE SessionError(k)
    BY <2>6 DEF SessionError, Failed, Moved
  <2> QED BY <1>4, <2>1, <2>2, <2>3, <2>4, <2>5, <2>6 DEF AttemptStep
<1>5. ASSUME NEW k \in Slots, NEW p \in Peers, BackupConnects(k, p) \/ Matched(k, p)
      PROVE  Effect
  BY <1>1, <1>5 DEF BackupConnects, Matched, Match, Purposes
<1>6. ASSUME NEW p \in Peers, HandleMatch(p) \/ ThrottleOver(p) PROVE Effect
  BY <1>6 DEF HandleMatch, PeerMatched, ThrottleOver, rendezvous
<1>7. CASE StartBackup \/ SetBackupStarted \/ SizeFails \/ SetBackupFinished
  BY <1>7 DEF StartBackup, SetBackupStarted, SizeFails, SetBackupFinished, rendezvous
<1>8. ASSUME NEW k \in Slots, Lose(k) \/ Break(k) \/ PeerGivesUp(k) PROVE Effect
  <2>1. CASE Lose(k)
    BY <2>1 DEF Lose, LoseAttempt, Moved
  <2>2. CASE Break(k)
    <3>1. ~At(k, "incoming") /\ ~At(k, "connecting") /\ ~At(k, "unused")
      BY <2>2 DEF Break, NonceInv, AttemptOK
    <3> QED BY <2>2, <3>1 DEF Break, Moved
  <2>3. CASE PeerGivesUp(k)
    BY <2>3 DEF PeerGivesUp, Moved
  <2> QED BY <1>8, <2>1, <2>2, <2>3
<1>9. ASSUME NEW p \in Peers, ExpireRequest(p) PROVE Effect
  <2>1. NoRequest \in RequestRecord
    BY DEF NoRequest, RequestRecord
  <2> QED BY <1>9, <2>1 DEF NonceInv, ExpireRequest, Expire, Forgotten
<1>10. CASE ClientRestart
  <2>1. NoRequest \in RequestRecord
    BY DEF NoRequest, RequestRecord
  <2> QED BY <1>10, <2>1 DEF NonceInv, ClientRestart, LoseClient, Forgotten
<1>11. CASE UNCHANGED vars
  BY <1>11 DEF vars, rendezvous
<1> QED BY <1>2, <1>3, <1>4, <1>5, <1>6, <1>7, <1>8, <1>9, <1>10, <1>11 DEF Next, Faults

LEMMA StepNonceInv == NonceInv /\ WindowInv /\ [Next]_vars => NonceInv'
<1> SUFFICES ASSUME NonceInv, WindowInv, [Next]_vars PROVE NonceInv'
  OBVIOUS
<1>1. Effect
  BY StepEffect
<1>2. CASE UNCHANGED <<requests, att>>
  BY <1>2 DEF NonceInv, RequestOK, AttemptOK, NotTaken, SamePurpose, NonceUsedOnce,
              ServedAsAsked, At
<1> QED BY <1>1, <1>2, AskedNonceInv, MovedNonceInv, TakenNonceInv, ForgottenNonceInv
         DEF Effect

LEMMA NonceInvariant == Spec => [](NonceInv /\ WindowInv)
BY InitNonceInv, InitWindowInv, StepNonceInv, StepWindowInv, PTL DEF Spec

\* A nonce opens one session, however many requests replace each other, expire
\* and are answered late, for any number of attempts at a time.
THEOREM NoncesUsedOnce == Spec => []NonceUsedOnce
<1>1. NonceInv => NonceUsedOnce
  BY DEF NonceInv
<1> QED BY <1>1, NonceInvariant, PTL

\* A peer hands out what it stores only over a connection that was announced to
\* it, and that the client uses, for that purpose.
THEOREM PurposesAgree == Spec => []ServedAsAsked
<1>1. NonceInv => ServedAsAsked
  BY DEF NonceInv
<1> QED BY <1>1, NonceInvariant, PTL

\* The flag that keeps the user from starting a restore or a backup is never set
\* without a window that is in a restore and clears it whichever way that ends, if it
\* does: for any number of windows, peers and faults.
THEOREM FlagIsCleared == Spec => []RunningIsSomeones
<1>1. WindowInv => RunningIsSomeones
  BY DEF WindowInv
<1> QED BY <1>1, NonceInvariant, PTL

-----------------------------------------------------------------------------
(* What the sessions have brought is in the folder.                          *)

Served == {"serving", "hung", "dropped"}

\* Only an attempt that is served has sent files; what it has sent is in the folder,
\* unless it is from before the folder was deleted.
SessionInv ==
  /\ stored \in [Peers -> Nat] /\ sent \in [Slots -> Nat]
  /\ \A k \in Slots : sent[k] # 0 => att[k].step \in Served /\ att[k].used = "restore"
  /\ \A k \in Slots : k \notin stale => \A i \in 1..sent[k] : <<att[k].peer, i>> \in folder

\* Attempts that have sent files stay what they are.
Kept ==
  \A k \in Slots : sent[k] # 0 =>
    /\ att'[k].peer = att[k].peer /\ att'[k].used = att[k].used
    /\ att'[k].step \in Served

LEMMA KeptSessionInv ==
  ASSUME SessionInv, Kept, UNCHANGED <<stored, sent, stale>>, folder \subseteq folder'
  PROVE  SessionInv'
<1> USE DEF SessionInv
<1>1. ASSUME NEW k \in Slots, k \notin stale, NEW i \in 1..sent[k]
      PROVE  <<att'[k].peer, i>> \in folder'
  <2>1. sent[k] # 0
    OBVIOUS
  <2>2. att'[k].peer = att[k].peer
    BY <2>1 DEF Kept
  <2>3. <<att[k].peer, i>> \in folder
    BY <1>1
  <2> QED BY <2>2, <2>3
<1>2. \A k \in Slots : sent[k] # 0 => att'[k].step \in Served /\ att'[k].used = "restore"
  BY DEF Kept
<1> QED BY <1>1, <1>2

\* One attempt is over, and what it has sent is forgotten.
LEMMA ForgottenSessionInv ==
  ASSUME SessionInv, NEW k \in Slots, Forget(k), UNCHANGED <<stored, folder>>,
         \A j \in Slots \ {k} : att'[j] = att[j]
  PROVE  SessionInv'
<1> USE DEF SessionInv
<1>1. sent' \in [Slots -> Nat] /\ sent'[k] = 0 /\ \A j \in Slots \ {k} : sent'[j] = sent[j]
  BY DEF Forget
<1>2. \A j \in Slots \ {k} : j \notin stale' => j \notin stale
  BY DEF Forget
<1>3. ASSUME NEW j \in Slots, sent'[j] # 0
      PROVE  att'[j].step \in Served /\ att'[j].used = "restore"
  BY <1>1, <1>3
<1>4. ASSUME NEW j \in Slots, j \notin stale', NEW i \in 1..sent'[j]
      PROVE  <<att'[j].peer, i>> \in folder'
  <2>1. j # k
    BY <1>1
  <2> QED BY <1>1, <1>2, <1>4, <2>1
<1> QED BY <1>1, <1>3, <1>4

LEMMA InitSessionInv == Init => SessionInv
<1> SUFFICES ASSUME Init PROVE SessionInv
  OBVIOUS
<1>1. stored \in [Peers -> Nat]
  BY WorldsAssumption DEF Init
<1>2. \A k \in Slots : sent[k] = 0
  BY DEF Init
<1> QED BY <1>1, <1>2 DEF Init, SessionInv

\* An attempt that has sent nothing may change in any way; one that is served may
\* be dropped or hung.
LEMMA OneAttemptKept ==
  ASSUME NonceInv, SessionInv, NEW k \in Slots,
         \A j \in Slots \ {k} : att'[j] = att[j],
         \/ att[k].step \notin Served
         \/ \E s \in Served : Become(k, s)
  PROVE  Kept
<1> SUFFICES ASSUME NEW j \in Slots, sent[j] # 0
             PROVE  /\ att'[j].peer = att[j].peer /\ att'[j].used = att[j].used
                    /\ att'[j].step \in Served
  BY DEF Kept
<1>1. att[j].step \in Served
  BY DEF SessionInv
<1>2. CASE j # k
  BY <1>1, <1>2
<1>3. CASE j = k
  BY <1>1, <1>3 DEF Become, NonceInv, Attempt
<1> QED BY <1>2, <1>3

LEMMA AskedKept ==
  ASSUME NonceInv, SessionInv, NEW k \in Slots, NEW p \in Peers, NEW purpose \in Purposes,
         Ask(k, p, purpose) \/ AskInVain(k, p, purpose)
  PROVE  Kept
<1>1. att[k].step = "unused"
  BY DEF Ask, AskInVain, AddRequest, Vacant, Free, Unused
<1>2. \A j \in Slots \ {k} : att'[j] = att[j]
  BY DEF Ask, AskInVain, NonceInv
<1> QED BY <1>1, <1>2, OneAttemptKept DEF Served

LEMMA SameKept ==
  ASSUME SessionInv, att' = att
  PROVE  Kept
BY DEF SessionInv, Kept

LEMMA SentFileSessionInv ==
  ASSUME NonceInv, SessionInv, NEW k \in Slots, SendFile(k)
  PROVE  SessionInv'
<1>1. att[k].peer \in Peers /\ att[k].used = "restore" /\ att[k].step \in Served
  BY DEF SendFile, NonceInv, AttemptOK, ServedAsAsked, At, Served
<1>2. UNCHANGED stored
  BY DEF SendFile, Failed
<1>3. CASE Failed(k) /\ UNCHANGED folder
  <2>1. \A j \in Slots \ {k} : att'[j] = att[j]
    BY <1>3 DEF Failed, End, NonceInv
  <2> QED BY <1>2, <1>3, <2>1, ForgottenSessionInv DEF Failed
<1>4. CASE /\ folder' = folder \cup {<<att[k].peer, sent[k] + 1>>}
           /\ sent' = [sent EXCEPT ![k] = sent[k] + 1]
           /\ UNCHANGED <<rendezvous, stale>>
  <2> USE DEF SessionInv
  <2>1. /\ sent' \in [Slots -> Nat] /\ sent'[k] = sent[k] + 1
        /\ \A j \in Slots \ {k} : sent'[j] = sent[j]
    BY <1>4
  <2>2. att' = att /\ stale' = stale
    BY <1>4 DEF rendezvous
  <2>3. ASSUME NEW j \in Slots, sent'[j] # 0
        PROVE  att'[j].step \in Served /\ att'[j].used = "restore"
    BY <1>1, <2>1, <2>2, <2>3
  <2>4. ASSUME NEW j \in Slots, j \notin stale', NEW i \in 1..sent'[j]
        PROVE  <<att'[j].peer, i>> \in folder'
    <3>1. CASE j # k
      BY <1>4, <2>1, <2>2, <2>4, <3>1
    <3>2. CASE j = k
      <4>1. i \in 1..sent[k] \/ i = sent[k] + 1
        BY <2>1, <3>2
      <4> QED BY <1>4, <2>2, <2>4, <3>2, <4>1
    <3> QED BY <3>1, <3>2
  <2> QED BY <1>2, <2>1, <2>3, <2>4
<1> QED BY <1>3, <1>4 DEF SendFile

LEMMA StepSessionInv ==
  ASSUME NonceInv, WindowInv, SessionInv, [Next]_vars
  PROVE  SessionInv'
<1>1. CASE Kept /\ UNCHANGED <<stored, sent, stale, folder>>
  BY <1>1, KeptSessionInv
<1>2. CASE att' = att /\ UNCHANGED <<stored, sent, stale, folder>>
  BY <1>1, <1>2, SameKept
<1>3. ASSUME NEW w \in Windows, StartRestore(w) \/ StartTogether(w) PROVE SessionInv'
  BY <1>2, <1>3 DEF StartRestore, StartTogether, Begin, rendezvous, files, peers
<1>4. ASSUME NEW w \in Windows, WindowStep(w) \/ AskFails(w) \/ WindowFails(w) PROVE SessionInv'
  <2>1. CASE Poll(w) \/ WindowFails(w)
    BY <1>2, <2>1 DEF Poll, WindowFails, rendezvous, files, peers, history
  <2>2. CASE RequestPeer(w) \/ AskFails(w)
    <3>1. todo[w] \subseteq Peers
      BY DEF WindowInv
    <3>2. Kept
      BY <2>2, <3>1, AskedKept DEF RequestPeer, AskFails, Purposes
    <3> QED BY <1>1, <2>2, <3>2 DEF RequestPeer, AskFails, files, peers, history
  <2>3. CASE Unpack(w)
    <3>1. CASE UNCHANGED <<folder, stale>>
      BY <1>2, <2>3, <3>1 DEF Unpack, rendezvous, peers
    <3>2. CASE stale' = {k \in Slots : att[k].used = "restore"}
      BY <2>3, <3>2 DEF Unpack, rendezvous, peers, SessionInv
    <3> QED BY <2>3, <3>1, <3>2 DEF Unpack, files
  <2> QED BY <1>4, <2>1, <2>2, <2>3 DEF WindowStep
<1>5. ASSUME NEW k \in Slots, AttemptStep(k) PROVE SessionInv'
  <2>1. CASE ListenForClient(k) \/ FinalizeAttempt(k) \/ Serve(k)
    <3>1. att[k].step \notin Served
      BY <2>1 DEF ListenForClient, Listen, FinalizeAttempt, Finalize, Serve, ReceiveRequest,
                  At, Served
    <3>2. \A j \in Slots \ {k} : att'[j] = att[j]
      BY <2>1 DEF ListenForClient, Listen, FinalizeAttempt, Finalize, Serve, ReceiveRequest,
                  Dispatch, End, Become, NonceInv
    <3> QED BY <1>1, <2>1, <3>1, <3>2, OneAttemptKept
            DEF ListenForClient, FinalizeAttempt, Serve, files, peers, history
  <2>2. CASE SendFile(k)
    BY <2>2, SentFileSessionInv
  <2>3. CASE SessionDone(k) \/ SessionError(k)
    <3>1. \A j \in Slots \ {k} : att'[j] = att[j]
      BY <2>3 DEF SessionDone, SessionError, Failed, End, NonceInv
    <3> QED BY <2>3, <3>1, ForgottenSessionInv DEF SessionDone, SessionError, Failed, files
  <2> QED BY <1>5, <2>1, <2>2, <2>3 DEF AttemptStep
<1>6. ASSUME NEW k \in Slots, NEW p \in Peers, BackupConnects(k, p) \/ Matched(k, p)
      PROVE  SessionInv'
  <2>1. Kept
    BY <1>6, AskedKept DEF BackupConnects, Matched, Match, Purposes
  <2> QED BY <1>1, <1>6, <2>1 DEF BackupConnects, Matched, files, peers, history
<1>7. ASSUME NEW p \in Peers, HandleMatch(p) \/ ThrottleOver(p) \/ ExpireRequest(p)
      PROVE  SessionInv'
  BY <1>2, <1>7 DEF HandleMatch, PeerMatched, ThrottleOver, ExpireRequest, Expire, rendezvous,
                    files, peers, history
<1>8. CASE StartBackup \/ SetBackupStarted \/ SizeFails \/ SetBackupFinished
  BY <1>2, <1>8 DEF StartBackup, SetBackupStarted, SizeFails, SetBackupFinished, rendezvous,
                    files, peers, history
<1>9. ASSUME NEW k \in Slots, Lose(k) \/ Break(k) \/ PeerGivesUp(k) PROVE SessionInv'
  <2>1. Kept
    <3>1. \A j \in Slots \ {k} : att'[j] = att[j]
      BY <1>9 DEF Lose, LoseAttempt, Break, PeerGivesUp, End, Become, NonceInv
    <3>2. \/ att[k].step \notin Served
          \/ \E s \in Served : Become(k, s)
      BY <1>9 DEF Lose, LoseAttempt, Break, PeerGivesUp, At, Served
    <3> QED BY <3>1, <3>2, OneAttemptKept
  <2> QED BY <1>1, <1>9, <2>1 DEF Lose, Break, PeerGivesUp, files, peers, history
<1>10. CASE ClientRestart
  BY <1>10 DEF ClientRestart, SessionInv
<1>11. CASE UNCHANGED vars
  BY <1>2, <1>11 DEF vars, rendezvous, files, peers, history
<1> QED BY <1>3, <1>4, <1>5, <1>6, <1>7, <1>8, <1>9, <1>10, <1>11 DEF Next, Faults

-----------------------------------------------------------------------------
(* A window that unpacks has what its peers have stored.                    *)

\* A peer that is done has brought everything, as long as nothing is mixed up.
StatusInv ==
  ~mixed => \A p \in Peers : p \in DOMAIN status /\ status[p] => FilesOf(p) \subseteq folder

\* The peers a window need not ask any more are those it waits for, if it is the
\* one that has begun last.
AskedInv ==
  \A w \in Windows : wpc[w] # "idle" =>
    /\ owner = w => Peers \ todo[w] \subseteq DOMAIN status
    /\ wpc[w] # "request" => todo[w] = {}

FolderInv == StatusInv /\ AskedInv /\ UnpackHasAll

LEMMA InitFolderInv == Init => FolderInv
BY DEF Init, FolderInv, StatusInv, AskedInv, UnpackHasAll

\* Windows may be done, and files may be added.
LEMMA KeptFolderInv ==
  ASSUME FolderInv, UNCHANGED <<stored, owner, mixed, status>>, folder \subseteq folder',
         \A w \in Windows :
           wpc'[w] = "idle" \/ (wpc'[w] = wpc[w] /\ todo'[w] = todo[w])
  PROVE  FolderInv'
<1>1. \A p \in Peers : FilesOf(p)' = FilesOf(p)
  BY DEF FilesOf
<1>2. AllFiles' = AllFiles
  BY DEF AllFiles, FilesOf
<1>3. StatusInv'
  BY <1>1 DEF FolderInv, StatusInv
<1>4. AskedInv'
  BY DEF FolderInv, AskedInv
<1>5. UnpackHasAll'
  BY <1>2 DEF FolderInv, UnpackHasAll
<1> QED BY <1>3, <1>4, <1>5 DEF FolderInv

LEMMA FinishedFolderInv ==
  ASSUME WindowInv, FolderInv, NEW w \in Windows, Finish(w),
         UNCHANGED <<stored, owner, mixed, folder>>
  PROVE  FolderInv'
<1>1. \A v \in Windows : wpc'[v] = "idle" \/ (wpc'[v] = wpc[v] /\ todo'[v] = todo[v])
  BY DEF Finish, WindowInv
<1> QED BY <1>1, KeptFolderInv DEF Finish

LEMMA BegunFolderInv ==
  ASSUME WindowInv, FolderInv, NEW w \in Windows, Begin(w)
  PROVE  FolderInv'
<1>1. /\ wpc'[w] = "request" /\ todo'[w] = Peers
      /\ \A v \in Windows \ {w} : wpc'[v] = wpc[v] /\ todo'[v] = todo[v]
      /\ owner' = w
  BY DEF Begin, WindowInv
<1>2. StatusInv'
  BY DEF Begin, StatusInv
<1>3. AskedInv'
  BY <1>1 DEF FolderInv, AskedInv
<1>4. UnpackHasAll'
  BY <1>1 DEF UnpackHasAll
<1> QED BY <1>2, <1>3, <1>4 DEF FolderInv

LEMMA AddedFolderInv ==
  ASSUME WindowInv, FolderInv, NEW w \in Windows, NEW p \in Peers, p \in todo[w],
         wpc[w] = "request", AddPeer(w, p), UNCHANGED <<stored, owner, mixed, folder>>
  PROVE  FolderInv'
<1>1. /\ wpc'[w] = "request" \/ (wpc'[w] = "wait" /\ todo[w] = {p})
      /\ todo'[w] = todo[w] \ {p}
      /\ \A v \in Windows \ {w} : wpc'[v] = wpc[v] /\ todo'[v] = todo[v]
  BY DEF AddPeer, WindowInv
<1>2. /\ DOMAIN status' = DOMAIN status \cup {p}
      /\ \A q \in DOMAIN status' : status'[q] => q \in DOMAIN status /\ status[q]
  BY DEF AddPeer
<1>3. AllFiles' = AllFiles /\ \A q \in Peers : FilesOf(q)' = FilesOf(q)
  BY DEF AllFiles, FilesOf
<1>4. StatusInv'
  BY <1>2, <1>3 DEF FolderInv, StatusInv
<1>5. AskedInv'
  BY <1>1, <1>2 DEF FolderInv, AskedInv
<1>6. UnpackHasAll'
  BY <1>1, <1>3 DEF FolderInv, UnpackHasAll
<1> QED BY <1>4, <1>5, <1>6 DEF FolderInv

\* Every peer is done.
LEMMA PolledFolderInv ==
  ASSUME WindowInv, FolderInv, NEW w \in Windows, Poll(w)
  PROVE  FolderInv'
<1>1. UNCHANGED <<stored, owner, mixed, folder>>
  BY DEF Poll, files, peers, history
<1>2. CASE Finish(w)
  BY <1>1, <1>2, FinishedFolderInv
<1>3. CASE AllPeersCompleted /\ Goto(w, "unpack") /\ UNCHANGED flags
  <2>1. wpc[w] = "wait" /\ UNCHANGED status
    BY <1>3 DEF Poll, flags
  <2>2. /\ wpc'[w] = "unpack" /\ todo' = todo
        /\ \A v \in Windows \ {w} : wpc'[v] = wpc[v]
    BY <1>3 DEF Goto, WindowInv
  <2>3. AllFiles' = AllFiles /\ \A p \in Peers : FilesOf(p)' = FilesOf(p)
    BY <1>1 DEF AllFiles, FilesOf
  <2>4. StatusInv'
    BY <1>1, <2>1, <2>3 DEF FolderInv, StatusInv
  <2>5. AskedInv'
    BY <1>1, <2>1, <2>2 DEF FolderInv, AskedInv
  <2>6. ASSUME owner = w, ~mixed PROVE AllFiles \subseteq folder
    <3>1. Peers \subseteq DOMAIN status
      BY <2>1, <2>6 DEF FolderInv, AskedInv
    <3>2. \A p \in Peers : status[p]
      BY <1>3, <3>1 DEF AllPeersCompleted
    <3>3. \A p \in Peers : FilesOf(p) \subseteq folder
      BY <2>6, <3>1, <3>2 DEF FolderInv, StatusInv
    <3> QED BY <3>3 DEF AllFiles
  <2>7. UnpackHasAll'
    BY <1>1, <2>2, <2>3, <2>6 DEF FolderInv, UnpackHasAll
  <2> QED BY <2>4, <2>5, <2>7 DEF FolderInv
<1> QED BY <1>2, <1>3 DEF Poll

\* The folder is deleted only if that is remembered.
LEMMA UnpackedFolderInv ==
  ASSUME WindowInv, FolderInv, NEW w \in Windows, Unpack(w)
  PROVE  FolderInv'
<1>1. Finish(w) /\ UNCHANGED <<stored, owner>>
  BY DEF Unpack, peers
<1>2. CASE UNCHANGED <<files, stale, mixed>>
  BY <1>1, <1>2, FinishedFolderInv DEF files
<1>3. CASE mixed' = TRUE
  <2>1. StatusInv' /\ UnpackHasAll'
    BY <1>3 DEF StatusInv, UnpackHasAll
  <2>2. AskedInv'
    BY <1>1 DEF Finish, WindowInv, FolderInv, AskedInv
  <2> QED BY <2>1, <2>2 DEF FolderInv
<1> QED BY <1>2, <1>3 DEF Unpack

\* An attempt that is not from before has brought what it has sent.
LEMMA DoneFolderInv ==
  ASSUME NonceInv, SessionInv, FolderInv, NEW k \in Slots, SessionDone(k)
  PROVE  FolderInv'
<1>1. PICK p \in Peers : p = att[k].peer
  BY DEF SessionDone, NonceInv, AttemptOK, At
<1>2. /\ DOMAIN status' = DOMAIN status \cup {p}
      /\ \A q \in DOMAIN status' : status'[q] => q = p \/ (q \in DOMAIN status /\ status[q])
  <2>1. status' = [q \in DOMAIN status \cup {p} |-> q = p \/ status[q]]
    BY <1>1 DEF SessionDone, Complete
  <2>2. DOMAIN status' = DOMAIN status \cup {p}
    BY <2>1
  <2>3. ASSUME NEW q \in DOMAIN status \cup {p} PROVE status'[q] = (q = p \/ status[q])
    BY <2>1, Zenon
  <2> QED BY <2>2, <2>3
<1>3. UNCHANGED <<stored, owner, windows, folder>> /\ mixed' = (mixed \/ k \in stale)
  BY DEF SessionDone, files
<1>4. AllFiles' = AllFiles /\ \A q \in Peers : FilesOf(q)' = FilesOf(q)
  BY <1>3 DEF AllFiles, FilesOf
<1>5. ASSUME ~mixed' PROVE FilesOf(p) \subseteq folder
  <2>1. k \notin stale /\ sent[k] = stored[p]
    BY <1>1, <1>3, <1>5 DEF SessionDone
  <2>2. \A i \in 1..stored[p] : <<p, i>> \in folder
    BY <1>1, <2>1 DEF SessionInv
  <2> QED BY <2>2 DEF FilesOf
<1>6. StatusInv'
  BY <1>2, <1>3, <1>4, <1>5 DEF FolderInv, StatusInv
<1>7. AskedInv'
  BY <1>2, <1>3 DEF FolderInv, AskedInv, windows
<1>8. UnpackHasAll'
  BY <1>3, <1>4 DEF FolderInv, UnpackHasAll, windows
<1> QED BY <1>6, <1>7, <1>8 DEF FolderInv

LEMMA StepFolderInv ==
  ASSUME NonceInv, WindowInv, SessionInv, FolderInv, [Next]_vars
  PROVE  FolderInv'
<1>1. CASE UNCHANGED <<stored, owner, mixed, status, windows>> /\ folder \subseteq folder'
  BY <1>1, KeptFolderInv DEF windows
<1>2. ASSUME NEW w \in Windows, StartRestore(w) \/ StartTogether(w) PROVE FolderInv'
  BY <1>2, BegunFolderInv DEF StartRestore, StartTogether
<1>3. ASSUME NEW w \in Windows, RequestPeer(w) \/ AskFails(w) \/ WindowFails(w)
      PROVE  FolderInv'
  <2>1. UNCHANGED <<stored, owner, mixed, folder>>
    BY <1>3 DEF RequestPeer, AskFails, WindowFails, files, peers, history
  <2>2. CASE Finish(w)
    BY <2>1, <2>2, FinishedFolderInv
  <2>3. ASSUME NEW p \in todo[w], AddPeer(w, p), wpc[w] = "request" PROVE FolderInv'
    <3>1. p \in Peers
      BY <2>3 DEF WindowInv
    <3> QED BY <2>1, <2>3, <3>1, AddedFolderInv
  <2> QED BY <1>3, <2>2, <2>3 DEF RequestPeer, AskFails, WindowFails
<1>4. ASSUME NEW w \in Windows, WindowStep(w) PROVE FolderInv'
  BY <1>3, <1>4, PolledFolderInv, UnpackedFolderInv DEF WindowStep
<1>5. ASSUME NEW k \in Slots, AttemptStep(k) PROVE FolderInv'
  <2>1. CASE ListenForClient(k) \/ FinalizeAttempt(k) \/ Serve(k)
    BY <1>1, <2>1 DEF ListenForClient, FinalizeAttempt, Serve, files, peers, flags, history
  <2>2. CASE SendFile(k) \/ SessionError(k)
    BY <1>1, <2>2 DEF SendFile, SessionError, Failed, files, flags
  <2>3. CASE SessionDone(k)
    BY <2>3, DoneFolderInv
  <2> QED BY <1>5, <2>1, <2>2, <2>3 DEF AttemptStep
<1>6. ASSUME NEW k \in Slots, NEW p \in Peers, BackupConnects(k, p) \/ Matched(k, p)
      PROVE  FolderInv'
  BY <1>1, <1>6 DEF BackupConnects, Matched, files, peers, flags, history
<1>7. ASSUME NEW p \in Peers, HandleMatch(p) \/ ThrottleOver(p) \/ ExpireRequest(p)
      PROVE  FolderInv'
  BY <1>1, <1>7 DEF HandleMatch, ThrottleOver, ExpireRequest, files, peers, flags, history
<1>8. CASE StartBackup \/ SetBackupStarted \/ SizeFails \/ SetBackupFinished
  BY <1>1, <1>8 DEF StartBackup, SetBackupStarted, SizeFails, SetBackupFinished, files, peers,
                    history
<1>9. ASSUME NEW k \in Slots, Lose(k) \/ Break(k) \/ PeerGivesUp(k) PROVE FolderInv'
  BY <1>1, <1>9 DEF Lose, Break, PeerGivesUp, files, peers, flags, history
<1>10. CASE ClientRestart
  <2>1. /\ \A w \in Windows : wpc'[w] = "idle"
        /\ status' = <<>>
    BY <1>10 DEF ClientRestart
  <2> QED BY <2>1 DEF FolderInv, StatusInv, AskedInv, UnpackHasAll
<1>11. CASE UNCHANGED vars
  BY <1>1, <1>11 DEF vars, files, peers, flags, history
<1> QED BY <1>2, <1>3, <1>4, <1>5, <1>6, <1>7, <1>8, <1>9, <1>10, <1>11 DEF Next, Faults

\* A window that gets to unpacking has everything its peers have stored, whatever the
\* sessions and windows before it have done, for any number of peers, files and faults.
THEOREM UnpackedIsWhole == Spec => []UnpackHasAll
<1>1. Init => SessionInv /\ FolderInv
  BY InitSessionInv, InitFolderInv
<1>2. NonceInv /\ WindowInv /\ SessionInv /\ FolderInv /\ [Next]_vars =>
        SessionInv' /\ FolderInv'
  BY StepSessionInv, StepFolderInv
<1>3. FolderInv => UnpackHasAll
  BY DEF FolderInv
<1> QED BY <1>1, <1>2, <1>3, NonceInvariant, PTL DEF Spec

-----------------------------------------------------------------------------
(* The values of all variables.                                             *)

\* An attempt has a nonce from when its connection is made.
ShapeInv ==
  \A k \in Slots :
    /\ At(k, "unused") <=> att[k] = Unused
    /\ att[k].nonce = None <=> At(k, "unused") \/ At(k, "incoming") \/ At(k, "connecting")

LEMMA EffectShape ==
  ASSUME NonceInv, ShapeInv, Effect
  PROVE  ShapeInv'
<1> USE DEF ShapeInv, At
<1>0. /\ att \in [Slots -> Attempt] /\ requests \in [Peers -> RequestRecord]
      /\ \A p \in Peers : RequestOK(p)
      /\ \A k \in Slots : AttemptOK(k)
  BY DEF NonceInv
<1>1. CASE UNCHANGED <<requests, att>>
  BY <1>1
<1>2. ASSUME NEW k \in Slots, NEW p \in Peers, NEW purpose \in Purposes, Asked(k, p, purpose)
      PROVE  ShapeInv'
  <2> DEFINE new == [Unused EXCEPT !.peer = p, !.purpose = purpose, !.step = "incoming"]
  <2>1. new.step = "incoming" /\ new.nonce = None /\ new # Unused
    BY DEF Unused
  <2>2. att' = att \/ att' = [att EXCEPT ![k] = new]
    BY <1>2 DEF Asked
  <2> HIDE DEF new
  <2> QED BY <1>0, <2>1, <2>2
<1>3. ASSUME NEW k \in Slots, Moved(k) PROVE ShapeInv'
  <2>1. CASE End(k)
    BY <1>0, <2>1 DEF End, Unused
  <2>2. CASE \E s \in {"connecting", "dropped", "serving", "hung"} : Become(k, s)
    <3>1. PICK s \in {"connecting", "dropped", "serving", "hung"} : Become(k, s)
      BY <2>2
    <3>2. /\ \A j \in Slots \ {k} : att'[j] = att[j]
          /\ att'[k].step = s /\ att'[k].nonce = att[k].nonce /\ att'[k] # Unused
      BY <1>0, <3>1 DEF Become, Attempt, Unused
    <3>3. att[k].nonce = None <=> s = "connecting"
      <4>1. CASE End(k)
        BY <1>0, <3>2, <4>1 DEF End
      <4>2. CASE Become(k, "connecting") /\ At(k, "incoming")
        BY <1>0, <3>2, <4>2 DEF Become, Attempt
      <4>3. ASSUME NEW z \in {"dropped", "serving", "hung"}, Become(k, z),
                   ~At(k, "incoming") /\ ~At(k, "connecting") /\ ~At(k, "unused")
            PROVE  att[k].nonce = None <=> s = "connecting"
        <5>1. s = z
          BY <1>0, <3>2, <4>3 DEF Become, Attempt
        <5> QED BY <4>3, <5>1
      <4> QED BY <1>3, <4>1, <4>2, <4>3 DEF Moved
    <3> QED BY <3>2, <3>3
  <2> QED BY <1>3, <2>1, <2>2 DEF Moved
<1>4. ASSUME NEW k \in Slots, Taken(k) PROVE ShapeInv'
  <2> DEFINE new == [att[k] EXCEPT !.step = "receiving", !.nonce = requests[att[k].peer].nonce,
                                   !.used = requests[att[k].peer].purpose]
  <2>1. att[k].peer \in Peers
    BY <1>0, <1>4 DEF Taken, Finalize, AttemptOK
  <2>2. new.step = "receiving" /\ new.nonce = requests[att[k].peer].nonce /\ new # Unused
    BY <1>0 DEF Attempt, Unused
  <2>3. \/ End(k)
        \/ att' = [att EXCEPT ![k] = new] /\ requests[att[k].peer] # NoRequest
    BY <1>4 DEF Taken, Finalize
  <2> HIDE DEF new
  <2>4. requests[att[k].peer] # NoRequest => requests[att[k].peer].nonce # None
    BY <1>0, <2>1 DEF RequestOK
  <2>5. CASE End(k)
    BY <1>0, <2>5 DEF End, Unused
  <2> QED BY <1>0, <2>2, <2>3, <2>4, <2>5
<1>5. CASE Forgotten
  BY <1>5 DEF Forgotten, Unused
<1> QED BY <1>1, <1>2, <1>3, <1>4, <1>5 DEF Effect

\* An attempt from before the folder was deleted is one that restores.
StaleInv == stale \subseteq {k \in Slots : att[k].used = "restore"}

\* One attempt changes: it is forgotten, restores nothing, or takes a step.
LEMMA KeptStale ==
  ASSUME NonceInv, StaleInv, NEW k \in Slots,
         \A j \in Slots \ {k} : att'[j] = att[j], stale' \subseteq stale,
         \/ k \notin stale' \/ att[k].used # "restore"
         \/ \E s : Become(k, s)
  PROVE  StaleInv'
<1>1. CASE k \notin stale' \/ att[k].used # "restore"
  BY <1>1 DEF StaleInv
<1>2. CASE \E s : Become(k, s)
  <2>1. att'[k].used = att[k].used
    BY <1>2 DEF Become, NonceInv, Attempt
  <2> QED BY <2>1 DEF StaleInv
<1> QED BY <1>1, <1>2

LEMMA AskedStale ==
  ASSUME NonceInv, StaleInv, NEW k \in Slots, NEW p \in Peers, NEW purpose \in Purposes,
         Ask(k, p, purpose) \/ AskInVain(k, p, purpose), stale' = stale
  PROVE  StaleInv'
<1>1. att[k].used # "restore"
  BY DEF Ask, AskInVain, AddRequest, Vacant, Free, Unused
<1>2. \A j \in Slots \ {k} : att'[j] = att[j]
  BY DEF Ask, AskInVain, NonceInv
<1> QED BY <1>1, <1>2, KeptStale

LEMMA StepStaleInv ==
  ASSUME NonceInv, WindowInv, StaleInv, [Next]_vars
  PROVE  StaleInv'
<1>1. CASE UNCHANGED <<att, stale>>
  BY <1>1 DEF StaleInv
<1>2. ASSUME NEW w \in Windows, StartRestore(w) \/ StartTogether(w) PROVE StaleInv'
  BY <1>1, <1>2 DEF StartRestore, StartTogether, Begin, rendezvous
<1>3. ASSUME NEW w \in Windows, WindowStep(w) \/ AskFails(w) \/ WindowFails(w) PROVE StaleInv'
  <2>1. CASE Poll(w) \/ WindowFails(w)
    BY <1>1, <2>1 DEF Poll, WindowFails, rendezvous, history
  <2>2. CASE RequestPeer(w) \/ AskFails(w)
    <3>1. todo[w] \subseteq Peers
      BY DEF WindowInv
    <3> QED BY <2>2, <3>1, AskedStale DEF RequestPeer, AskFails, Purposes, history
  <2>3. CASE Unpack(w)
    BY <2>3 DEF Unpack, rendezvous, StaleInv
  <2> QED BY <1>3, <2>1, <2>2, <2>3 DEF WindowStep
<1>4. ASSUME NEW k \in Slots, AttemptStep(k) PROVE StaleInv'
  <2>1. CASE ListenForClient(k) \/ FinalizeAttempt(k)
    <3>1. att[k].used = "none" /\ stale' = stale
      BY <2>1 DEF ListenForClient, Listen, FinalizeAttempt, Finalize, NonceInv, AttemptOK, history
    <3>2. \A j \in Slots \ {k} : att'[j] = att[j]
      BY <2>1 DEF ListenForClient, Listen, FinalizeAttempt, Finalize, End, Become, NonceInv
    <3> QED BY <3>1, <3>2, KeptStale
  <2>2. CASE Serve(k)
    <3>1. stale' = stale /\ (att[k].used # "restore" \/ \E s : Become(k, s))
      BY <2>2 DEF Serve, ReceiveRequest, Dispatch, history
    <3>2. \A j \in Slots \ {k} : att'[j] = att[j]
      BY <2>2 DEF Serve, ReceiveRequest, Dispatch, End, Become, NonceInv
    <3> QED BY <3>1, <3>2, KeptStale
  <2>3. CASE SendFile(k) \/ SessionDone(k) \/ SessionError(k)
    <3>1. CASE End(k) /\ Forget(k)
      <4>1. \A j \in Slots \ {k} : att'[j] = att[j]
        BY <3>1 DEF End, NonceInv
      <4> QED BY <3>1, <4>1, KeptStale DEF Forget
    <3> QED BY <1>1, <2>3, <3>1 DEF SendFile, SessionDone, SessionError, Failed, rendezvous
  <2> QED BY <1>4, <2>1, <2>2, <2>3 DEF AttemptStep
<1>5. ASSUME NEW k \in Slots, NEW p \in Peers, BackupConnects(k, p) \/ Matched(k, p)
      PROVE  StaleInv'
  BY <1>5, AskedStale DEF BackupConnects, Matched, Match, Purposes, history
<1>6. ASSUME NEW p \in Peers, HandleMatch(p) \/ ThrottleOver(p) \/ ExpireRequest(p)
      PROVE  StaleInv'
  BY <1>1, <1>6 DEF HandleMatch, PeerMatched, ThrottleOver, ExpireRequest, Expire, rendezvous,
                    history
<1>7. CASE StartBackup \/ SetBackupStarted \/ SizeFails \/ SetBackupFinished
  BY <1>1, <1>7 DEF StartBackup, SetBackupStarted, SizeFails, SetBackupFinished, rendezvous,
                    history
<1>8. ASSUME NEW k \in Slots, Lose(k) \/ Break(k) \/ PeerGivesUp(k) PROVE StaleInv'
  <2>1. \A j \in Slots \ {k} : att'[j] = att[j]
    BY <1>8 DEF Lose, LoseAttempt, Break, PeerGivesUp, End, Become, NonceInv
  <2>2. att[k].used # "restore" \/ \E s : Become(k, s)
    BY <1>8 DEF Lose, LoseAttempt, Break, PeerGivesUp, NonceInv, AttemptOK
  <2> QED BY <1>8, <2>1, <2>2, KeptStale DEF Lose, Break, PeerGivesUp, history
<1>9. CASE ClientRestart
  BY <1>9 DEF ClientRestart, StaleInv
<1>10. CASE UNCHANGED vars
  BY <1>1, <1>10 DEF vars, rendezvous, history
<1> QED BY <1>2, <1>3, <1>4, <1>5, <1>6, <1>7, <1>8, <1>9, <1>10 DEF Next, Faults

\* A file is one its peer has stored; a peer that is done, or throttled, is a peer.
ValuesInv ==
  /\ known \subseteq Peers /\ announced \subseteq Peers /\ begun \in BOOLEAN
  /\ running \in BOOLEAN /\ backingUp \in BOOLEAN /\ mixed \in BOOLEAN
  /\ DOMAIN status \subseteq Peers /\ \A p \in DOMAIN status : status[p] \in BOOLEAN
  /\ backup \in {"idle", "looked", "running", "connected"}
  /\ owner \in Windows \cup {None}
  /\ folder \subseteq AllFiles /\ indexDir \in BOOLEAN /\ throttled \subseteq Peers

LEMMA InitValuesInv == Init => ValuesInv /\ ShapeInv /\ StaleInv
<1> SUFFICES ASSUME Init PROVE ValuesInv /\ ShapeInv /\ StaleInv
  OBVIOUS
<1>1. known \subseteq Peers /\ begun \in BOOLEAN
  BY WorldsAssumption DEF Init
<1>2. ShapeInv
  BY DEF Init, ShapeInv, At, Unused, None
<1>3. DOMAIN status \subseteq Peers /\ \A p \in DOMAIN status : status[p] \in BOOLEAN
  <2>1. DOMAIN status = {}
    BY DEF Init
  <2> QED BY <2>1
<1> QED BY <1>1, <1>2, <1>3 DEF Init, ValuesInv, StaleInv

\* One of the flags, or nothing of all this, changes.
LEMMA SameValues ==
  ASSUME ValuesInv,
         UNCHANGED <<known, announced, begun, mixed, owner, folder, indexDir, throttled, stored>>,
         status' = status \/ status' = <<>>
           \/ \E p \in Peers : status' = [q \in DOMAIN status \cup {p} |-> q # p /\ status[q]],
         running' \in BOOLEAN, backingUp' \in BOOLEAN,
         backup' \in {"idle", "looked", "running", "connected"}
  PROVE  ValuesInv'
<1>1. DOMAIN status' \subseteq Peers /\ \A p \in DOMAIN status' : status'[p] \in BOOLEAN
  <2>1. CASE status' = status \/ status' = <<>>
    BY <2>1 DEF ValuesInv
  <2>2. ASSUME NEW p \in Peers, status' = [q \in DOMAIN status \cup {p} |-> q # p /\ status[q]]
        PROVE  DOMAIN status' \subseteq Peers /\ \A q \in DOMAIN status' : status'[q] \in BOOLEAN
    BY <2>2 DEF ValuesInv
  <2> QED BY <2>1, <2>2
<1> QED BY <1>1 DEF ValuesInv, AllFiles, FilesOf

\* A peer's file arrives, or the peer is done.
LEMMA SessionValues ==
  ASSUME NonceInv, SessionInv, ValuesInv, NEW k \in Slots,
         SendFile(k) \/ SessionDone(k) \/ SessionError(k)
  PROVE  ValuesInv'
<1>1. PICK p \in Peers : p = att[k].peer
  BY DEF SendFile, SessionDone, SessionError, NonceInv, AttemptOK, At
<1>2. AllFiles' = AllFiles
  BY DEF SendFile, SessionDone, SessionError, Failed, AllFiles, FilesOf
<1>3. CASE Failed(k) /\ UNCHANGED <<folder, indexDir, mixed, owner>>
  BY <1>3, SameValues DEF Failed, ValuesInv
<1>4. CASE SendFile(k) /\ folder' = folder \cup {<<p, sent[k] + 1>>} /\ UNCHANGED flags
  <2>1. sent[k] + 1 \in 1..stored[p]
    BY <1>1, <1>4 DEF SendFile, SessionInv
  <2>2. folder' \subseteq AllFiles
    BY <1>4, <2>1 DEF AllFiles, FilesOf, ValuesInv
  <2>3. UNCHANGED <<known, announced, begun, mixed, owner, indexDir, throttled, status, running,
                    backingUp, backup>>
    BY <1>4 DEF SendFile, Failed, flags, rendezvous
  <2> QED BY <1>2, <2>2, <2>3 DEF ValuesInv
<1>5. CASE SessionDone(k)
  <2>1. status' = [q \in DOMAIN status \cup {p} |-> q = p \/ status[q]]
    BY <1>1, <1>5 DEF SessionDone, Complete
  <2>2. DOMAIN status' \subseteq Peers /\ \A q \in DOMAIN status' : status'[q] \in BOOLEAN
    BY <2>1 DEF ValuesInv
  <2>3. UNCHANGED <<known, announced, begun, owner, folder, indexDir, throttled, running,
                    backingUp, backup>> /\ mixed' \in BOOLEAN
    BY <1>5 DEF SessionDone, files
  <2> QED BY <1>2, <2>2, <2>3 DEF ValuesInv
<1>6. CASE SendFile(k)
  <2>1. \/ Failed(k) /\ UNCHANGED folder
        \/ folder' = folder \cup {<<p, sent[k] + 1>>} /\ UNCHANGED flags
    BY <1>1, <1>6 DEF SendFile
  <2> QED BY <1>3, <1>4, <1>6, <2>1 DEF SendFile
<1>7. CASE SessionError(k)
  BY <1>3, <1>7 DEF SessionError, files
<1> QED BY <1>5, <1>6, <1>7

LEMMA StepValuesInv ==
  ASSUME NonceInv, WindowInv, SessionInv, ValuesInv, [Next]_vars
  PROVE  ValuesInv'
<1>0. /\ running \in BOOLEAN /\ backingUp \in BOOLEAN
      /\ backup \in {"idle", "looked", "running", "connected"}
  BY DEF ValuesInv
<1>1. CASE UNCHANGED <<known, announced, begun, flags, stored, folder, indexDir, throttled, mixed,
                       owner>>
  BY <1>0, <1>1, SameValues DEF flags
<1>2. ASSUME NEW w \in Windows, StartRestore(w) \/ StartTogether(w) PROVE ValuesInv'
  <2>1. Begin(w)
    BY <1>2 DEF StartRestore, StartTogether
  <2>2. /\ UNCHANGED <<known, announced, begun, folder, indexDir, throttled, stored, backup,
                       backingUp>>
        /\ status' = <<>> /\ running' = TRUE /\ owner' = w /\ mixed' = FALSE
    BY <2>1 DEF Begin, rendezvous, files, peers
  <2>3. DOMAIN status' = {}
    BY <2>2
  <2> QED BY <2>2, <2>3 DEF ValuesInv, AllFiles, FilesOf
<1>3. ASSUME NEW w \in Windows, WindowStep(w) \/ AskFails(w) \/ WindowFails(w) PROVE ValuesInv'
  <2>1. CASE Poll(w) \/ WindowFails(w)
    BY <1>0, <2>1, SameValues DEF Poll, WindowFails, Finish, rendezvous, files, peers, flags,
       history
  <2>2. CASE RequestPeer(w) \/ AskFails(w)
    <3>1. todo[w] \subseteq Peers
      BY DEF WindowInv
    <3>2. /\ UNCHANGED <<known, announced, begun, stored, folder, indexDir, throttled, mixed,
                         owner, backup, backingUp>>
          /\ running' = running \/ running' = FALSE
          /\ status' = status \/ \E p \in Peers :
               status' = [q \in DOMAIN status \cup {p} |-> q # p /\ status[q]]
      BY <2>2, <3>1 DEF RequestPeer, AskFails, AddPeer, Finish, files, peers, history
    <3> QED BY <1>0, <3>2, SameValues
  <2>3. CASE Unpack(w)
    <3>1. /\ UNCHANGED <<known, announced, begun, status, stored, throttled, owner, backup,
                         backingUp>>
          /\ running' = FALSE
          /\ \/ UNCHANGED <<folder, indexDir, mixed>>
             \/ folder' = {} /\ indexDir' = FALSE /\ mixed' = TRUE
      BY <2>3 DEF Unpack, Finish, rendezvous, peers, files
    <3> QED BY <3>1 DEF ValuesInv, AllFiles, FilesOf
  <2> QED BY <1>3, <2>1, <2>2, <2>3 DEF WindowStep
<1>4. ASSUME NEW k \in Slots, AttemptStep(k) PROVE ValuesInv'
  <2>1. CASE ListenForClient(k)
    BY <1>1, <2>1 DEF ListenForClient, Listen, files, peers, history
  <2>2. CASE FinalizeAttempt(k)
    <3>1. /\ UNCHANGED <<known, announced, begun, flags, stored, folder, throttled, mixed, owner>>
          /\ indexDir' = (indexDir \/ requests[att[k].peer].purpose = "restore")
      BY <2>2 DEF FinalizeAttempt, Finalize, peers, history
    <3>2. indexDir' \in BOOLEAN
      BY <3>1
    <3> QED BY <3>1, <3>2 DEF ValuesInv, flags, AllFiles, FilesOf
  <2>3. CASE Serve(k)
    <3>1. UNCHANGED <<known, announced, begun, flags, stored, folder, indexDir, mixed, owner>>
      BY <2>3 DEF Serve, ReceiveRequest, files, history
    <3>2. att[k].peer \in Peers
      BY <2>3 DEF Serve, ReceiveRequest, At, NonceInv, AttemptOK
    <3>3. throttled' \in {throttled, throttled \cup {att[k].peer}}
      BY <2>3 DEF Serve
    <3> QED BY <3>1, <3>2, <3>3 DEF ValuesInv, flags, AllFiles, FilesOf
  <2>4. CASE SendFile(k) \/ SessionDone(k) \/ SessionError(k)
    BY <2>4, SessionValues
  <2> QED BY <1>4, <2>1, <2>2, <2>3, <2>4 DEF AttemptStep
<1>5. ASSUME NEW k \in Slots, NEW p \in Peers, BackupConnects(k, p) \/ Matched(k, p)
      PROVE  ValuesInv'
  <2>1. CASE BackupConnects(k, p)
    BY <1>0, <2>1, SameValues DEF BackupConnects, files, peers, history
  <2>2. CASE Matched(k, p)
    <3>1. /\ UNCHANGED <<known, begun, flags, stored, folder, indexDir, throttled, mixed, owner>>
          /\ announced' = announced \cup {p}
      BY <2>2 DEF Matched, Match, files, peers, history
    <3> QED BY <3>1 DEF ValuesInv, flags, AllFiles, FilesOf
  <2> QED BY <1>5, <2>1, <2>2
<1>6. ASSUME NEW p \in Peers, HandleMatch(p) \/ ThrottleOver(p) \/ ExpireRequest(p)
      PROVE  ValuesInv'
  <2>1. /\ UNCHANGED <<begun, flags, stored, folder, indexDir, mixed, owner>>
        /\ announced' \subseteq announced /\ throttled' \subseteq throttled
        /\ known' \in {known, known \cup {p}}
    BY <1>6 DEF HandleMatch, PeerMatched, ThrottleOver, ExpireRequest, Expire, rendezvous, files,
       peers, history
  <2> QED BY <2>1 DEF ValuesInv, flags, AllFiles, FilesOf
<1>7. CASE StartBackup \/ SetBackupStarted \/ SizeFails \/ SetBackupFinished
  <2>1. /\ UNCHANGED <<known, announced, running, status, stored, folder, indexDir, throttled,
                       mixed, owner>>
        /\ begun' = begun \/ begun' = TRUE
        /\ backingUp' = backingUp \/ backingUp' = TRUE \/ backingUp' = FALSE
        /\ backup' \in {"idle", "looked", "running", "connected"}
    BY <1>0, <1>7 DEF StartBackup, SetBackupStarted, SizeFails, SetBackupFinished, rendezvous,
       files, peers, history
  <2> QED BY <2>1 DEF ValuesInv, AllFiles, FilesOf
<1>8. ASSUME NEW k \in Slots, Lose(k) \/ Break(k) \/ PeerGivesUp(k) PROVE ValuesInv'
  BY <1>1, <1>8 DEF Lose, LoseAttempt, Break, PeerGivesUp, files, peers, history
<1>9. CASE ClientRestart
  <2>1. /\ UNCHANGED <<known, announced, stored, folder, indexDir, throttled, mixed, owner>>
        /\ begun' = FALSE /\ running' = FALSE /\ backingUp' = FALSE /\ backup' = "idle"
        /\ status' = <<>>
    BY <1>9 DEF ClientRestart, LoseClient, files
  <2>2. DOMAIN status' = {}
    BY <2>1
  <2> QED BY <2>1, <2>2 DEF ValuesInv, AllFiles, FilesOf
<1>10. CASE UNCHANGED vars
  BY <1>1, <1>10 DEF vars, rendezvous, files, peers, history
<1> QED BY <1>2, <1>3, <1>4, <1>5, <1>6, <1>7, <1>8, <1>9, <1>10 DEF Next, Faults

\* Every variable keeps to its values, in particular the folder holds nothing but what a
\* peer has stored, and only an attempt that is served has sent anything.
THEOREM RestoreTypes == Spec => []TypeOK
<1> DEFINE All == SessionInv /\ ShapeInv /\ StaleInv /\ ValuesInv
<1>1. Init => All
  BY InitSessionInv, InitValuesInv
<1>2. NonceInv /\ WindowInv /\ All /\ [Next]_vars => All'
  <2> SUFFICES ASSUME NonceInv, WindowInv, All, [Next]_vars PROVE All'
    OBVIOUS
  <2>1. SessionInv' /\ ValuesInv' /\ StaleInv'
    BY StepSessionInv, StepValuesInv, StepStaleInv
  <2>2. ShapeInv'
    BY StepEffect, EffectShape
  <2> QED BY <2>1, <2>2
<1>3. NonceInv /\ WindowInv /\ All => TypeOK
  <2> SUFFICES ASSUME NonceInv, WindowInv, All PROVE TypeOK
    OBVIOUS
  <2>1. RendezvousOK
    BY DEF RendezvousOK, NonceInv, RequestRecord, Attempt, Steps, ShapeInv, ValuesInv
  <2>2. \A k \in Slots : sent[k] > 0 => At(k, "serving") \/ At(k, "hung") \/ At(k, "dropped")
    BY DEF SessionInv, Served, At
  <2> QED BY <2>1, <2>2 DEF TypeOK, ValuesInv, StaleInv, SessionInv, WindowInv
<1> QED BY <1>1, <1>2, <1>3, NonceInvariant, PTL DEF Spec

-----------------------------------------------------------------------------
(* Somebody is still at it.                                                 *)

\* As long as nothing interferes all is about restoring, and peers only hang if they
\* have nothing.
QuietInv ==
  /\ backup = "idle" /\ announced = {}
  /\ \A p \in Peers : requests[p].purpose # "transport"
  /\ \A k \in Slots : att[k].used # "transport"
  /\ \A k \in Slots : At(k, "hung") => stored[att[k].peer] = 0

\* Peer p is about to answer, and finds a request when it does; or it has found one.
Underway(p) ==
  \E k \in Slots :
    /\ att[k].peer = p
    /\ \/ att[k].step \in {"incoming", "connecting"} /\ requests[p] # NoRequest
       \/ att[k].step \in {"receiving", "serving", "dropped"}

\* A peer that the restore waits for, and will not ignore it.
Awaited(p) == p \in known \cap DOMAIN status /\ running /\ ~status[p] /\ stored[p] > 0

UnderwayInv == \A p \in Peers : Awaited(p) => Underway(p)

ForsakenInv == disturbances \in Nat /\ (disturbances = 0 => QuietInv /\ UnderwayInv)

LEMMA InitForsakenInv == Init => ForsakenInv
<1> SUFFICES ASSUME Init PROVE ForsakenInv
  OBVIOUS
<1>1. DOMAIN status = {}
  BY DEF Init
<1> QED BY <1>1 DEF Init, ForsakenInv, QuietInv, UnderwayInv, Awaited, At, NoRequest, Unused

\* Something that need not happen breaks the premise.
LEMMA DisturbanceForsaken ==
  ASSUME ForsakenInv, Disturbance
  PROVE  ForsakenInv'
BY DEF ForsakenInv, Disturbance

\* Neither a request nor an attempt changes, and nothing more is waited for.
LEMMA SameForsaken ==
  ASSUME ForsakenInv,
         UNCHANGED <<requests, att, known, announced, stored, backup, disturbances>>,
         \A p \in Peers : Awaited(p)' => Awaited(p)
  PROVE  ForsakenInv'
<1>1. QuietInv => QuietInv'
  BY DEF QuietInv, At
<1>2. \A p \in Peers : Underway(p)' = Underway(p)
  BY DEF Underway
<1> QED BY <1>1, <1>2 DEF ForsakenInv, UnderwayInv

\* Peer p is asked to restore.
LEMMA AskedForsaken ==
  ASSUME NonceInv, ForsakenInv, NEW k \in Slots, NEW p \in Peers, Ask(k, p, "restore"),
         UNCHANGED <<known, announced, stored, backup, disturbances>>,
         \A q \in Peers \ {p} : Awaited(q)' => Awaited(q)
  PROVE  ForsakenInv'
<1> DEFINE new == [Unused EXCEPT !.peer = p, !.purpose = "restore", !.step = "incoming"]
<1>0. /\ att \in [Slots -> Attempt] /\ requests \in [Peers -> RequestRecord]
      /\ k # None /\ att[k] = Unused
  BY SlotsAssumption DEF NonceInv, Ask, AddRequest, Vacant, Free
<1>1. new.peer = p /\ new.step = "incoming" /\ new.used = "none"
  BY DEF Unused
<1>2. att' = [att EXCEPT ![k] = new]
  BY DEF Ask
<1> HIDE DEF new
<1>3. /\ att'[k] = new /\ \A j \in Slots \ {k} : att'[j] = att[j]
      /\ requests'[p] = [nonce |-> k, purpose |-> "restore"]
      /\ \A q \in Peers \ {p} : requests'[q] = requests[q]
  BY <1>0, <1>2 DEF Ask, AddRequest
<1>4. requests'[p].purpose = "restore" /\ requests'[p] # NoRequest
  BY <1>0, <1>3 DEF NoRequest
<1>5. QuietInv => QuietInv'
  BY <1>1, <1>3, <1>4 DEF QuietInv, At
<1>6. Underway(p)'
  BY <1>1, <1>3, <1>4 DEF Underway
<1>7. ASSUME NEW q \in Peers \ {p}, Underway(q) PROVE Underway(q)'
  <2>1. PICK j \in Slots : /\ att[j].peer = q
                           /\ \/ att[j].step \in {"incoming", "connecting"} /\ requests[q] # NoRequest
                              \/ att[j].step \in {"receiving", "serving", "dropped"}
    BY <1>7 DEF Underway
  <2>2. j # k
    BY <1>0, <2>1 DEF Unused
  <2>3. att'[j] = att[j] /\ requests'[q] = requests[q]
    BY <1>3, <2>2
  <2> QED BY <2>1, <2>3 DEF Underway
<1> QED BY <1>5, <1>6, <1>7 DEF ForsakenInv, UnderwayInv

\* One attempt goes on; who was under way before still is, unless nobody waits.
LEMMA MovedForsaken ==
  ASSUME ForsakenInv, NEW k \in Slots, NEW p, p = att[k].peer,
         UNCHANGED <<announced, stored, backup, disturbances>>,
         \A j \in Slots \ {k} : att'[j] = att[j],
         disturbances = 0 => att'[k].used # "transport",
         disturbances = 0 /\ At(k, "hung")' => stored[att'[k].peer] = 0,
         \A q \in Peers : requests'[q] \in {requests[q], NoRequest},
         \A q \in Peers : q # p => requests'[q] = requests[q],
         \A q \in Peers : Awaited(q)' => Awaited(q),
         disturbances = 0 /\ Awaited(p)' /\ Underway(p) => Underway(p)'
  PROVE  ForsakenInv'
<1> SUFFICES ASSUME disturbances = 0 PROVE QuietInv' /\ UnderwayInv'
  BY DEF ForsakenInv
<1>0. QuietInv /\ UnderwayInv
  BY DEF ForsakenInv
<1>1. QuietInv'
  BY <1>0 DEF QuietInv, NoRequest, At
<1>2. ASSUME NEW q \in Peers, q # p, Underway(q) PROVE Underway(q)'
  <2>1. PICK j \in Slots : /\ att[j].peer = q
                           /\ \/ att[j].step \in {"incoming", "connecting"} /\ requests[q] # NoRequest
                              \/ att[j].step \in {"receiving", "serving", "dropped"}
    BY <1>2 DEF Underway
  <2>2. att'[j] = att[j] /\ requests'[q] = requests[q]
    BY <1>2, <2>1
  <2> QED BY <2>1, <2>2 DEF Underway
<1>3. UnderwayInv'
  BY <1>0, <1>2 DEF UnderwayInv
<1> QED BY <1>1, <1>3

\* The peer answers, or ignores the client.
LEMMA ListenForsaken ==
  ASSUME NonceInv, ForsakenInv, NEW k \in Slots, ListenForClient(k)
  PROVE  ForsakenInv'
<1> PICK p : p = att[k].peer
  OBVIOUS
<1>0. att \in [Slots -> Attempt] /\ At(k, "incoming") /\ att[k].used = "none"
  BY DEF NonceInv, AttemptOK, ListenForClient, Listen
<1>1. /\ UNCHANGED <<requests, known, announced, stored, backup, disturbances>>
      /\ \A q \in Peers : Awaited(q)' => Awaited(q)
  BY DEF ListenForClient, Listen, peers, flags, counters, Awaited
<1>2. /\ \A j \in Slots \ {k} : att'[j] = att[j]
      /\ \/ att'[k] = Unused /\ p \notin known
         \/ att'[k].step = "connecting" /\ att'[k].peer = p /\ att'[k].used = "none"
  BY <1>0 DEF ListenForClient, Listen, End, Become, Attempt
<1>3. att'[k].used # "transport" /\ ~At(k, "hung")'
  BY <1>2 DEF Unused, At
<1>4. ASSUME Awaited(p)', Underway(p) PROVE Underway(p)'
  <2>1. att'[k].step = "connecting" /\ att'[k].peer = p
    BY <1>1, <1>2, <1>4 DEF Awaited
  <2>2. PICK j \in Slots : /\ att[j].peer = p
                           /\ \/ att[j].step \in {"incoming", "connecting"} /\ requests[p] # NoRequest
                              \/ att[j].step \in {"receiving", "serving", "dropped"}
    BY <1>4 DEF Underway
  <2>3. CASE j = k
    BY <1>0, <1>1, <2>1, <2>2, <2>3 DEF Underway, At
  <2>4. CASE j # k
    BY <1>1, <1>2, <2>2, <2>4 DEF Underway
  <2> QED BY <2>3, <2>4
<1> QED BY <1>1, <1>2, <1>3, <1>4, MovedForsaken

\* The connection is made and finds a request, or finds that another one has taken it.
LEMMA FinalizeForsaken ==
  ASSUME NonceInv, ForsakenInv, NEW k \in Slots, FinalizeAttempt(k)
  PROVE  ForsakenInv'
<1>0. /\ att \in [Slots -> Attempt] /\ At(k, "connecting") /\ att[k].peer \in Peers
      /\ requests \in [Peers -> RequestRecord]
  BY DEF NonceInv, AttemptOK, FinalizeAttempt, Finalize, At
<1> PICK p : p = att[k].peer
  OBVIOUS
<1> DEFINE new == [att[k] EXCEPT !.step = "receiving", !.nonce = requests[p].nonce,
                                 !.used = requests[p].purpose]
<1>1. /\ UNCHANGED <<known, announced, stored, backup, disturbances>>
      /\ \A q \in Peers : Awaited(q)' => Awaited(q)
  BY DEF FinalizeAttempt, Finalize, peers, flags, counters, Awaited
<1>2. new.step = "receiving" /\ new.peer = p /\ new.used = requests[p].purpose
  BY <1>0 DEF Attempt
<1>3. /\ requests' = [requests EXCEPT ![p] = NoRequest]
      /\ \/ requests[p] = NoRequest /\ att' = [att EXCEPT ![k] = Unused]
         \/ att' = [att EXCEPT ![k] = new]
  BY DEF FinalizeAttempt, Finalize, End
<1> HIDE DEF new
<1>4. /\ \A j \in Slots \ {k} : att'[j] = att[j]
      /\ \/ requests[p] = NoRequest /\ att'[k] = Unused
         \/ att'[k] = new
      /\ \A q \in Peers : requests'[q] \in {requests[q], NoRequest}
      /\ \A q \in Peers : q # p => requests'[q] = requests[q]
  BY <1>0, <1>3
<1>5. /\ disturbances = 0 => att'[k].used # "transport"
      /\ ~At(k, "hung")'
  BY <1>0, <1>2, <1>4 DEF ForsakenInv, QuietInv, Unused, At
<1>6. ASSUME Underway(p) PROVE Underway(p)'
  <2>1. CASE att'[k] = new
    BY <1>2, <2>1 DEF Underway
  <2>2. CASE requests[p] = NoRequest /\ att'[k] = Unused
    <3>1. PICK j \in Slots : att[j].peer = p /\ att[j].step \in {"receiving", "serving", "dropped"}
      BY <1>6, <2>2 DEF Underway
    <3>2. j # k
      BY <1>0, <3>1 DEF At
    <3> QED BY <1>4, <3>1, <3>2 DEF Underway
  <2> QED BY <1>4, <2>1, <2>2
<1> QED BY <1>1, <1>4, <1>5, <1>6, MovedForsaken

\* The peer hands out what it has, or drops the connection; it hangs if it has nothing.
LEMMA ServeForsaken ==
  ASSUME NonceInv, ForsakenInv, NEW k \in Slots, Serve(k)
  PROVE  ForsakenInv'
<1>0. att \in [Slots -> Attempt] /\ At(k, "receiving") /\ att[k].peer \in Peers
  BY DEF NonceInv, AttemptOK, Serve, ReceiveRequest, At
<1> PICK p : p = att[k].peer
  OBVIOUS
<1>1. /\ UNCHANGED <<requests, known, announced, stored, backup, disturbances>>
      /\ \A q \in Peers : Awaited(q)' => Awaited(q)
  BY DEF Serve, ReceiveRequest, flags, counters, Awaited
<1>2. \A j \in Slots \ {k} : att'[j] = att[j]
  BY <1>0 DEF Serve, ReceiveRequest, Dispatch, End, Become
<1>3. ASSUME disturbances = 0
      PROVE  /\ att'[k].peer = p /\ att'[k].used # "transport"
             /\ \/ att'[k].step \in {"serving", "dropped"}
                \/ att'[k].step = "hung" /\ stored[p] = 0
  <2>1. att[k].used # "transport"
    BY <1>3 DEF ForsakenInv, QuietInv
  <2>2. PICK s \in {"serving", "dropped", "hung"} :
          Become(k, s) /\ (s = "hung" => stored[p] = 0)
    BY <1>0, <2>1 DEF Serve, ReceiveRequest, Dispatch
  <2>3. att'[k].peer = p /\ att'[k].used = att[k].used /\ att'[k].step = s
    BY <1>0, <2>2 DEF Become, Attempt
  <2> QED BY <2>1, <2>2, <2>3
<1>4. ASSUME disturbances = 0, Awaited(p)' PROVE Underway(p)'
  BY <1>1, <1>3, <1>4 DEF Awaited, Underway
<1> QED BY <1>1, <1>2, <1>3, <1>4, MovedForsaken DEF At

\* A session is over, and the peer is done; or the restore is.
LEMMA EndedForsaken ==
  ASSUME NonceInv, ForsakenInv, NEW k \in Slots, SendFile(k) \/ SessionDone(k) \/ SessionError(k)
  PROVE  ForsakenInv'
<1>1. UNCHANGED <<requests, known, announced, stored, backup, disturbances>>
  BY DEF SendFile, SessionDone, SessionError, Failed, rendezvous, flags, counters
<1>2. CASE att' = att /\ UNCHANGED flags
  BY <1>1, <1>2, SameForsaken DEF Awaited, flags
<1>3. ASSUME End(k), NEW p, p = att[k].peer, \A q \in Peers : Awaited(q)' => Awaited(q),
             ~Awaited(p)'
      PROVE  ForsakenInv'
  <2>1. att'[k] = Unused /\ \A j \in Slots \ {k} : att'[j] = att[j]
    BY <1>3 DEF End, NonceInv
  <2>2. att'[k].used # "transport" /\ ~At(k, "hung")'
    BY <2>1 DEF Unused, At
  <2> QED BY <1>1, <1>3, <2>1, <2>2, MovedForsaken
<1>4. CASE Failed(k)
  <2>1. \A q : ~Awaited(q)'
    BY <1>4 DEF Failed, Awaited
  <2> QED BY <1>3, <1>4, <2>1 DEF Failed
<1>5. CASE SessionDone(k)
  <2> PICK p : p = att[k].peer
    OBVIOUS
  <2>1. status' = [q \in DOMAIN status \cup {p} |-> q = p \/ status[q]]
    BY <1>5 DEF SessionDone, Complete
  <2>2. DOMAIN status' = DOMAIN status \cup {p}
    BY <2>1
  <2>3. ASSUME NEW q \in DOMAIN status' PROVE status'[q] = (q = p \/ status[q])
    BY <2>1, <2>2, Zenon
  <2>4. \A q \in DOMAIN status' : ~status'[q] => q # p /\ q \in DOMAIN status /\ ~status[q]
    BY <2>2, <2>3
  <2>5. ~Awaited(p)' /\ \A q \in Peers : Awaited(q)' => Awaited(q)
    BY <1>1, <1>5, <2>4 DEF SessionDone, Awaited
  <2> QED BY <1>3, <1>5, <2>5 DEF SessionDone
<1> QED BY <1>2, <1>4, <1>5 DEF SendFile, SessionError, rendezvous

\* A window asks peer p, which it waits for from then on.
LEMMA RequestForsaken ==
  ASSUME NonceInv, WindowInv, ForsakenInv, NEW w \in Windows, RequestPeer(w)
  PROVE  ForsakenInv'
<1>1. PICK p \in todo[w], k \in Slots : Ask(k, p, "restore") /\ AddPeer(w, p)
  BY DEF RequestPeer
<1>2. p \in Peers
  BY DEF WindowInv
<1>3. UNCHANGED <<known, announced, stored, backup, disturbances, running>>
  BY DEF RequestPeer, peers, counters
<1>4. status' = [q \in DOMAIN status \cup {p} |-> q # p /\ status[q]]
  BY <1>1 DEF AddPeer
<1>5. DOMAIN status' = DOMAIN status \cup {p}
  BY <1>4
<1>6. ASSUME NEW q \in DOMAIN status' PROVE status'[q] = (q # p /\ status[q])
  BY <1>4, <1>5, Zenon
<1>7. \A q \in Peers \ {p} : Awaited(q)' => Awaited(q)
  BY <1>3, <1>5, <1>6 DEF Awaited
<1> QED BY <1>1, <1>2, <1>3, <1>7, AskedForsaken

LEMMA StepForsakenInv ==
  ASSUME NonceInv, WindowInv, ForsakenInv, [Next]_vars
  PROVE  ForsakenInv'
<1>1. CASE UNCHANGED <<requests, att, known, announced, stored, backup, disturbances, running,
                       status>>
  BY <1>1, SameForsaken DEF Awaited
<1>2. CASE disturbances # 0 /\ UNCHANGED disturbances
  BY <1>2 DEF ForsakenInv
<1>3. ASSUME NEW w \in Windows, StartRestore(w) \/ StartTogether(w) PROVE ForsakenInv'
  <2>1. CASE StartRestore(w)
    <3>1. /\ UNCHANGED <<requests, att, known, announced, stored, backup, disturbances>>
          /\ status' = <<>>
      BY <2>1 DEF StartRestore, Begin, rendezvous, peers
    <3>2. DOMAIN status' = {}
      BY <3>1
    <3> QED BY <3>1, <3>2, SameForsaken DEF Awaited
  <2>2. CASE StartTogether(w)
    BY <2>2, DisturbanceForsaken DEF StartTogether
  <2> QED BY <1>3, <2>1, <2>2
<1>4. ASSUME NEW w \in Windows, WindowStep(w) PROVE ForsakenInv'
  <2>1. CASE RequestPeer(w)
    BY <2>1, RequestForsaken
  <2>2. CASE Poll(w) \/ Unpack(w)
    <3>1. /\ UNCHANGED <<requests, att, known, announced, stored, backup, disturbances, status>>
          /\ running' = running \/ running' = FALSE
      BY <2>2 DEF Poll, Unpack, Finish, rendezvous, peers, flags, counters
    <3> QED BY <3>1, SameForsaken DEF Awaited
  <2> QED BY <1>4, <2>1, <2>2 DEF WindowStep
<1>5. ASSUME NEW k \in Slots, AttemptStep(k) PROVE ForsakenInv'
  BY <1>5, ListenForsaken, FinalizeForsaken, ServeForsaken, EndedForsaken DEF AttemptStep
<1>6. ASSUME NEW k \in Slots, NEW p \in Peers, BackupConnects(k, p) \/ Matched(k, p)
      PROVE  ForsakenInv'
  <2>1. CASE BackupConnects(k, p)
    BY <1>2, <2>1 DEF BackupConnects, counters, ForsakenInv, QuietInv
  <2>2. CASE Matched(k, p)
    BY <2>2, DisturbanceForsaken DEF Matched
  <2> QED BY <1>6, <2>1, <2>2
<1>7. ASSUME NEW p \in Peers, HandleMatch(p) \/ ThrottleOver(p) PROVE ForsakenInv'
  <2>1. CASE HandleMatch(p)
    BY <1>2, <2>1 DEF HandleMatch, PeerMatched, counters, ForsakenInv, QuietInv
  <2>2. CASE ThrottleOver(p)
    BY <1>1, <2>2 DEF ThrottleOver, rendezvous, flags, counters
  <2> QED BY <1>7, <2>1, <2>2
<1>8. CASE StartBackup \/ SetBackupStarted \/ SizeFails \/ SetBackupFinished
  <2>1. CASE StartBackup
    BY <2>1, DisturbanceForsaken DEF StartBackup
  <2>2. CASE SetBackupStarted \/ SizeFails \/ SetBackupFinished
    BY <1>2, <2>2 DEF SetBackupStarted, SizeFails, SetBackupFinished, counters, ForsakenInv,
       QuietInv
  <2> QED BY <1>8, <2>1, <2>2
<1>9. CASE Faults
  BY <1>9, DisturbanceForsaken DEF Faults, AskFails, WindowFails, Lose, Break, PeerGivesUp,
     ExpireRequest, ClientRestart
<1>10. CASE UNCHANGED vars
  BY <1>1, <1>10 DEF vars, rendezvous, peers, flags, counters
<1> QED BY <1>3, <1>4, <1>5, <1>6, <1>7, <1>8, <1>9, <1>10 DEF Next

\* While a restore waits for a peer that knows the client and has something for it, there is
\* an attempt that will end the wait, as long as nothing interferes: for any number of peers,
\* windows, and restores one after the other, with sessions of earlier ones still under way.
THEOREM NobodyIsForsaken == Spec => []NeverForsaken
<1>1. NonceInv /\ ValuesInv /\ ForsakenInv => NeverForsaken
  BY DEF ForsakenInv, UnderwayInv, Awaited, Underway, NeverForsaken, ValuesInv, At
<1>2. Spec => []ForsakenInv
  BY InitForsakenInv, StepForsakenInv, NonceInvariant, PTL DEF Spec
<1>3. Spec => []ValuesInv
  BY InitValuesInv, InitSessionInv, StepValuesInv, StepSessionInv, NonceInvariant, PTL DEF Spec
<1> QED BY <1>1, <1>2, <1>3, NonceInvariant, PTL
=============================================================================
