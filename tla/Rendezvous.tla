------------------------------ MODULE Rendezvous ------------------------------
(***************************************************************************)
(* How a client gets connected to its peers (client:                       *)
(* net_p2p/p2p_connection_manager.rs, handle_connections.rs,               *)
(* backup/send.rs; server: handlers/p2p_connection_request.rs).            *)
(*                                                                         *)
(* The client notes a request, with a random nonce and a purpose, and has  *)
(* the server announce it to the peer.  The peer, if it knows the client,  *)
(* listens and has the server tell its address.  The client connects,      *)
(* takes the request out and sends its nonce and purpose to the peer,      *)
(* which goes on if the nonce is the one it was announced.                 *)
(*                                                                         *)
(* An attempt is all that happens about one announcement, on both sides.   *)
(* It goes by a slot, and so does its nonce; a slot is used again when     *)
(* neither the attempt nor its nonce is around.  What the sessions are for *)
(* is added by a module that extends this one.                             *)
(***************************************************************************)
EXTENDS Naturals, FiniteSets

CONSTANTS
  Peers,   \* the peers the client has negotiated storage with
  Slots    \* bound: attempts at a time

None == 0  \* no slot, no peer

ASSUME SlotsAssumption == Slots \subseteq Nat \ {None} /\ None \notin Peers

VARIABLES
  requests,   \* P2P_CONN_REQUESTS: requests[p] is the nonce and purpose for peer p
  att,        \* att[k]: an attempt, see Unused
  known,      \* the peers that know the client
  announced,  \* peers that are told of a match and have not handled it yet
  begun       \* the client has begun a backup, and so has a BACKUP_ORCHESTRATOR

rendezvous == <<requests, att, known, announced, begun>>

Purposes == {"transport", "restore"}   \* RequestType
NoRequest == [nonce |-> None, purpose |-> "none"]

\* peer and purpose: of the request that was announced; step: what comes next;
\* nonce and used: of the request that was taken out and sent to the peer.
Unused ==
  [peer |-> None, purpose |-> "none", step |-> "unused", nonce |-> None, used |-> "none"]

Free(k) ==
  /\ att[k] = Unused
  /\ \A p \in Peers : requests[p].nonce # k
  /\ \A j \in Slots : att[j].nonce # k

\* The slot for the next attempt.
Vacant(k) == Free(k) /\ \A j \in Slots : j < k => ~Free(j)

At(k, s) == att[k].step = s
Become(k, s) == att' = [att EXCEPT ![k].step = s]
End(k) == att' = [att EXCEPT ![k] = Unused]

-----------------------------------------------------------------------------
(* The client asks.                                                         *)

\* add_request: what was asked of p before is forgotten.
AddRequest(k, p, purpose) ==
  /\ Vacant(k)
  /\ requests' = [requests EXCEPT ![p] = [nonce |-> k, purpose |-> purpose]]

\* add_request and p2p_connection_begin, on the client and on the server: the peer
\* is notified.
Ask(k, p, purpose) ==
  /\ AddRequest(k, p, purpose)
  /\ att' = [att EXCEPT ![k] = [Unused EXCEPT !.peer = p, !.purpose = purpose,
                                              !.step = "incoming"]]

\* DestinationUnreachable, or the call fails before it gets there.
AskInVain(k, p, purpose) ==
  /\ AddRequest(k, p, purpose)
  /\ UNCHANGED att

\* handle_storage_request_matched, on the client.  Without an orchestrator it
\* fails after it has added the request.
Match(k, p) ==
  /\ p \notin announced
  /\ announced' = announced \cup {p}
  /\ IF begun THEN Ask(k, p, "transport") ELSE AskInVain(k, p, "transport")
  /\ UNCHANGED <<known, begun>>

\* The same on the peer: either it stores the client, or it has not begun a
\* backup itself.
PeerMatched(p) ==
  /\ p \in announced
  /\ announced' = announced \ {p}
  /\ known' \in {known, known \cup {p}}
  /\ UNCHANGED <<requests, att, begun>>

-----------------------------------------------------------------------------
(* The peer answers, and the client connects.                               *)

\* accept_and_listen: strangers are ignored; for the others the peer listens,
\* and tells its address by p2p_connection_confirm.
Listen(k) ==
  /\ At(k, "incoming")
  /\ IF att[k].peer \in known THEN Become(k, "connecting") ELSE End(k)
  /\ UNCHANGED <<requests, known, announced, begun>>

\* Mutant: the request stays until it expires.
FinalizeAndKeep(k) ==
  LET p == att[k].peer
      request == requests[p]
  IN /\ At(k, "connecting")
     /\ IF request = NoRequest THEN End(k)
        ELSE att' = [att EXCEPT ![k] = [@ EXCEPT !.step = "receiving", !.nonce = request.nonce,
                                                 !.used = request.purpose]]
     /\ UNCHANGED <<requests, known, announced, begun>>

\* accept_and_connect: finalize_request takes the request out, whichever it is by
\* now.  If there is none, the socket is dropped, and the peer goes away.
Finalize(k) ==
  LET p == att[k].peer
      request == requests[p]
  IN /\ At(k, "connecting")
     /\ requests' = [requests EXCEPT ![p] = NoRequest]
     /\ IF request = NoRequest THEN End(k)
        ELSE att' = [att EXCEPT ![k] = [@ EXCEPT !.step = "receiving", !.nonce = request.nonce,
                                                 !.used = request.purpose]]
     /\ UNCHANGED <<known, announced, begun>>

\* receive_request on the peer.  next: what it does for a client that restores.
\* With a transport, both ends are passed on to the transfer of files.
Dispatch(k, next) ==
  IF att[k].used = "transport" THEN End(k) ELSE Become(k, next)

\* Mutant: any nonce will do.
ReceiveUnchecked(k, next) ==
  /\ At(k, "receiving")
  /\ Dispatch(k, next)
  /\ UNCHANGED <<requests, known, announced, begun>>

ReceiveRequest(k, next) ==
  /\ At(k, "receiving")
  /\ Dispatch(k, IF att[k].nonce = k THEN next ELSE "dropped")
  /\ UNCHANGED <<requests, known, announced, begun>>

-----------------------------------------------------------------------------
(* What can go wrong.                                                       *)

\* The peer or the client is not notified, a call fails, nobody gets through to
\* the listener.  Nobody on the client is told.
LoseAttempt(k) ==
  /\ At(k, "incoming") \/ At(k, "connecting")
  /\ End(k)
  /\ UNCHANGED <<requests, known, announced, begun>>

\* A minute has gone by since the request was added.
Expire(p) ==
  /\ requests[p] # NoRequest
  /\ requests' = [requests EXCEPT ![p] = NoRequest]
  /\ UNCHANGED <<att, known, announced, begun>>

\* The client's program ends.  What the peer was told may still make it answer.
LoseClient ==
  /\ requests' = [p \in Peers |-> NoRequest]
  /\ att' = [k \in Slots |-> IF At(k, "incoming") THEN att[k] ELSE Unused]
  /\ begun' = FALSE
  /\ UNCHANGED <<known, announced>>

-----------------------------------------------------------------------------
(* Properties.                                                              *)

RendezvousOK ==
  /\ requests \in [Peers -> [nonce : Slots \cup {None}, purpose : Purposes \cup {"none"}]]
  /\ att \in [Slots -> [peer : Peers \cup {None}, purpose : Purposes \cup {"none"},
                        step : {"unused", "incoming", "connecting", "receiving",
                                "serving", "dropped", "hung"},
                        nonce : Slots \cup {None}, used : Purposes \cup {"none"}]]
  /\ known \subseteq Peers /\ announced \subseteq Peers
  /\ begun \in BOOLEAN
  /\ \A k \in Slots : At(k, "unused") <=> att[k] = Unused
  /\ \A k \in Slots : att[k].nonce = None <=> At(k, "unused") \/ At(k, "incoming")
                                             \/ At(k, "connecting")

\* A nonce opens one session: whichever request an answer of the peer meets, no
\* second answer can use it as well (p2p_connection_manager.rs:24, "validating
\* that incoming responses are not unsolicited").
NonceUsedOnce ==
  \A j, k \in Slots : att[j].nonce # None /\ att[j].nonce = att[k].nonce => j = k

\* A peer that hands out what it has stored does so over a connection it was
\* announced as what the client uses it for, also when requests for the same peer
\* replace each other (handle_connections.rs:86, "replay protection").
ServedAsAsked ==
  \A k \in Slots :
    At(k, "serving") \/ At(k, "hung") =>
      att[k].nonce = k /\ att[k].used = "restore" /\ att[k].purpose = "restore"
=============================================================================
