---------------------------- MODULE ServerSessions ----------------------------
(***************************************************************************)
(* How clients prove who they are to the server and stay reachable for it  *)
(* (server: client_auth_manager.rs, ws.rs, handlers/register.rs, login.rs, *)
(* mod.rs; client: identity.rs, net_server/mod.rs, net_server/requests.rs, *)
(* config/identity.rs).                                                    *)
(*                                                                         *)
(* The first start of a client registers its key, or logs in with a key    *)
(* that is registered, and then marks the client as initialized.  From     *)
(* then on one task keeps a WebSocket connection to the server, and others *)
(* call it; they share the token that is saved in the configuration, and   *)
(* log in when there is none.  The server has challenges, sessions and     *)
(* connections in memory only, the registered keys in its database.        *)
(*                                                                         *)
(* The steps of a task are named for what it awaits next; where that is a  *)
(* request, the step is the server's handler and its answer.               *)
(*                                                                         *)
(* Nonces and tokens are random, and no two are the same.  A nonce goes by *)
(* the task that has asked for it: it is no use to others, and not to the  *)
(* same task either once it has asked for another one.  A new token is a   *)
(* number that no client has, saved or in the hands of a task.             *)
(***************************************************************************)
EXTENDS Integers, FiniteSets, Functions

CONSTANTS
  Clients,     \* keys
  Setup,       \* tasks that run first_run_guide(); clients without one are set up
  Ws,          \* tasks that run connect_ws()
  Callers,     \* tasks that call the server again and again
  Owner,       \* Owner[t]: the client task t is part of
  MaxConns,    \* bound: connections at a time the server has not got rid of
  MaxFaults    \* bound: restarts, lost or silent connections, lost answers, expiries

Tasks == Setup \cup Ws \cup Callers
None == 0
Nobody == 1

ASSUME OwnerAssumption == Owner \in [Tasks -> Clients]
ASSUME BoundAssumption == MaxConns \in Nat /\ MaxFaults \in Nat
ASSUME FiniteAssumption == IsFiniteSet(Clients) /\ IsFiniteSet(Tasks)
ASSUME SentinelAssumption == None \notin Tasks \cup Clients /\ Nobody \notin Tasks

\* main() spawns connect_ws() once.
ASSUME WsAssumption == \A t, u \in Ws : Owner[t] = Owner[u] => t = u

VARIABLES
  registered,  \* the clients table
  challenges,  \* challenges[c]: the nonce c has to sign, see below
  sessions,    \* sessions[u]: the client of token u, or None once it has expired or is forgotten
  registry,    \* ClientConnections: registry[c] is the connection whose sink is kept
  lock,        \* the task that holds the registry's mutex across an await
  conns,       \* conns[k]: a WebSocket connection
  initialized, \* the clients whose setup is committed
  saved,       \* saved[c]: the token in the configuration
  pc,          \* pc[t]: what task t awaits next
  hand,        \* hand[t]: the token it holds
  round,       \* round[t]: of retry_with_login; the connection t reads from or sends to
  faults       \* faults so far

server == <<registered, challenges, sessions, registry, lock>>
client == <<initialized, saved>>
tasks == <<pc, hand, round>>
vars == <<server, conns, client, tasks, faults>>

-----------------------------------------------------------------------------
(* Helpers.                                                                *)

Fresh(used) == CHOOSE n \in 1..(Cardinality(used) + 1) : n \notin used

\* The function f with the value v at x.
Put(f, x, v) == [y \in DOMAIN f \cup {x} |-> IF y = x THEN v ELSE f[y]]

\* The tokens that clients have, saved or in hand.
Tokens == (Range(saved) \cup Range(hand)) \ {None}

\* The session of a token that no client has any more makes no difference.
DropSessions == sessions' = Restrict(sessions, Tokens')

\* Task t goes on at step s, with token u in its hands, in round r.
GotoRound(t, s, u, r) ==
  /\ pc' = [pc EXCEPT ![t] = s]
  /\ hand' = [hand EXCEPT ![t] = u]
  /\ round' = [round EXCEPT ![t] = r]
Goto(t, s, u) == GotoRound(t, s, u, IF s = "idle" THEN None ELSE round[t])

\* Task t sets up a client with a key that was just generated, and that is in no
\* configuration yet.  (The token of an existing one is not saved, but in hand.)
NewKey(t) ==
  \/ pc[t] \in {"register", "answer", "gone"}
  \/ pc[t] = "commit" /\ hand[t] = None

\* Task t has got an error.  A Ws task sleeps and tries again; a caller's call
\* has failed; a setup ends the program, and a key that was just generated is
\* gone with it.
Fail(t) ==
  Goto(t, IF t \in Ws THEN "load"
          ELSE IF t \in Callers THEN "idle"
          ELSE IF NewKey(t) THEN "gone" ELSE "idle", None)

\* A round of retry_with_login is over; connect_ws has no limit.
NextRound(t) ==
  IF t \in Ws THEN GotoRound(t, "load", None, None)
  ELSE GotoRound(t, IF round[t] = 2 THEN "bailed" ELSE "load", None, 2)

-----------------------------------------------------------------------------
(* The first start.                                                        *)

\* new_secret_setup with a key nobody has used, or existing_secret_setup.
StartSetup(t) ==
  /\ t \in Setup /\ pc[t] = "idle" /\ Owner[t] \notin initialized
  /\ pc' = [pc EXCEPT ![t] = IF Owner[t] \in registered THEN "begin" ELSE "register"]
  /\ UNCHANGED <<server, conns, client, hand, round, faults>>

\* challenge_begin: the client's challenge is replaced.
ChallengeBegin(t, next) ==
  /\ challenges' = [challenges EXCEPT ![Owner[t]] = t]
  /\ Goto(t, next, None)

\* register_begin.
RegisterBegin(t) ==
  /\ pc[t] = "register"
  /\ IF Owner[t] \in registered THEN Fail(t) /\ UNCHANGED challenges
     ELSE ChallengeBegin(t, "answer")
  /\ UNCHANGED <<registered, sessions, registry, lock, conns, client, faults>>

\* challenge_verify: there is a challenge, and the nonce t has signed is it.
Verified(t) == challenges[Owner[t]] = t

\* register_complete.
RegisterComplete(t) ==
  /\ pc[t] = "answer"
  /\ IF Verified(t)
       THEN /\ challenges' = [challenges EXCEPT ![Owner[t]] = None]
            /\ registered' = registered \cup {Owner[t]}
            /\ Goto(t, "commit", None)
       ELSE Fail(t) /\ UNCHANGED <<challenges, registered>>
  /\ UNCHANGED <<sessions, registry, lock, conns, client, faults>>

\* Mutant: the configuration is committed before the server has answered.
CommitEarly(t) ==
  /\ t \in Setup /\ pc[t] \in {"answer", "commit"}
  /\ initialized' = initialized \cup {Owner[t]}
  /\ Goto(t, "done", None)
  /\ UNCHANGED <<registered, challenges, registry, lock, conns, saved, faults>>
  /\ DropSessions

\* The transaction is committed, and the program goes on to its tasks.
Commit(t) ==
  /\ t \in Setup /\ pc[t] = "commit"
  /\ initialized' = initialized \cup {Owner[t]}
  /\ Goto(t, "done", None)
  /\ UNCHANGED <<registered, challenges, registry, lock, conns, saved, faults>>
  /\ DropSessions

-----------------------------------------------------------------------------
(* login(), of whatever task.                                              *)

LoginBegin(t) ==
  /\ pc[t] = "begin"
  /\ IF Owner[t] \in registered THEN ChallengeBegin(t, "complete")
     ELSE Fail(t) /\ UNCHANGED challenges
  /\ UNCHANGED <<registered, sessions, registry, lock, conns, client, faults>>

\* Mutant: a client has one session at a time.
SessionStartAlone(c, token) ==
  Put(Restrict(sessions, {u \in DOMAIN sessions : sessions[u] # c}), token, c)

\* session_start.
SessionStart(c, token) == Put(sessions, token, c)

\* login_complete.  The token that existing_secret_setup gets is dropped.
LoginComplete(t) ==
  /\ pc[t] = "complete" /\ Verified(t)
  /\ LET token == Fresh(Tokens)
     IN /\ sessions' = SessionStart(Owner[t], token)
        /\ Goto(t, IF t \in Setup THEN "commit" ELSE "save", token)
  /\ challenges' = [challenges EXCEPT ![Owner[t]] = None]
  /\ UNCHANGED <<registered, registry, lock, conns, client, faults>>

\* The challenge is gone (ChallengeNotFound) or is another login's by now, and
\* then stays (Crypto).
LoginRefused(t) ==
  /\ pc[t] = "complete" /\ ~Verified(t)
  /\ Fail(t)
  /\ UNCHANGED <<server, conns, client, faults>>

\* save_auth_token(Some): the round is over.
SaveToken(t) ==
  /\ pc[t] = "save"
  /\ saved' = [saved EXCEPT ![Owner[t]] = hand[t]]
  /\ NextRound(t)
  /\ UNCHANGED <<registered, challenges, registry, lock, conns, initialized, faults>>
  /\ DropSessions

-----------------------------------------------------------------------------
(* Calls: retry_with_login.                                                *)

\* load_auth_token.  Without a token, log in.
WithToken(t, r) ==
  LET token == saved[Owner[t]]
      next == IF token = None THEN "begin" ELSE IF t \in Ws THEN "dial" ELSE "call"
  IN GotoRound(t, next, token, r)

\* Some part of the client calls the server.
Call(t) ==
  /\ t \in Callers /\ pc[t] = "idle" /\ Owner[t] \in initialized
  /\ WithToken(t, 1)
  /\ UNCHANGED <<server, conns, client, faults>>

\* The next round, or the next attempt to connect.
LoadToken(t) ==
  /\ pc[t] = "load" /\ Owner[t] \in initialized
  /\ WithToken(t, round[t])
  /\ UNCHANGED <<server, conns, client, faults>>

\* get_session, in every handler.
Session(t) == sessions[hand[t]] # None

\* The handler of a call that is answered with no regard to other clients, or
\* goes on to notify_client.
Handle(t) ==
  /\ pc[t] = "call"
  /\ IF ~Session(t) THEN Goto(t, "forget", None)
     ELSE \/ Goto(t, "idle", None)
          \/ Goto(t, "lock", None)
  /\ UNCHANGED <<registered, challenges, registry, lock, conns, client, faults>>
  /\ DropSessions

\* Mutant: nothing is forgotten.
KeepToken(t) ==
  /\ pc[t] = "forget"
  /\ NextRound(t)
  /\ UNCHANGED <<server, conns, client, faults>>

\* Unauthorized: save_auth_token(None), whatever token is saved by now.
ForgetToken(t) ==
  /\ pc[t] = "forget"
  /\ saved' = [saved EXCEPT ![Owner[t]] = None]
  /\ NextRound(t)
  /\ UNCHANGED <<registered, challenges, registry, lock, conns, initialized, faults>>
  /\ DropSessions

\* "unrecoverable auth error": two rounds have not been enough.
Bail(t) ==
  /\ pc[t] = "bailed"
  /\ Goto(t, "idle", None)
  /\ UNCHANGED <<server, conns, client, faults>>

\* notify_client, as far as the lookup: the mutex is kept while the message is
\* sent.
LockRegistry(t) ==
  /\ pc[t] = "lock" /\ lock = None
  /\ \E c \in Clients :
       IF registry[c] = None THEN Goto(t, "idle", None) /\ UNCHANGED lock
       ELSE GotoRound(t, "sending", None, registry[c]) /\ lock' = t
  /\ UNCHANGED <<registered, challenges, sessions, registry, conns, client, faults>>

\* Mutant: an error of the send leaves the mutex locked.
SendUnderLock(t) ==
  /\ pc[t] = "sending"
  /\ lock' \in {None, lock}
  /\ Goto(t, "idle", None)
  /\ UNCHANGED <<registered, challenges, sessions, registry, conns, client, faults>>

\* The message is sent, or sending it fails; the sink stays either way.  Nothing
\* makes this happen if the other end is silent (see Blocked).
SendMessage(t) ==
  /\ pc[t] = "sending"
  /\ lock' = None
  /\ Goto(t, "idle", None)
  /\ UNCHANGED <<registered, challenges, sessions, registry, conns, client, faults>>

-----------------------------------------------------------------------------
(* The WebSocket connection.                                               *)

\* A connection the server has not done with: its sink is not inserted yet, or
\* its listener still runs.
Unfinished(k) == conns[k].sink = "inserting" \/ conns[k].listener # "ended"

\* Finished connections make no difference, but for one whose sink is kept, and one
\* whose end the client has not noticed yet.
Needed(k) ==
  \/ Unfinished(k) \/ k \in Range(registry)
  \/ \E t \in Ws : pc[t] = "reading" /\ round[t] = k

\* handler: the token is looked at, the connection split, its listener spawned.
Dial(t) ==
  /\ pc[t] = "dial"
  /\ IF ~Session(t) THEN Goto(t, "forget", None) /\ UNCHANGED conns
     ELSE LET needed == {k \in DOMAIN conns : Needed(k)}
              k == Fresh(needed)
              orderly == \A j \in DOMAIN conns : conns[j].client = Owner[t] => ~Unfinished(j)
          IN /\ k <= MaxConns
             /\ conns' = Put(Restrict(conns, needed), k,
                             [client |-> Owner[t], link |-> "up", sink |-> "inserting",
                              listener |-> "reading", orderly |-> orderly])
             /\ GotoRound(t, "reading", None, k)
  /\ UNCHANGED <<registered, challenges, registry, lock, client, faults>>
  /\ DropSessions

\* Mutant: a client that has a connection keeps it.
InsertIfAbsent(k) == IF registry[conns[k].client] = None THEN k ELSE registry[conns[k].client]

\* The HashMap's insert replaces.
Insert(k) == k

\* new_connection.
NewConnection(k) ==
  /\ conns[k].sink = "inserting" /\ lock = None
  /\ registry' = [registry EXCEPT ![conns[k].client] = Insert(k)]
  /\ conns' = [conns EXCEPT ![k].sink = "inserted"]
  /\ UNCHANGED <<registered, challenges, sessions, lock, client, tasks, faults>>

\* incoming_listener: the connection has ended, or the server's side of it has
\* given up,
ListenerEnds(k) ==
  /\ conns[k].listener = "reading" /\ conns[k].link # "up"
  /\ conns' = [conns EXCEPT ![k].listener = "removing"]
  /\ UNCHANGED <<server, client, tasks, faults>>

\* remove_connection: whatever sink the client has is removed.
RemoveConnection(k) ==
  /\ conns[k].listener = "removing" /\ lock = None
  /\ registry' = [registry EXCEPT ![conns[k].client] = None]
  /\ conns' = [conns EXCEPT ![k].listener = "ended"]
  /\ UNCHANGED <<registered, challenges, sessions, lock, client, tasks, faults>>

\* connect_ws: the stream has ended or failed, connect again.
Reconnect(t) ==
  /\ t \in Ws /\ pc[t] = "reading" /\ conns[round[t]].link # "up"
  /\ GotoRound(t, "load", None, None)
  /\ UNCHANGED <<server, conns, client, faults>>

-----------------------------------------------------------------------------
(* Faults.                                                                 *)

Fault == faults < MaxFaults /\ faults' = faults + 1

\* A connection breaks.  Client and server notice it in any order.
Break(k) ==
  /\ Fault /\ conns[k].link = "up"
  /\ conns' = [conns EXCEPT ![k].link = "down"]
  /\ UNCHANGED <<server, client, tasks>>

\* Nothing gets through a connection any more, or the client has stopped to read
\* from it, and nobody is told.  Either side may give up some day, each for
\* itself; neither sends pings, nor does a send or a read have a timeout.
Silence(k) ==
  /\ Fault /\ conns[k].link = "up"
  /\ conns' = [conns EXCEPT ![k].link = "silent"]
  /\ UNCHANGED <<server, client, tasks>>

\* A request, or its answer, is lost, or a handler fails on its way: what the
\* handler does may have been done.
Requests == {"register", "answer", "begin", "complete", "call", "dial", "lock", "sending"}
RequestLost(t) ==
  /\ Fault /\ pc[t] \in Requests
  /\ Fail(t)
  /\ LET c == Owner[t]
     IN \/ UNCHANGED <<registered, challenges>>
        \/ /\ pc[t] = "answer" /\ Verified(t)
           /\ registered' = registered \cup {c}
           /\ challenges' = [challenges EXCEPT ![c] = None]
        \/ /\ pc[t] = "complete" /\ Verified(t)
           /\ challenges' = [challenges EXCEPT ![c] = None]
           /\ UNCHANGED registered
        \/ /\ pc[t] \in {"register", "begin"}
           /\ challenges' = [challenges EXCEPT ![c] = Nobody]
           /\ UNCHANGED registered
  /\ lock' = IF lock = t THEN None ELSE lock
  /\ UNCHANGED <<registry, conns, client>>
  /\ DropSessions

\* 30 seconds or 24 hours are over.
ChallengeExpires(c) ==
  /\ Fault /\ challenges[c] # None
  /\ challenges' = [challenges EXCEPT ![c] = None]
  /\ UNCHANGED <<registered, sessions, registry, lock, conns, client, tasks>>

SessionExpires(u) ==
  /\ Fault /\ u \in Tokens /\ sessions[u] # None
  /\ sessions' = [sessions EXCEPT ![u] = None]
  /\ UNCHANGED <<registered, challenges, registry, lock, conns, client, tasks>>

\* The end of every connection in ks: the client's, or the server's, which is
\* finished with it.  Through a silent one the other side does not learn of it.
Ended(link) == IF link = "silent" THEN "silent" ELSE "down"
Cut(ks, finished) ==
  [k \in DOMAIN conns |->
     IF k \notin ks THEN conns[k]
     ELSE IF finished THEN [conns[k] EXCEPT !.link = Ended(@), !.sink = "inserted",
                                            !.listener = "ended"]
     ELSE [conns[k] EXCEPT !.link = Ended(@)]]

\* The server is restarted: only its database is left.
ServerRestart ==
  /\ Fault
  /\ challenges' = [c \in Clients |-> None]
  /\ sessions' = [u \in Tokens |-> None]
  /\ registry' = [c \in Clients |-> None]
  /\ lock' = None
  /\ conns' = Cut(DOMAIN conns, TRUE)
  /\ LET waiting == {t \in Tasks : pc[t] \in {"lock", "sending"}}
     IN /\ pc' = [t \in Tasks |-> IF t \in waiting THEN "idle" ELSE pc[t]]
        /\ round' = [t \in Tasks |-> IF t \in waiting THEN None ELSE round[t]]
  /\ UNCHANGED <<registered, client, hand>>

\* A client is restarted: only its configuration is left.
ClientRestart(c) ==
  /\ Fault
  /\ LET own == {t \in Tasks : Owner[t] = c}
     IN /\ pc' = [t \in Tasks |->
                    IF t \notin own \/ pc[t] = "done" THEN pc[t]
                    ELSE IF t \in Ws THEN "load"
                    ELSE IF t \in Setup /\ NewKey(t) THEN "gone"
                    ELSE "idle"]
        /\ hand' = [t \in Tasks |-> IF t \in own THEN None ELSE hand[t]]
        /\ round' = [t \in Tasks |-> IF t \in own THEN None ELSE round[t]]
        /\ lock' = IF lock \in own THEN None ELSE lock
  /\ conns' = Cut({k \in DOMAIN conns : conns[k].client = c}, FALSE)
  /\ UNCHANGED <<registered, challenges, registry, client>>
  /\ DropSessions

-----------------------------------------------------------------------------
Init ==
  /\ initialized = Clients \ {Owner[t] : t \in Setup}
  /\ registered \in SUBSET Clients /\ initialized \subseteq registered
  /\ challenges = [c \in Clients |-> None]
  /\ sessions = <<>>
  /\ registry = [c \in Clients |-> None]
  /\ lock = None /\ conns = <<>>
  /\ saved = [c \in Clients |-> None]
  /\ pc = [t \in Tasks |-> IF t \in Ws THEN "load" ELSE "idle"]
  /\ hand = [t \in Tasks |-> None]
  /\ round = [t \in Tasks |-> None]
  /\ faults = 0

SetupStep(t) == RegisterBegin(t) \/ RegisterComplete(t) \/ Commit(t)

LoginStep(t) ==
  LoginBegin(t) \/ LoginComplete(t) \/ LoginRefused(t) \/ SaveToken(t)

CallStep(t) ==
  \/ LoadToken(t) \/ Handle(t) \/ ForgetToken(t) \/ Bail(t)
  \/ LockRegistry(t) \/ SendMessage(t)

WsStep(t) == Dial(t) \/ Reconnect(t)

Step(t) == SetupStep(t) \/ LoginStep(t) \/ CallStep(t) \/ WsStep(t)

Faults ==
  \/ \E k \in DOMAIN conns : Break(k) \/ Silence(k)
  \/ \E t \in Tasks : RequestLost(t)
  \/ \E c \in Clients : ChallengeExpires(c) \/ ClientRestart(c)
  \/ \E u \in DOMAIN sessions : SessionExpires(u)
  \/ ServerRestart

ConnStep(k) == NewConnection(k) \/ ListenerEnds(k) \/ RemoveConnection(k)

Next ==
  \/ \E t \in Tasks : StartSetup(t) \/ Call(t) \/ Step(t)
  \/ \E k \in DOMAIN conns : ConnStep(k)
  \/ Faults

Spec == Init /\ [][Next]_vars

\* Task t waits for the other end of a silent connection: it reads from it, or
\* sends to it while it has the mutex.
Blocked(t) ==
  /\ pc[t] \in {"reading", "sending"} /\ conns[round[t]].link = "silent"
  /\ pc[t] = "sending" => conns[round[t]].listener = "reading"

\* Tasks that can go on do, but for those that wait for a silent connection: no
\* timeout wakes them.  Nor does anything tell the server that a connection is
\* silent.  The mutex is tokio's and serves those who wait for
\* it in turn, hence strong fairness for what it lets in.  A login that fails is
\* tried again after seconds, which is time enough for another one to get
\* through, hence strong fairness for LoginComplete.  Nobody has to call, nor to
\* set up a client.
FairSpec ==
  /\ Spec
  /\ \A t \in Tasks : WF_vars(~Blocked(t) /\ Step(t))
  /\ \A t \in Ws \cup Callers : SF_vars(LoginComplete(t))
  /\ WF_vars(\E k \in DOMAIN conns : conns[k].link = "down" /\ ListenerEnds(k))
  /\ SF_vars(\E k \in DOMAIN conns : NewConnection(k) \/ RemoveConnection(k))

-----------------------------------------------------------------------------
(* Properties.                                                             *)

Steps == Requests \cup {"idle", "commit", "done", "gone", "load", "save", "forget", "bailed",
                        "reading"}

TypeOK ==
  /\ registered \subseteq Clients /\ initialized \subseteq Clients
  /\ challenges \in [Clients -> Tasks \cup {None, Nobody}]
  /\ {saved, registry} \subseteq [Clients -> Nat]
  /\ IsFiniteSet(DOMAIN sessions) /\ Range(sessions) \subseteq Clients \cup {None}
  /\ DOMAIN conns \subseteq 1..MaxConns
  /\ \A c \in Clients : registry[c] # None =>
       registry[c] \in DOMAIN conns /\ conns[registry[c]].client = c
  /\ lock = None \/ pc[lock] = "sending"
  /\ pc \in [Tasks -> Steps]
  /\ {hand, round} \subseteq [Tasks -> Nat]
  /\ \A t \in Tasks : pc[t] \in {"reading", "sending"} => round[t] \in DOMAIN conns

IsSession(u, c) == u \in DOMAIN sessions /\ sessions[u] \in {c, None}

\* A token that a client has, saved or in the hands of one of its tasks, is a
\* session of its own, unless it has expired or the server was restarted since:
\* logins side by side do not revoke each other's tokens, and a refused call
\* is never refused for anything else (client_auth_manager.rs, session_start).
TokenIsSession ==
  /\ \A c \in Clients : saved[c] # None => IsSession(saved[c], c)
  /\ \A t \in Tasks : hand[t] # None => IsSession(hand[t], Owner[t])

\* What identity.rs:75 promises ("so that if server registration fails, we
\* don't end up with an inconsistent state"): a client that counts as
\* initialized is registered, whatever is lost or restarted in between.
InitializedIsRegistered == initialized \subseteq registered

Reading(t) == pc[t] = "reading" /\ conns[round[t]].link = "up"

\* If the server was done with a client's earlier connections when it accepted
\* the one the client reads from now, then notifications go there (ws.rs,
\* new_connection).  Without the condition this is not so: the end of an
\* earlier one removes the sink of this one (ws.rs:63).
OrderlyIsReachable ==
  \A t \in Ws : Reading(t) =>
    LET k == round[t]
    IN conns[k].orderly /\ conns[k].sink = "inserted" => registry[Owner[t]] = k

Connected(t) == Reading(t) /\ conns[round[t]].sink = "inserted"

\* A client that is initialized gets a connection again and again, which the
\* server accepts and inserts, whatever it has lost, forgotten or let expire
\* (net_server/mod.rs, connect_ws; "server reconnection loop"), unless it reads
\* from a silent connection, or some notification is being sent to one.
Reconnects ==
  \A t \in Ws :
    Owner[t] \in initialized ~>
      Connected(t) \/ Blocked(t) \/ (lock # None /\ Blocked(lock))

\* Sooner or later after the last restart or expiry, no call fails any more
\* because of the token (requests.rs:211, "Retry a function that needs a session
\* token, logging in if necessary").
CallsRecover == <>[](\A t \in Callers : pc[t] # "bailed")
=============================================================================
