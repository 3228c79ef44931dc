------------------------ MODULE ServerSessions_proofs ------------------------
(***************************************************************************)
(* Proofs about ServerSessions, for any clients, tasks and bounds.         *)
(*                                                                         *)
(* The mutex, the sessions and the setup are each settled by an invariant  *)
(* of their own.  That a client is reachable needs to know of every        *)
(* connection it has had: while it reads from one that the server accepted *)
(* after it was done with the others, it still is done with them.          *)
(***************************************************************************)
EXTENDS ServerSessions, FunctionTheorems, FiniteSetTheorems, TLAPS

-----------------------------------------------------------------------------
(* The inductive invariant, in six parts.                                   *)

\* Values.
CoreInv ==
  /\ registered \subseteq Clients
  /\ challenges \in [Clients -> Tasks \cup {None, Nobody}]
  /\ saved \in [Clients -> Nat] /\ registry \in [Clients -> Nat]
  /\ pc \in [Tasks -> Steps] /\ hand \in [Tasks -> Nat] /\ round \in [Tasks -> Nat]

\* Who sends has the mutex, and nobody else.
LockInv ==
  /\ lock \in Tasks \cup {None}
  /\ \A t \in Tasks : pc[t] = "sending" <=> lock = t

\* The server knows every token that a client has.
SessionsInv ==
  /\ sessions \in [DOMAIN sessions -> Clients \cup {None}] /\ IsFiniteSet(DOMAIN sessions)
  /\ TokenIsSession

\* Who can become, or is, initialized is registered.
RegisteredInv ==
  /\ InitializedIsRegistered
  /\ \A t \in Tasks : pc[t] \in {"commit", "complete"} => Owner[t] \in registered

Connection ==
  [client : Clients, link : {"up", "silent", "down"}, sink : {"inserting", "inserted"},
   listener : {"reading", "removing", "ended"}, orderly : BOOLEAN]

\* Who sends, sends to a connection whose sink is kept.
Target(t) == round[t] # None /\ \E c \in Clients : registry[c] = round[t]

ConnsInv ==
  /\ DOMAIN conns \subseteq 1..MaxConns /\ conns \in [DOMAIN conns -> Connection]
  /\ \A k \in DOMAIN conns : conns[k].link = "up" => conns[k].listener = "reading"
  /\ \A c \in Clients : registry[c] # None =>
       registry[c] \in DOMAIN conns /\ conns[registry[c]].client = c
  /\ \A t \in Tasks : pc[t] = "sending" => Target(t)
  /\ \A t \in Tasks : pc[t] \in {"dial", "reading"} => t \in Ws
  /\ \A t \in Tasks : pc[t] = "reading" =>
       round[t] \in DOMAIN conns /\ conns[round[t]].client = Owner[t]

\* While a client reads from an orderly connection the server is done with all its
\* others, and has its sink once it is inserted.
Orderly(t) ==
  LET k == round[t]
  IN pc[t] = "reading" /\ conns[k].orderly =>
       /\ \A j \in DOMAIN conns \ {k} : conns[j].client = Owner[t] => ~Unfinished(j)
       /\ conns[k].link = "up" /\ conns[k].sink = "inserted" => registry[Owner[t]] = k

OrderInv == \A t \in Ws : Orderly(t)

Inv == CoreInv /\ LockInv /\ SessionsInv /\ RegisteredInv /\ ConnsInv /\ OrderInv

LEMMA InvIsTypeOK == Inv => TypeOK
<1> SUFFICES ASSUME Inv PROVE TypeOK
  OBVIOUS
<1> USE DEF Inv
<1>1. initialized \subseteq Clients
  BY DEF CoreInv, RegisteredInv, InitializedIsRegistered
<1>2. Range(sessions) \subseteq Clients \cup {None}
  BY DEF SessionsInv, Range
<1>3. lock = None \/ pc[lock] = "sending"
  BY DEF LockInv
<1>4. \A t \in Tasks : pc[t] = "sending" => round[t] \in DOMAIN conns
  BY DEF ConnsInv, Target
<1> QED BY <1>1, <1>2, <1>3, <1>4 DEF TypeOK, CoreInv, SessionsInv, ConnsInv

-----------------------------------------------------------------------------
(* Finite sets and new numbers.                                             *)

LEMMA RangeFinite ==
  ASSUME NEW S, IsFiniteSet(S), NEW T, NEW f \in [S -> T]
  PROVE  IsFiniteSet(Range(f))
<1>1. f \in Surjection(S, Range(f))
  BY DEF Surjection, Range
<1> QED BY <1>1, FS_Surjection

LEMMA FreshIsNew ==
  ASSUME NEW used, IsFiniteSet(used)
  PROVE  /\ Fresh(used) \notin used
         /\ Fresh(used) \in Nat \ {0}
<1> DEFINE n == Cardinality(used)
<1>1. n \in Nat
  BY FS_CardinalityType
<1>2. ASSUME 1..(n + 1) \subseteq used PROVE FALSE
  <2>1. IsFiniteSet(1..(n + 1)) /\ Cardinality(1..(n + 1)) = n + 1
    <3> HIDE DEF n
    <3>1. 1 \in Int /\ n + 1 \in Int /\ ~(1 > n + 1) /\ (n + 1) - 1 + 1 = n + 1
      BY <1>1
    <3>2. PICK a \in Int, b \in Int : a = 1 /\ b = n + 1
      BY <3>1
    <3>3. IsFiniteSet(a..b) /\ Cardinality(a..b) = IF a > b THEN 0 ELSE b-a+1
      BY FS_Interval
    <3> QED BY <3>1, <3>2, <3>3
  <2>2. Cardinality(1..(n + 1)) <= n
    BY <1>2, FS_Subset
  <2> QED BY <1>1, <2>1, <2>2
<1>3. \E k \in 1..(n + 1) : k \notin used
  BY <1>2
<1>4. Fresh(used) \in 1..(n + 1) /\ Fresh(used) \notin used
  BY <1>3 DEF Fresh
<1> QED BY <1>1, <1>4

TokensFinite == IsFiniteSet(Tokens)

LEMMA TokensAreFinite == CoreInv => TokensFinite
<1> SUFFICES ASSUME CoreInv PROVE IsFiniteSet(Tokens)
  BY DEF TokensFinite
<1>1. IsFiniteSet(Range(saved)) /\ IsFiniteSet(Range(hand))
  BY FiniteAssumption, RangeFinite DEF CoreInv
<1>2. IsFiniteSet(Range(saved) \cup Range(hand))
  BY <1>1, FS_Union
<1> QED BY <1>2, FS_Difference DEF Tokens

LEMMA TokensFiniteNext == CoreInv' => TokensFinite'
BY TokensAreFinite, PTL

LEMMA PutType ==
  ASSUME NEW S, NEW f, f \in [DOMAIN f -> S], NEW x, NEW v \in S
  PROVE  Put(f, x, v) \in [DOMAIN f \cup {x} -> S]
BY DEF Put

-----------------------------------------------------------------------------
(* What keeps each part.                                                    *)

\* Nothing changes about connections, and no task begins to read from one.
LEMMA SameConns ==
  ASSUME Inv, CoreInv', UNCHANGED <<conns, registry>>,
         \A t \in Tasks : pc'[t] = "reading" => pc[t] = "reading" /\ round'[t] = round[t],
         \A t \in Tasks : pc'[t] = "dial" => t \in Ws,
         \A t \in Tasks : pc'[t] = "sending" =>
           Target(t)' \/ (pc[t] = "sending" /\ round'[t] = round[t])
  PROVE  ConnsInv' /\ OrderInv'
<1>1. ConnsInv'
  BY DEF Inv, ConnsInv, Target
<1>2. OrderInv'
  BY DEF Inv, OrderInv, Orderly, Unfinished, Tasks
<1> QED BY <1>1, <1>2

\* The tokens that clients have are ones they had before.
LEMMA KnownTokens ==
  ASSUME Inv, CoreInv', sessions' = sessions \/ DropSessions,
         \A c \in Clients : saved'[c] # None => IsSession(saved'[c], c),
         \A t \in Tasks : hand'[t] # None => IsSession(hand'[t], Owner[t])
  PROVE  SessionsInv'
<1>1. CASE sessions' = sessions
  BY <1>1 DEF Inv, SessionsInv, TokenIsSession, IsSession
<1>2. CASE DropSessions
  <2>1. sessions' = [u \in Tokens' |-> sessions[u]]
    BY <1>2 DEF DropSessions, Restrict
  <2>2. \A u \in Tokens' : u \in DOMAIN sessions
    <3> SUFFICES ASSUME NEW u \in Tokens' PROVE u \in DOMAIN sessions
      OBVIOUS
    <3>1. CASE \E c \in Clients : u = saved'[c]
      BY <3>1 DEF IsSession, Tokens
    <3>2. CASE \E t \in Tasks : u = hand'[t]
      BY <3>2 DEF IsSession, Tokens
    <3> QED BY <3>1, <3>2 DEF Tokens, Range, CoreInv
  <2>3. sessions' \in [DOMAIN sessions' -> Clients \cup {None}] /\ IsFiniteSet(DOMAIN sessions')
    BY <2>1, <2>2, TokensFiniteNext DEF Inv, SessionsInv, TokensFinite
  <2>4. /\ \A c \in Clients : saved'[c] # None => saved'[c] \in Tokens'
        /\ \A t \in Tasks : hand'[t] # None => hand'[t] \in Tokens'
    BY DEF Tokens, Range, CoreInv
  <2>5. TokenIsSession'
    BY <2>1, <2>4 DEF TokenIsSession, IsSession
  <2> QED BY <2>3, <2>5 DEF SessionsInv
<1> QED BY <1>1, <1>2

\* Task t goes on, and neither gets the mutex nor begins to read; if it has the
\* mutex it gives it back.
LEMMA TaskMoves ==
  ASSUME Inv, NEW t \in Tasks, NEW s \in Steps \ {"reading", "sending"},
         NEW u \in Nat, NEW r \in Nat, GotoRound(t, s, u, r),
         lock' = IF lock = t THEN None ELSE lock,
         UNCHANGED <<registry, conns>>,
         challenges' \in [Clients -> Tasks \cup {None, Nobody}],
         registered \subseteq registered', registered' \subseteq Clients,
         initialized' \subseteq registered',
         s = "dial" => t \in Ws, s \in {"commit", "complete"} => Owner[t] \in registered',
         saved' \in [Clients -> Nat],
         \A c \in Clients : saved'[c] # None => IsSession(saved'[c], c),
         u # None => IsSession(u, Owner[t]),
         sessions' = sessions \/ DropSessions
  PROVE  Inv'
<1>0. CoreInv /\ LockInv /\ TokenIsSession
  BY DEF Inv, SessionsInv
<1>1. /\ pc' \in [Tasks -> Steps] /\ hand' \in [Tasks -> Nat] /\ round' \in [Tasks -> Nat]
      /\ pc'[t] = s /\ hand'[t] = u /\ round'[t] = r
      /\ \A v \in Tasks \ {t} : pc'[v] = pc[v] /\ hand'[v] = hand[v] /\ round'[v] = round[v]
  BY <1>0 DEF GotoRound, CoreInv
<1>2. CoreInv'
  BY <1>0, <1>1 DEF CoreInv
<1>3. LockInv'
  BY <1>0, <1>1, SentinelAssumption DEF LockInv
<1>4. SessionsInv'
  BY <1>0, <1>1, <1>2, KnownTokens DEF TokenIsSession
<1>5. RegisteredInv'
  BY <1>1 DEF Inv, RegisteredInv, InitializedIsRegistered
<1>6. ConnsInv' /\ OrderInv'
  BY <1>1, <1>2, SameConns DEF Inv, ConnsInv
<1> QED BY <1>2, <1>3, <1>4, <1>5, <1>6 DEF Inv

\* The same when it changes neither accounts nor the configuration.
LEMMA TaskGoesOn ==
  ASSUME Inv, NEW t \in Tasks, NEW s \in Steps \ {"reading", "sending"},
         NEW u \in Nat, NEW r \in Nat, GotoRound(t, s, u, r),
         pc[t] # "sending" /\ lock' = lock,
         UNCHANGED <<registry, conns, registered, client>>,
         challenges' \in [Clients -> Tasks \cup {None, Nobody}],
         s = "dial" => t \in Ws, s \in {"commit", "complete"} => Owner[t] \in registered,
         u # None => IsSession(u, Owner[t]),
         sessions' = sessions \/ DropSessions
  PROVE  Inv'
<1>1. /\ registered \subseteq Clients /\ initialized \subseteq registered
      /\ saved \in [Clients -> Nat]
      /\ \A c \in Clients : saved[c] # None => IsSession(saved[c], c)
  BY DEF Inv, CoreInv, RegisteredInv, InitializedIsRegistered, SessionsInv, TokenIsSession
<1>2. lock # t
  BY DEF Inv, LockInv
<1> QED BY <1>1, <1>2, TaskMoves DEF client

\* A failure takes a task to one of these steps, with nothing in its hands.
LEMMA FailIs ==
  ASSUME CoreInv, NEW t \in Tasks, Fail(t)
  PROVE  \E s \in {"load", "idle", "gone"}, r \in Nat : GotoRound(t, s, None, r)
<1>1. PICK s \in {"load", "idle", "gone"} : Goto(t, s, None)
  BY DEF Fail
<1>2. PICK r \in Nat : GotoRound(t, s, None, r)
  BY <1>1 DEF Goto, CoreInv, None
<1> QED BY <1>2

LEMMA GotoIs ==
  ASSUME CoreInv, NEW t \in Tasks, NEW s, NEW u, Goto(t, s, u)
  PROVE  \E r \in Nat : GotoRound(t, s, u, r)
BY DEF Goto, CoreInv, None

LEMMA NextRoundIs ==
  ASSUME CoreInv, NEW t \in Tasks, NextRound(t)
  PROVE  \E s \in {"load", "bailed"}, r \in Nat : GotoRound(t, s, None, r)
BY DEF NextRound, None

\* So a failure keeps the invariant, whatever the server had done by then.
LEMMA FailInv ==
  ASSUME Inv, NEW t \in Tasks, Fail(t),
         lock' = IF lock = t THEN None ELSE lock,
         UNCHANGED <<registry, conns, client>>,
         challenges' \in [Clients -> Tasks \cup {None, Nobody}],
         registered \subseteq registered', registered' \subseteq Clients,
         sessions' = sessions \/ DropSessions
  PROVE  Inv'
<1>1. PICK s \in {"load", "idle", "gone"}, r \in Nat : GotoRound(t, s, None, r)
  BY FailIs DEF Inv
<1>2. s \in Steps \ {"reading", "sending"} /\ s \notin {"commit", "complete"} /\ None \in Nat
  BY DEF Steps, Requests, None
<1>3. /\ initialized' \subseteq registered' /\ saved' \in [Clients -> Nat]
      /\ \A c \in Clients : saved'[c] # None => IsSession(saved'[c], c)
  BY DEF Inv, CoreInv, RegisteredInv, InitializedIsRegistered, SessionsInv, TokenIsSession,
         client
<1> QED BY <1>1, <1>2, <1>3, TaskMoves

LEMMA SameLock ==
  ASSUME Inv, NEW t \in Tasks, pc[t] # "sending"
  PROVE  lock = IF lock = t THEN None ELSE lock
BY DEF Inv, LockInv

-----------------------------------------------------------------------------
(* The first start and the login.                                           *)

LEMMA StartSetupInv ==
  ASSUME Inv, NEW t \in Tasks, StartSetup(t)
  PROVE  Inv'
<1>1. PICK s \in {"begin", "register"} : pc' = [pc EXCEPT ![t] = s]
  BY DEF StartSetup
<1>2. /\ UNCHANGED <<server, conns, client, hand, round>> /\ pc[t] = "idle"
      /\ hand[t] \in Nat /\ round[t] \in Nat
      /\ hand[t] # None => IsSession(hand[t], Owner[t])
  BY DEF StartSetup, Inv, CoreInv, SessionsInv, TokenIsSession
<1>3. GotoRound(t, s, hand[t], round[t])
  BY <1>1, <1>2 DEF GotoRound, Inv, CoreInv
<1>4. s \in Steps \ {"reading", "sending"} /\ s \notin {"commit", "complete"}
  BY DEF Steps, Requests
<1>5. challenges \in [Clients -> Tasks \cup {None, Nobody}]
  BY DEF Inv, CoreInv
<1> QED BY <1>2, <1>3, <1>4, <1>5, TaskGoesOn DEF server

\* challenge_begin.
LEMMA ChallengeBeginInv ==
  ASSUME Inv, NEW t \in Tasks, NEW s \in {"answer", "complete"}, ChallengeBegin(t, s),
         pc[t] # "sending", s = "complete" => Owner[t] \in registered,
         UNCHANGED <<registered, sessions, registry, lock, conns, client>>
  PROVE  Inv'
<1>1. PICK r \in Nat : GotoRound(t, s, None, r)
  BY GotoIs DEF ChallengeBegin, Inv
<1>2. challenges' \in [Clients -> Tasks \cup {None, Nobody}]
  BY OwnerAssumption DEF ChallengeBegin, Inv, CoreInv
<1>3. s \in Steps \ {"reading", "sending"} /\ s # "commit" /\ None \in Nat
  BY DEF Steps, Requests, None
<1> QED BY <1>1, <1>2, <1>3, TaskGoesOn

LEMMA BeginInv ==
  ASSUME Inv, NEW t \in Tasks, RegisterBegin(t) \/ LoginBegin(t)
  PROVE  Inv'
<1>1. UNCHANGED <<registered, sessions, registry, lock, conns, client>> /\ pc[t] # "sending"
  BY DEF RegisterBegin, LoginBegin
<1>2. CASE Fail(t) /\ UNCHANGED challenges
  BY <1>1, <1>2, FailInv, SameLock DEF Inv, CoreInv
<1>3. CASE ChallengeBegin(t, "answer")
  BY <1>1, <1>3, ChallengeBeginInv
<1>4. CASE ChallengeBegin(t, "complete") /\ Owner[t] \in registered
  BY <1>1, <1>4, ChallengeBeginInv
<1> QED BY <1>2, <1>3, <1>4 DEF RegisterBegin, LoginBegin

LEMMA RegisterCompleteInv ==
  ASSUME Inv, NEW t \in Tasks, RegisterComplete(t)
  PROVE  Inv'
<1>1. /\ UNCHANGED <<sessions, registry, lock, conns, client>> /\ pc[t] = "answer"
      /\ lock' = IF lock = t THEN None ELSE lock
      /\ registered \subseteq Clients
      /\ challenges \in [Clients -> Tasks \cup {None, Nobody}]
      /\ Owner[t] \in Clients
  BY SameLock, OwnerAssumption DEF RegisterComplete, Inv, CoreInv
<1>2. CASE Fail(t) /\ UNCHANGED <<challenges, registered>>
  BY <1>1, <1>2, FailInv
<1>3. CASE /\ challenges' = [challenges EXCEPT ![Owner[t]] = None]
           /\ registered' = registered \cup {Owner[t]}
           /\ Goto(t, "commit", None)
  <2>1. PICK r \in Nat : GotoRound(t, "commit", None, r)
    BY <1>3, GotoIs DEF Inv
  <2>2. "commit" \in Steps \ {"reading", "sending"} /\ None \in Nat
    BY DEF Steps, None
  <2>3. /\ challenges' \in [Clients -> Tasks \cup {None, Nobody}]
        /\ registered \subseteq registered' /\ registered' \subseteq Clients
        /\ Owner[t] \in registered'
    BY <1>1, <1>3
  <2>4. /\ initialized' \subseteq registered' /\ saved' \in [Clients -> Nat]
        /\ \A c \in Clients : saved'[c] # None => IsSession(saved'[c], c)
    BY <1>1, <2>3 DEF Inv, CoreInv, RegisteredInv, InitializedIsRegistered, SessionsInv,
       TokenIsSession, client
  <2> QED BY <1>1, <2>1, <2>2, <2>3, <2>4, TaskMoves
<1> QED BY <1>2, <1>3 DEF RegisterComplete

LEMMA CommitInv ==
  ASSUME Inv, NEW t \in Tasks, Commit(t)
  PROVE  Inv'
<1>1. /\ UNCHANGED <<registered, challenges, registry, lock, conns, saved>>
      /\ pc[t] = "commit" /\ lock' = IF lock = t THEN None ELSE lock
      /\ initialized' = initialized \cup {Owner[t]} /\ Goto(t, "done", None) /\ DropSessions
  BY SameLock DEF Commit
<1>2. PICK r \in Nat : GotoRound(t, "done", None, r)
  BY <1>1, GotoIs DEF Inv
<1>3. "done" \in Steps \ {"reading", "sending"} /\ None \in Nat
  BY DEF Steps, None
<1>4. initialized' \subseteq registered
  BY <1>1 DEF Inv, RegisteredInv, InitializedIsRegistered
<1>5. /\ registered \subseteq Clients /\ saved \in [Clients -> Nat]
      /\ challenges \in [Clients -> Tasks \cup {None, Nobody}]
      /\ \A c \in Clients : saved[c] # None => IsSession(saved[c], c)
  BY DEF Inv, CoreInv, SessionsInv, TokenIsSession
<1> QED BY <1>1, <1>2, <1>3, <1>4, <1>5, TaskMoves

LEMMA LoginCompleteInv ==
  ASSUME Inv, NEW t \in Tasks, LoginComplete(t)
  PROVE  Inv'
<1> DEFINE token == Fresh(Tokens)
           c == Owner[t]
<1>0. CoreInv /\ LockInv /\ TokenIsSession /\ Owner[t] \in Clients
  BY OwnerAssumption DEF Inv, SessionsInv
<1>1. PICK s \in {"commit", "save"} : Goto(t, s, token)
  BY DEF LoginComplete
<1>2. PICK r \in Nat : GotoRound(t, s, token, r)
  BY <1>0, <1>1, GotoIs
<1>3. /\ pc[t] = "complete" /\ sessions' = Put(sessions, token, c)
      /\ challenges' = [challenges EXCEPT ![c] = None]
      /\ UNCHANGED <<registered, registry, lock, conns, client>>
  BY DEF LoginComplete, SessionStart
<1>4. token \notin Tokens /\ token \in Nat /\ token # None
  BY <1>0, TokensAreFinite, FreshIsNew DEF TokensFinite, None
<1> HIDE DEF token, c
<1>5. /\ pc' \in [Tasks -> Steps] /\ hand' \in [Tasks -> Nat] /\ round' \in [Tasks -> Nat]
      /\ pc'[t] = s /\ hand'[t] = token
      /\ \A v \in Tasks \ {t} : pc'[v] = pc[v] /\ hand'[v] = hand[v] /\ round'[v] = round[v]
  BY <1>0, <1>2, <1>4 DEF GotoRound, CoreInv, Steps
<1>6. CoreInv'
  BY <1>0, <1>3, <1>5 DEF CoreInv, client
<1>7. LockInv'
  BY <1>0, <1>3, <1>5 DEF LockInv
<1>8. SessionsInv'
  <2>1. c \in Clients \cup {None} /\ c \in Clients
    BY <1>0 DEF c
  <2>2. /\ sessions' \in [DOMAIN sessions' -> Clients \cup {None}]
        /\ IsFiniteSet(DOMAIN sessions') /\ token \in DOMAIN sessions' /\ sessions'[token] = c
        /\ \A u \in DOMAIN sessions \ {token} : u \in DOMAIN sessions' /\ sessions'[u] = sessions[u]
    <3>1. sessions \in [DOMAIN sessions -> Clients \cup {None}] /\ IsFiniteSet(DOMAIN sessions)
      BY DEF Inv, SessionsInv
    <3>2. /\ DOMAIN sessions' = DOMAIN sessions \cup {token} /\ sessions'[token] = c
          /\ \A u \in DOMAIN sessions \ {token} : sessions'[u] = sessions[u]
      BY <1>3 DEF Put
    <3>3. sessions' \in [DOMAIN sessions \cup {token} -> Clients \cup {None}]
      BY <1>3, <2>1, <3>1, PutType
    <3>4. IsFiniteSet(DOMAIN sessions \cup {token})
      BY <3>1, FS_AddElement
    <3> QED BY <3>2, <3>3, <3>4
  <2>3. ASSUME NEW d \in Clients, saved'[d] # None PROVE IsSession(saved[d], d)'
    <3>1. saved'[d] \in Tokens /\ IsSession(saved'[d], d)
      BY <1>0, <1>3, <2>3 DEF Tokens, Range, CoreInv, TokenIsSession, client
    <3> QED BY <1>4, <2>2, <3>1 DEF IsSession
  <2>4. ASSUME NEW v \in Tasks, hand'[v] # None PROVE IsSession(hand[v], Owner[v])'
    <3>1. CASE v = t
      BY <1>5, <2>2, <3>1 DEF IsSession, c
    <3>2. CASE v # t
      <4>1. hand'[v] = hand[v] /\ hand[v] \in Tokens /\ IsSession(hand[v], Owner[v])
        BY <1>0, <1>5, <2>4, <3>2 DEF Tokens, Range, CoreInv, TokenIsSession
      <4> QED BY <1>4, <2>2, <4>1 DEF IsSession
    <3> QED BY <3>1, <3>2
  <2> QED BY <2>2, <2>3, <2>4 DEF SessionsInv, TokenIsSession
<1>9. RegisteredInv'
  BY <1>3, <1>5 DEF Inv, RegisteredInv, InitializedIsRegistered, client
<1>10. ConnsInv' /\ OrderInv'
  BY <1>3, <1>5, <1>6, SameConns DEF Inv, ConnsInv
<1> QED BY <1>6, <1>7, <1>8, <1>9, <1>10 DEF Inv

LEMMA LoginRefusedInv ==
  ASSUME Inv, NEW t \in Tasks, LoginRefused(t)
  PROVE  Inv'
BY FailInv, SameLock DEF LoginRefused, Inv, CoreInv, server

\* The token that is saved is the one in the task's hands, or none.
LEMMA SavesInv ==
  ASSUME Inv, NEW t \in Tasks, SaveToken(t) \/ ForgetToken(t)
  PROVE  Inv'
<1>1. /\ UNCHANGED <<registered, challenges, registry, lock, conns, initialized>>
      /\ pc[t] # "sending" /\ NextRound(t) /\ DropSessions
      /\ lock' = IF lock = t THEN None ELSE lock
      /\ Owner[t] \in Clients /\ CoreInv /\ TokenIsSession
  BY SameLock, OwnerAssumption DEF SaveToken, ForgetToken, Inv, SessionsInv
<1>2. PICK u \in {hand[t], None} : saved' = [saved EXCEPT ![Owner[t]] = u]
  BY DEF SaveToken, ForgetToken
<1>3. /\ saved' \in [Clients -> Nat]
      /\ \A c \in Clients : saved'[c] # None => IsSession(saved'[c], c)
  BY <1>1, <1>2 DEF CoreInv, TokenIsSession, None
<1>4. PICK s \in {"load", "bailed"}, r \in Nat : GotoRound(t, s, None, r)
  BY <1>1, NextRoundIs
<1>5. /\ s \in Steps \ {"reading", "sending"} /\ s \notin {"commit", "complete"}
      /\ None \in Nat
  BY DEF Steps, Requests, None
<1>6. /\ initialized \subseteq registered /\ registered \subseteq Clients
      /\ challenges \in [Clients -> Tasks \cup {None, Nobody}]
  BY <1>1 DEF Inv, CoreInv, RegisteredInv, InitializedIsRegistered
<1> QED BY <1>1, <1>3, <1>4, <1>5, <1>6, TaskMoves

-----------------------------------------------------------------------------
(* Calls.                                                                   *)

LEMMA WithTokenInv ==
  ASSUME Inv, NEW t \in Tasks, NEW r \in Nat, WithToken(t, r), pc[t] # "sending",
         UNCHANGED <<server, conns, client>>
  PROVE  Inv'
<1>1. PICK s \in {"begin", "dial", "call"} :
        GotoRound(t, s, saved[Owner[t]], r) /\ (s = "dial" => t \in Ws)
  BY DEF WithToken
<1>2. s \in Steps \ {"reading", "sending"} /\ s \notin {"commit", "complete"}
  BY DEF Steps, Requests
<1>3. /\ saved[Owner[t]] \in Nat
      /\ saved[Owner[t]] # None => IsSession(saved[Owner[t]], Owner[t])
      /\ challenges \in [Clients -> Tasks \cup {None, Nobody}]
  BY OwnerAssumption DEF Inv, CoreInv, SessionsInv, TokenIsSession
<1> QED BY <1>1, <1>2, <1>3, TaskGoesOn DEF server

LEMMA LoadsInv ==
  ASSUME Inv, NEW t \in Tasks, Call(t) \/ LoadToken(t)
  PROVE  Inv'
<1>1. round[t] \in Nat /\ 1 \in Nat
  BY DEF Inv, CoreInv
<1> QED BY <1>1, WithTokenInv DEF Call, LoadToken

\* A task drops its token, or has none, and goes on.
LEMMA EmptyHandedInv ==
  ASSUME Inv, NEW t \in Tasks, NEW s \in Steps \ {"reading", "sending", "dial", "commit", "complete"},
         Goto(t, s, None), lock' = IF lock = t THEN None ELSE lock,
         UNCHANGED <<registry, conns, registered, challenges, client>>,
         sessions' = sessions \/ DropSessions
  PROVE  Inv'
<1>1. PICK r \in Nat : GotoRound(t, s, None, r)
  BY GotoIs DEF Inv
<1>2. /\ initialized' \subseteq registered' /\ saved' \in [Clients -> Nat]
      /\ \A c \in Clients : saved'[c] # None => IsSession(saved'[c], c)
      /\ registered \subseteq Clients /\ challenges \in [Clients -> Tasks \cup {None, Nobody}]
  BY DEF Inv, CoreInv, RegisteredInv, InitializedIsRegistered, SessionsInv, TokenIsSession,
         client
<1>3. None \in Nat
  BY DEF None
<1> QED BY <1>1, <1>2, <1>3, TaskMoves

LEMMA HandleInv ==
  ASSUME Inv, NEW t \in Tasks, Handle(t)
  PROVE  Inv'
<1>1. /\ pc[t] # "sending" /\ DropSessions
      /\ UNCHANGED <<registered, challenges, registry, lock, conns, client>>
  BY DEF Handle
<1>2. PICK s \in {"forget", "idle", "lock"} : Goto(t, s, None)
  BY DEF Handle
<1>3. s \in Steps \ {"reading", "sending", "dial", "commit", "complete"}
  BY DEF Steps, Requests
<1> QED BY <1>1, <1>2, <1>3, EmptyHandedInv, SameLock

LEMMA BackToIdleInv ==
  ASSUME Inv, NEW t \in Tasks, Bail(t) \/ SendMessage(t)
  PROVE  Inv'
<1>1. "idle" \in Steps \ {"reading", "sending", "dial", "commit", "complete"}
  BY DEF Steps
<1>2. CASE Bail(t)
  <2>1. /\ pc[t] # "sending" /\ Goto(t, "idle", None)
        /\ UNCHANGED <<registered, challenges, sessions, registry, lock, conns, client>>
    BY <1>2 DEF Bail, server
  <2> QED BY <1>1, <2>1, EmptyHandedInv, SameLock
<1>3. CASE SendMessage(t)
  <2>1. lock' = IF lock = t THEN None ELSE lock
    BY <1>3 DEF SendMessage, Inv, LockInv
  <2> QED BY <1>1, <1>3, <2>1, EmptyHandedInv DEF SendMessage
<1> QED BY <1>2, <1>3

LEMMA LockRegistryInv ==
  ASSUME Inv, NEW t \in Tasks, LockRegistry(t)
  PROVE  Inv'
<1>1. /\ pc[t] = "lock" /\ lock = None
      /\ UNCHANGED <<registered, challenges, sessions, registry, conns, client>>
  BY DEF LockRegistry
<1>2. CASE Goto(t, "idle", None) /\ UNCHANGED lock
  <2>1. "idle" \in Steps \ {"reading", "sending", "dial", "commit", "complete"}
    BY DEF Steps
  <2> QED BY <1>1, <1>2, <2>1, EmptyHandedInv, SameLock
<1>3. CASE \E c \in Clients : /\ registry[c] # None /\ lock' = t
                              /\ GotoRound(t, "sending", None, registry[c])
  <2>1. PICK c \in Clients : /\ registry[c] # None /\ lock' = t
                             /\ GotoRound(t, "sending", None, registry[c])
    BY <1>3
  <2>2. /\ pc' = [pc EXCEPT ![t] = "sending"] /\ hand' = [hand EXCEPT ![t] = None]
        /\ round' = [round EXCEPT ![t] = registry[c]] /\ registry[c] \in Nat /\ None \in Nat
    BY <2>1 DEF GotoRound, Inv, CoreInv, None
  <2>3. CoreInv' /\ LockInv'
    BY <1>1, <2>1, <2>2, SentinelAssumption
    DEF Inv, CoreInv, LockInv, Steps, Requests, client
  <2>4. SessionsInv'
    BY <1>1, <2>2 DEF Inv, CoreInv, SessionsInv, TokenIsSession, IsSession, client
  <2>5. RegisteredInv'
    BY <1>1, <2>2 DEF Inv, CoreInv, RegisteredInv, InitializedIsRegistered, client
  <2>6. Target(t)'
    BY <1>1, <2>1, <2>2 DEF Target, Inv, CoreInv
  <2>7. ConnsInv' /\ OrderInv'
    BY <1>1, <2>2, <2>3, <2>6, SameConns DEF Inv, CoreInv, ConnsInv
  <2> QED BY <2>3, <2>4, <2>5, <2>7 DEF Inv
<1> QED BY <1>2, <1>3 DEF LockRegistry

-----------------------------------------------------------------------------
(* Connections.                                                             *)

LEMMA ReconnectInv ==
  ASSUME Inv, NEW t \in Tasks, Reconnect(t)
  PROVE  Inv'
<1>1. /\ pc[t] # "sending" /\ GotoRound(t, "load", None, None)
      /\ UNCHANGED <<registered, challenges, sessions, registry, lock, conns, client>>
  BY DEF Reconnect, server
<1>2. "load" \in Steps \ {"reading", "sending"} /\ None \in Nat
  BY DEF Steps, None
<1>3. challenges \in [Clients -> Tasks \cup {None, Nobody}]
  BY DEF Inv, CoreInv
<1> QED BY <1>1, <1>2, <1>3, TaskGoesOn

\* A new connection takes the place of one that is not needed any more.
LEMMA DialledInv ==
  ASSUME Inv, NEW t \in Tasks, pc[t] = "dial",
         NEW needed, needed = {k \in DOMAIN conns : Needed(k)},
         NEW k \in 1..MaxConns, k \notin needed,
         NEW new \in Connection, new.client = Owner[t], new.listener = "reading",
         new.sink = "inserting",
         new.orderly => \A j \in DOMAIN conns : conns[j].client = Owner[t] => ~Unfinished(j),
         DOMAIN conns' = needed \cup {k}, conns' \in [DOMAIN conns' -> Connection],
         conns'[k] = new, \A j \in needed : conns'[j] = conns[j],
         GotoRound(t, "reading", None, k), DropSessions,
         UNCHANGED <<registered, challenges, registry, lock, client>>
  PROVE  Inv'
<1>0. CoreInv /\ LockInv /\ SessionsInv /\ RegisteredInv /\ ConnsInv /\ OrderInv
  BY DEF Inv
<1>1. /\ pc' \in [Tasks -> Steps] /\ hand' \in [Tasks -> Nat] /\ round' \in [Tasks -> Nat]
      /\ pc'[t] = "reading" /\ hand'[t] = None /\ round'[t] = k
      /\ \A v \in Tasks \ {t} : pc'[v] = pc[v] /\ hand'[v] = hand[v] /\ round'[v] = round[v]
  BY <1>0, BoundAssumption DEF GotoRound, CoreInv, Steps, None
<1>2. CoreInv'
  BY <1>0, <1>1 DEF CoreInv, client
<1>3. LockInv'
  BY <1>0, <1>1 DEF LockInv
<1>4. SessionsInv'
  BY <1>0, <1>1, <1>2, KnownTokens DEF SessionsInv, TokenIsSession, client
<1>5. RegisteredInv'
  BY <1>0, <1>1 DEF RegisteredInv, InitializedIsRegistered, client
<1>6. \A v \in Tasks \ {t} : pc[v] = "reading" => round[v] \in needed
  BY <1>0 DEF Needed, ConnsInv
<1>7. \A c \in Clients : registry[c] # None => registry[c] \in needed
  BY <1>0 DEF Needed, ConnsInv, CoreInv, Range
<1>8. ConnsInv'
  <2>1. DOMAIN conns' \subseteq 1..MaxConns
    BY <1>0 DEF ConnsInv
  <2>2. \A j \in DOMAIN conns' : conns'[j].link = "up" => conns'[j].listener = "reading"
    BY <1>0 DEF ConnsInv
  <2>3. \A c \in Clients : registry[c] # None =>
          registry[c] \in DOMAIN conns' /\ conns'[registry[c]].client = c
    BY <1>0, <1>7 DEF ConnsInv
  <2>4. \A v \in Tasks : pc'[v] \in {"dial", "reading"} => v \in Ws
    BY <1>0, <1>1 DEF ConnsInv
  <2>5. \A v \in Tasks : pc'[v] = "reading" =>
          round'[v] \in DOMAIN conns' /\ conns'[round'[v]].client = Owner[v]
    BY <1>0, <1>1, <1>6 DEF ConnsInv
  <2>6. \A v \in Tasks : pc'[v] = "sending" => Target(v)'
    BY <1>0, <1>1 DEF ConnsInv, Target
  <2> QED BY <2>1, <2>2, <2>3, <2>4, <2>5, <2>6 DEF ConnsInv
<1>9. OrderInv'
  <2> SUFFICES ASSUME NEW v \in Ws PROVE Orderly(v)'
    BY DEF OrderInv
  <2>1. CASE v = t
    BY <1>1, <2>1 DEF Orderly, Unfinished
  <2>2. CASE v # t
    <3>1. Owner[v] # Owner[t] /\ v \in Tasks
      BY <1>0, <2>2, WsAssumption DEF ConnsInv, Tasks
    <3>2. Orderly(v)
      BY <1>0 DEF OrderInv
    <3>3. pc'[v] = "reading" => round'[v] = round[v] /\ round[v] \in needed /\ round[v] # k
      BY <1>1, <1>6, <2>2, <3>1
    <3> QED BY <1>1, <2>2, <3>1, <3>2, <3>3 DEF Orderly, Unfinished
  <2> QED BY <2>1, <2>2
<1> QED BY <1>2, <1>3, <1>4, <1>5, <1>8, <1>9 DEF Inv

LEMMA DialInv ==
  ASSUME Inv, NEW t \in Tasks, Dial(t)
  PROVE  Inv'
<1>1. /\ pc[t] = "dial" /\ DropSessions
      /\ UNCHANGED <<registered, challenges, registry, lock, client>>
  BY DEF Dial
<1>2. CASE Goto(t, "forget", None) /\ UNCHANGED conns
  <2>1. "forget" \in Steps \ {"reading", "sending", "dial", "commit", "complete"}
    BY DEF Steps
  <2> QED BY <1>1, <1>2, <2>1, EmptyHandedInv, SameLock
<1>3. CASE ~(Goto(t, "forget", None) /\ UNCHANGED conns)
  <2> DEFINE needed == {k \in DOMAIN conns : Needed(k)}
             k == Fresh(needed)
             orderly == \A j \in DOMAIN conns : conns[j].client = Owner[t] => ~Unfinished(j)
             new == [client |-> Owner[t], link |-> "up", sink |-> "inserting",
                     listener |-> "reading", orderly |-> orderly]
  <2>1. /\ k <= MaxConns /\ conns' = Put(Restrict(conns, needed), k, new)
        /\ GotoRound(t, "reading", None, k)
    BY <1>3, Zenon DEF Dial
  <2>2. needed \subseteq DOMAIN conns /\ DOMAIN conns \subseteq 1..MaxConns
    BY DEF Inv, ConnsInv
  <2>3. IsFiniteSet(needed)
    <3>1. MaxConns \in Int /\ 1 \in Int
      BY BoundAssumption
    <3>2. IsFiniteSet(1..MaxConns)
      BY <3>1, FS_Interval
    <3> QED BY <2>2, <3>2, FS_Subset
  <2>4. k \notin needed /\ k \in 1..MaxConns
    BY <2>1, <2>3, FreshIsNew, BoundAssumption
  <2>5. /\ new \in Connection /\ new.client = Owner[t] /\ new.listener = "reading"
        /\ new.sink = "inserting" /\ (new.orderly => orderly)
    BY OwnerAssumption DEF Connection
  <2> HIDE DEF k, new, orderly
  <2>6. /\ DOMAIN conns' = needed \cup {k}
        /\ conns'[k] = new /\ \A j \in needed : conns'[j] = conns[j]
    BY <2>1, <2>4 DEF Put, Restrict
  <2>7. conns' \in [DOMAIN conns' -> Connection]
    <3>1. \A j \in DOMAIN conns' : conns'[j] \in Connection
      BY <2>2, <2>5, <2>6 DEF Inv, ConnsInv
    <3>2. conns' = [j \in DOMAIN conns' |-> conns'[j]]
      BY <2>1 DEF Put
    <3> QED BY <3>1, <3>2
  <2>8. new.orderly => \A j \in DOMAIN conns : conns[j].client = Owner[t] => ~Unfinished(j)
    BY <2>5 DEF orderly
  <2> QED BY <1>1, <2>1, <2>4, <2>5, <2>6, <2>7, <2>8, DialledInv
<1> QED BY <1>2, <1>3

\* Only connections and the registry change, and no connection comes back to life.
LEMMA ConnInv ==
  ASSUME Inv, UNCHANGED <<registered, challenges, sessions, lock, client, tasks>>,
         NEW k \in DOMAIN conns, NEW r \in Connection, conns' = [conns EXCEPT ![k] = r],
         r.client = conns[k].client, r.orderly = conns[k].orderly,
         r.link = "up" => conns[k].link = "up" /\ r.listener = "reading",
         registry' \in [Clients -> Nat],
         \A c \in Clients \ {r.client} : registry'[c] = registry[c],
         registry'[r.client] \in {registry[r.client], None, k},
         registry' # registry => Unfinished(k) /\ lock = None,
         ~Unfinished(k) => r.sink = conns[k].sink /\ r.listener = conns[k].listener,
         registry' # registry /\ r.link = "up" => registry'[r.client] = k,
         r.link = "up" /\ r.sink = "inserted" => conns[k].sink = "inserted" \/ registry'[r.client] = k
  PROVE  Inv'
<1>0. CoreInv /\ LockInv /\ SessionsInv /\ RegisteredInv /\ ConnsInv /\ OrderInv
  BY DEF Inv
<1>1. /\ CoreInv' /\ LockInv' /\ SessionsInv' /\ RegisteredInv'
  BY <1>0 DEF CoreInv, LockInv, SessionsInv, TokenIsSession, IsSession, RegisteredInv,
     InitializedIsRegistered, client, tasks
<1>2. /\ DOMAIN conns' = DOMAIN conns /\ conns' \in [DOMAIN conns' -> Connection]
      /\ conns'[k] = r /\ \A j \in DOMAIN conns \ {k} : conns'[j] = conns[j]
  BY <1>0 DEF ConnsInv
<1>3. ConnsInv'
  <2>1. \A j \in DOMAIN conns : conns'[j].client = conns[j].client
    BY <1>2
  <2>2. r.client \in Clients
    BY DEF Connection
  <2>3. \A c \in Clients : registry'[c] # None =>
          registry'[c] \in DOMAIN conns /\ conns[registry'[c]].client = c
    BY <1>0, <2>2 DEF ConnsInv
  <2>4. \A j \in DOMAIN conns : conns'[j].link = "up" => conns'[j].listener = "reading"
    BY <1>0, <1>2 DEF ConnsInv
  <2>5. \A t \in Tasks : pc[t] = "sending" => Target(t)'
    BY <1>0, SentinelAssumption DEF ConnsInv, LockInv, Target, tasks
  <2> QED BY <1>0, <1>2, <2>1, <2>3, <2>4, <2>5 DEF ConnsInv, tasks
<1>4. OrderInv'
  <2> SUFFICES ASSUME NEW v \in Ws, pc[v] = "reading", conns'[round[v]].orderly
               PROVE  /\ \A j \in DOMAIN conns \ {round[v]} :
                           conns'[j].client = Owner[v] => ~Unfinished(j)'
                      /\ conns'[round[v]].link = "up" /\ conns'[round[v]].sink = "inserted"
                           => registry'[Owner[v]] = round[v]
    BY <1>2 DEF OrderInv, Orderly, tasks
  <2>1. /\ round[v] \in DOMAIN conns /\ conns[round[v]].client = Owner[v]
        /\ conns[round[v]].orderly
    BY <1>0, <1>2 DEF ConnsInv, Tasks
  <2>2. /\ \A j \in DOMAIN conns \ {round[v]} : conns[j].client = Owner[v] => ~Unfinished(j)
        /\ conns[round[v]].link = "up" /\ conns[round[v]].sink = "inserted"
             => registry[Owner[v]] = round[v]
    BY <1>0, <2>1 DEF OrderInv, Orderly
  <2>3. \A j \in DOMAIN conns \ {round[v]} : conns'[j].client = Owner[v] => ~Unfinished(j)'
    BY <1>2, <2>2 DEF Unfinished
  <2>4. CASE round[v] = k
    BY <1>2, <2>1, <2>2, <2>3, <2>4
  <2>5. CASE round[v] # k
    <3>1. conns[k].client = Owner[v] => registry' = registry
      BY <2>2, <2>5
    <3>2. registry'[Owner[v]] = registry[Owner[v]]
      BY <3>1, OwnerAssumption DEF Tasks
    <3> QED BY <1>2, <2>1, <2>2, <2>3, <2>5, <3>2
  <2> QED BY <2>4, <2>5
<1> QED BY <1>1, <1>3, <1>4 DEF Inv

\* The steps of the two ends of a connection.
LEMMA ConnStepInv ==
  ASSUME Inv, NEW k \in DOMAIN conns,
         NewConnection(k) \/ ListenerEnds(k) \/ RemoveConnection(k) \/ Break(k) \/ Silence(k)
  PROVE  Inv'
<1>0. /\ conns \in [DOMAIN conns -> Connection] /\ conns[k] \in Connection
      /\ conns[k].client \in Clients /\ registry \in [Clients -> Nat] /\ k \in Nat
      /\ conns[k].link = "up" => conns[k].listener = "reading"
  BY BoundAssumption DEF Inv, CoreInv, ConnsInv, Connection
<1>1. UNCHANGED <<registered, challenges, sessions, lock, client, tasks>>
  BY DEF NewConnection, ListenerEnds, RemoveConnection, Break, Silence, server
<1>2. CASE NewConnection(k)
  <2> DEFINE r == [conns[k] EXCEPT !.sink = "inserted"]
  <2>1. /\ r \in Connection /\ r.client = conns[k].client /\ r.orderly = conns[k].orderly
        /\ r.link = conns[k].link /\ r.listener = conns[k].listener
    BY <1>0 DEF Connection
  <2>2. /\ conns' = [conns EXCEPT ![k] = r] /\ conns[k].sink = "inserting" /\ lock = None
        /\ registry' = [registry EXCEPT ![conns[k].client] = k]
    BY <1>2 DEF NewConnection, Insert
  <2> HIDE DEF r
  <2>3. /\ registry' \in [Clients -> Nat] /\ registry'[r.client] = k /\ Unfinished(k)
        /\ \A c \in Clients \ {r.client} : registry'[c] = registry[c]
    BY <1>0, <2>1, <2>2 DEF Unfinished
  <2> QED BY <1>0, <1>1, <2>1, <2>2, <2>3, ConnInv
<1>3. CASE ListenerEnds(k)
  <2> DEFINE r == [conns[k] EXCEPT !.listener = "removing"]
  <2>1. /\ r \in Connection /\ r.client = conns[k].client /\ r.orderly = conns[k].orderly
        /\ r.link = conns[k].link
    BY <1>0 DEF Connection
  <2>2. /\ conns' = [conns EXCEPT ![k] = r] /\ Unfinished(k) /\ conns[k].link # "up"
        /\ registry' = registry
    BY <1>3 DEF ListenerEnds, Unfinished, server
  <2> HIDE DEF r
  <2> QED BY <1>0, <1>1, <2>1, <2>2, ConnInv
<1>4. CASE RemoveConnection(k)
  <2> DEFINE r == [conns[k] EXCEPT !.listener = "ended"]
  <2>1. /\ r \in Connection /\ r.client = conns[k].client /\ r.orderly = conns[k].orderly
        /\ r.link = conns[k].link
    BY <1>0 DEF Connection
  <2>2. /\ conns' = [conns EXCEPT ![k] = r] /\ conns[k].listener = "removing" /\ lock = None
        /\ registry' = [registry EXCEPT ![conns[k].client] = None]
    BY <1>4 DEF RemoveConnection
  <2> HIDE DEF r
  <2>3. /\ registry' \in [Clients -> Nat] /\ registry'[r.client] = None /\ Unfinished(k)
        /\ \A c \in Clients \ {r.client} : registry'[c] = registry[c]
    BY <1>0, <2>1, <2>2 DEF Unfinished, None
  <2>4. r.link # "up"
    BY <1>0, <2>1, <2>2
  <2> QED BY <1>0, <1>1, <2>1, <2>2, <2>3, <2>4, ConnInv
<1>5. CASE Break(k) \/ Silence(k)
  <2>1. PICK l \in {"down", "silent"} : conns' = [conns EXCEPT ![k].link = l]
    BY <1>5 DEF Break, Silence
  <2> DEFINE r == [conns[k] EXCEPT !.link = l]
  <2>2. /\ r \in Connection /\ r.client = conns[k].client /\ r.orderly = conns[k].orderly
        /\ r.sink = conns[k].sink /\ r.listener = conns[k].listener /\ r.link # "up"
    BY <1>0 DEF Connection
  <2>3. conns' = [conns EXCEPT ![k] = r] /\ registry' = registry
    BY <1>0, <1>5, <2>1 DEF Break, Silence, server
  <2> HIDE DEF r
  <2> QED BY <1>0, <1>1, <2>2, <2>3, ConnInv
<1> QED BY <1>2, <1>3, <1>4, <1>5

-----------------------------------------------------------------------------
(* Faults.                                                                  *)

LEMMA RequestLostInv ==
  ASSUME Inv, NEW t \in Tasks, RequestLost(t)
  PROVE  Inv'
<1>1. /\ Fail(t) /\ DropSessions /\ UNCHANGED <<registry, conns, client>>
      /\ lock' = IF lock = t THEN None ELSE lock
  BY DEF RequestLost
<1>2. /\ challenges \in [Clients -> Tasks \cup {None, Nobody}]
      /\ registered \subseteq Clients /\ Owner[t] \in Clients
  BY OwnerAssumption DEF Inv, CoreInv
<1>3. /\ challenges' \in {challenges, [challenges EXCEPT ![Owner[t]] = None],
                          [challenges EXCEPT ![Owner[t]] = Nobody]}
      /\ registered' \in {registered, registered \cup {Owner[t]}}
  BY DEF RequestLost
<1>4. challenges' \in [Clients -> Tasks \cup {None, Nobody}]
  BY <1>2, <1>3
<1>5. registered \subseteq registered' /\ registered' \subseteq Clients
  BY <1>2, <1>3
<1> QED BY <1>1, <1>4, <1>5, FailInv

LEMMA ExpiryInv ==
  ASSUME Inv,
         (\E c \in Clients : ChallengeExpires(c)) \/ \E u \in DOMAIN sessions : SessionExpires(u)
  PROVE  Inv'
<1>0. CoreInv /\ LockInv /\ SessionsInv /\ RegisteredInv /\ ConnsInv /\ OrderInv
  BY DEF Inv
<1>1. UNCHANGED <<registered, registry, lock, conns, client, tasks>>
  BY DEF ChallengeExpires, SessionExpires
<1>2. challenges' \in [Clients -> Tasks \cup {None, Nobody}]
  BY <1>0 DEF ChallengeExpires, SessionExpires, CoreInv
<1>3. /\ DOMAIN sessions' = DOMAIN sessions
      /\ sessions' \in [DOMAIN sessions' -> Clients \cup {None}]
      /\ \A u \in DOMAIN sessions : sessions'[u] \in {sessions[u], None}
  BY <1>0 DEF ChallengeExpires, SessionExpires, SessionsInv
<1>4. SessionsInv'
  BY <1>0, <1>1, <1>3 DEF SessionsInv, TokenIsSession, IsSession, client, tasks
<1>5. CoreInv' /\ LockInv' /\ RegisteredInv'
  BY <1>0, <1>1, <1>2 DEF CoreInv, LockInv, RegisteredInv, InitializedIsRegistered, client, tasks
<1>6. ConnsInv' /\ OrderInv'
  BY <1>0, <1>1, <1>5, SameConns DEF tasks, ConnsInv
<1> QED BY <1>4, <1>5, <1>6 DEF Inv

\* What connections are like that the server has ended,
LEMMA CutFinished ==
  ASSUME conns \in [DOMAIN conns -> Connection], NEW ks \in SUBSET DOMAIN conns, ks = DOMAIN conns
  PROVE  /\ DOMAIN Cut(ks, TRUE) = DOMAIN conns
         /\ Cut(ks, TRUE) \in [DOMAIN conns -> Connection]
         /\ \A k \in DOMAIN conns :
              /\ Cut(ks, TRUE)[k].client = conns[k].client /\ Cut(ks, TRUE)[k].link # "up"
              /\ Cut(ks, TRUE)[k].sink = "inserted" /\ Cut(ks, TRUE)[k].listener = "ended"
<1> DEFINE cut == Cut(ks, TRUE)
<1>1. DOMAIN cut = DOMAIN conns /\ cut = [k \in DOMAIN conns |-> cut[k]]
  BY Zenon DEF Cut
<1>2. ASSUME NEW k \in DOMAIN conns
      PROVE  /\ cut[k] \in Connection
             /\ cut[k].client = conns[k].client /\ cut[k].link # "up"
             /\ cut[k].sink = "inserted" /\ cut[k].listener = "ended"
  <2> DEFINE q == conns[k]
             r == [q EXCEPT !.link = Ended(@), !.sink = "inserted", !.listener = "ended"]
  <2>1. q \in Connection
    OBVIOUS
  <2>2. cut[k] \in {q, r} /\ (k \in ks => cut[k] = r)
    BY DEF Cut
  <2> HIDE DEF q, cut
  <2>3. /\ r \in Connection
        /\ r.client = q.client /\ r.link # "up"
        /\ r.sink = "inserted" /\ r.listener = "ended"
    BY <2>1 DEF Connection, Ended
  <2> HIDE DEF r
  <2>4. CASE cut[k] = r
    BY <2>3, <2>4 DEF q
  <2>5. CASE cut[k] = q
    BY <2>1, <2>2, <2>3, <2>5 DEF q
  <2> QED BY <2>2, <2>4, <2>5
<1> HIDE DEF cut
<1>3. cut \in [DOMAIN conns -> Connection]
  BY <1>1, <1>2
<1> QED BY <1>1, <1>2, <1>3 DEF cut

\* and where only the client's end has gone.
LEMMA CutBroken ==
  ASSUME conns \in [DOMAIN conns -> Connection], NEW ks \in SUBSET DOMAIN conns
  PROVE  /\ DOMAIN Cut(ks, FALSE) = DOMAIN conns
         /\ Cut(ks, FALSE) \in [DOMAIN conns -> Connection]
         /\ \A k \in DOMAIN conns :
              /\ Cut(ks, FALSE)[k].client = conns[k].client
              /\ Cut(ks, FALSE)[k].orderly = conns[k].orderly
              /\ Cut(ks, FALSE)[k].sink = conns[k].sink /\ Cut(ks, FALSE)[k].listener = conns[k].listener
              /\ Cut(ks, FALSE)[k].link = "up" => conns[k].link = "up"
<1> DEFINE cut == Cut(ks, FALSE)
<1>1. DOMAIN cut = DOMAIN conns /\ cut = [k \in DOMAIN conns |-> cut[k]]
  BY Zenon DEF Cut
<1>2. ASSUME NEW k \in DOMAIN conns
      PROVE  /\ cut[k] \in Connection
             /\ cut[k].client = conns[k].client
             /\ cut[k].orderly = conns[k].orderly
             /\ cut[k].sink = conns[k].sink /\ cut[k].listener = conns[k].listener
             /\ cut[k].link = "up" => conns[k].link = "up"
  <2> DEFINE q == conns[k]
             r == [q EXCEPT !.link = Ended(@)]
  <2>1. q \in Connection
    OBVIOUS
  <2>2. cut[k] \in {q, r} /\ (k \in ks => cut[k] = r)
    BY DEF Cut
  <2> HIDE DEF q, cut
  <2>3. /\ r \in Connection
        /\ r.client = q.client
        /\ r.orderly = q.orderly
        /\ r.sink = q.sink /\ r.listener = q.listener
        /\ r.link = "up" => q.link = "up"
    BY <2>1 DEF Connection, Ended
  <2> HIDE DEF r
  <2>4. CASE cut[k] = r
    BY <2>3, <2>4 DEF q
  <2>5. CASE cut[k] = q
    BY <2>1, <2>2, <2>3, <2>5 DEF q
  <2> QED BY <2>2, <2>4, <2>5
<1> HIDE DEF cut
<1>3. cut \in [DOMAIN conns -> Connection]
  BY <1>1, <1>2
<1> QED BY <1>1, <1>2, <1>3 DEF cut

LEMMA ServerRestartInv ==
  ASSUME Inv, ServerRestart
  PROVE  Inv'
<1>0. CoreInv /\ SessionsInv /\ RegisteredInv /\ ConnsInv /\ TokensFinite
  BY TokensAreFinite DEF Inv
<1>1. /\ challenges' = [c \in Clients |-> None] /\ registry' = [c \in Clients |-> None]
      /\ sessions' = [u \in Tokens |-> None] /\ lock' = None
      /\ UNCHANGED <<registered, client, hand>>
      /\ conns' = Cut(DOMAIN conns, TRUE)
  BY DEF ServerRestart
<1>2. /\ pc' \in [Tasks -> Steps] /\ round' \in [Tasks -> Nat]
      /\ \A t \in Tasks : pc'[t] = "idle" \/ (pc'[t] = pc[t] /\ round'[t] = round[t])
      /\ \A t \in Tasks : pc'[t] # "sending"
  <2> DEFINE waiting == {t \in Tasks : pc[t] \in {"lock", "sending"}}
  <2>1. /\ pc' = [t \in Tasks |-> IF t \in waiting THEN "idle" ELSE pc[t]]
        /\ round' = [t \in Tasks |-> IF t \in waiting THEN None ELSE round[t]]
    BY DEF ServerRestart
  <2>2. "idle" \in Steps /\ None \in Nat
    BY DEF Steps, None
  <2> QED BY <1>0, <2>1, <2>2 DEF CoreInv
<1>3. CoreInv'
  <2>1. None \in Nat
    BY DEF None
  <2> QED BY <1>0, <1>1, <1>2, <2>1 DEF CoreInv, client
<1>4. LockInv'
  BY <1>1, <1>2, SentinelAssumption DEF LockInv
<1>5. SessionsInv'
  <2>1. /\ \A c \in Clients : saved[c] # None => saved[c] \in Tokens
        /\ \A t \in Tasks : hand[t] # None => hand[t] \in Tokens
    BY <1>0 DEF Tokens, Range, CoreInv
  <2> QED BY <1>0, <1>1, <2>1
      DEF SessionsInv, TokenIsSession, IsSession, TokensFinite, client
<1>6. RegisteredInv'
  BY <1>0, <1>1, <1>2 DEF RegisteredInv, InitializedIsRegistered, client
<1> DEFINE cut == Cut(DOMAIN conns, TRUE)
<1>cut. /\ DOMAIN cut = DOMAIN conns /\ cut \in [DOMAIN conns -> Connection]
       /\ \A k \in DOMAIN conns :
              /\ cut[k].client = conns[k].client /\ cut[k].link # "up"
              /\ cut[k].sink = "inserted" /\ cut[k].listener = "ended"
  BY <1>0, CutFinished DEF ConnsInv
<1>is. conns' = cut
  BY <1>1
<1> HIDE DEF cut
<1>7. /\ DOMAIN conns' = DOMAIN conns
      /\ \A k \in DOMAIN conns :
           /\ conns'[k] \in Connection /\ conns'[k].client = conns[k].client
           /\ conns'[k].link # "up" /\ conns'[k].sink = "inserted" /\ conns'[k].listener = "ended"
  BY <1>cut, <1>is
<1>8. conns' \in [DOMAIN conns' -> Connection]
  BY <1>cut, <1>is
<1>9. ConnsInv'
  <2>1. \A t \in Tasks : pc'[t] \in {"dial", "reading"} =>
          pc'[t] = pc[t] /\ round'[t] = round[t]
    BY <1>2
  <2>2. \A d \in Clients : registry'[d] = None
    BY <1>1
  <2> QED BY <1>0, <1>2, <1>7, <1>8, <2>1, <2>2 DEF ConnsInv
<1>10. OrderInv'
  <2>1. \A t \in Ws : pc'[t] = "reading" => round'[t] \in DOMAIN conns'
    BY <1>9 DEF ConnsInv, Tasks
  <2> QED BY <1>7, <2>1 DEF OrderInv, Orderly, Unfinished
<1> QED BY <1>3, <1>4, <1>5, <1>6, <1>9, <1>10 DEF Inv

LEMMA ClientRestartInv ==
  ASSUME Inv, NEW c \in Clients, ClientRestart(c)
  PROVE  Inv'
<1> DEFINE own == {t \in Tasks : Owner[t] = c}
<1>0. CoreInv /\ LockInv /\ SessionsInv /\ RegisteredInv /\ ConnsInv /\ OrderInv
  BY DEF Inv
<1>1. /\ hand' = [t \in Tasks |-> IF t \in own THEN None ELSE hand[t]]
      /\ round' = [t \in Tasks |-> IF t \in own THEN None ELSE round[t]]
      /\ lock' = IF lock \in own THEN None ELSE lock
      /\ conns' = Cut({k \in DOMAIN conns : conns[k].client = c}, FALSE)
      /\ UNCHANGED <<registered, challenges, registry, client>> /\ DropSessions
  BY DEF ClientRestart
<1>2. /\ pc' \in [Tasks -> Steps]
      /\ \A t \in own : pc'[t] \in {"done", "load", "gone", "idle"}
      /\ \A t \in Tasks \ own : pc'[t] = pc[t]
  <2>1. pc' = [t \in Tasks |->
                 IF t \notin own \/ pc[t] = "done" THEN pc[t]
                 ELSE IF t \in Ws THEN "load"
                 ELSE IF t \in Setup /\ NewKey(t) THEN "gone"
                 ELSE "idle"]
    BY DEF ClientRestart
  <2>2. {"done", "load", "gone", "idle"} \subseteq Steps
    BY DEF Steps
  <2> QED BY <1>0, <2>1, <2>2 DEF CoreInv
<1>3. CoreInv'
  <2>1. None \in Nat
    BY DEF None
  <2> QED BY <1>0, <1>1, <1>2, <2>1 DEF CoreInv, client
<1>4. LockInv'
  BY <1>0, <1>1, <1>2, SentinelAssumption DEF LockInv
<1>5. SessionsInv'
  BY <1>0, <1>1, <1>3, KnownTokens DEF SessionsInv, TokenIsSession, client
<1>6. RegisteredInv'
  BY <1>0, <1>1, <1>2 DEF RegisteredInv, InitializedIsRegistered, client
<1> DEFINE ks == {k \in DOMAIN conns : conns[k].client = c}
           cut == Cut(ks, FALSE)
<1>cut. /\ DOMAIN cut = DOMAIN conns /\ cut \in [DOMAIN conns -> Connection]
       /\ \A k \in DOMAIN conns :
              /\ cut[k].client = conns[k].client /\ cut[k].orderly = conns[k].orderly
              /\ cut[k].sink = conns[k].sink /\ cut[k].listener = conns[k].listener
              /\ cut[k].link = "up" => conns[k].link = "up"
  <2>1. conns \in [DOMAIN conns -> Connection] /\ ks \subseteq DOMAIN conns
    BY <1>0 DEF ConnsInv
  <2> HIDE DEF ks
  <2> QED BY ONLY <2>1, CutBroken
<1>is. conns' = cut
  BY <1>1
<1> HIDE DEF cut
<1>7. /\ DOMAIN conns' = DOMAIN conns
      /\ \A k \in DOMAIN conns :
           /\ conns'[k] \in Connection /\ conns'[k].client = conns[k].client
           /\ conns'[k].sink = conns[k].sink /\ conns'[k].listener = conns[k].listener
           /\ conns'[k].orderly = conns[k].orderly
           /\ conns'[k].link = "up" => conns[k].link = "up"
  BY <1>cut, <1>is
<1>8. conns' \in [DOMAIN conns' -> Connection]
  BY <1>cut, <1>is
<1>9. ConnsInv'
  <2>1. ASSUME NEW t \in Tasks, pc'[t] \in {"dial", "reading"}
        PROVE  pc'[t] = pc[t] /\ round'[t] = round[t]
    <3>1. t \notin own
      BY <1>2, <2>1
    <3> QED BY <1>1, <1>2, <2>1, <3>1
  <2>2. registry' = registry
    BY <1>1
  <2>3. \A t \in Tasks : pc'[t] = "sending" => Target(t)'
    <3> SUFFICES ASSUME NEW t \in Tasks, pc'[t] = "sending" PROVE Target(t)'
      OBVIOUS
    <3>1. t \notin own
      BY <1>2
    <3> QED BY <1>0, <1>1, <1>2, <2>2, <3>1 DEF ConnsInv, Target
  <2> HIDE DEF own
  <2> QED BY <1>0, <1>7, <1>8, <2>1, <2>2, <2>3 DEF ConnsInv
<1>10. OrderInv'
  <2> SUFFICES ASSUME NEW t \in Ws, pc'[t] = "reading" PROVE Orderly(t)'
    BY DEF OrderInv, Orderly
  <2>1. pc'[t] = pc[t] /\ round'[t] = round[t] /\ Orderly(t)
    <3>1. t \in Tasks
      BY DEF Tasks
    <3>2. t \notin own
      BY <1>2, <3>1
    <3> QED BY <1>0, <1>1, <1>2, <3>1, <3>2 DEF OrderInv
  <2>2. round[t] \in DOMAIN conns
    BY <1>0, <2>1 DEF ConnsInv, Tasks
  <2>3. /\ registry' = registry /\ \A j \in DOMAIN conns : Unfinished(j)' => Unfinished(j)
    BY <1>1, <1>7 DEF Unfinished
  <2> HIDE DEF own
  <2> QED BY <1>7, <2>1, <2>2, <2>3 DEF Orderly
<1> QED BY <1>3, <1>4, <1>5, <1>6, <1>9, <1>10 DEF Inv

-----------------------------------------------------------------------------
(* The theorems.                                                            *)

LEMMA InitInv == Init => Inv
<1> SUFFICES ASSUME Init PROVE Inv
  OBVIOUS
<1>0. None \in Nat /\ {"load", "idle"} \subseteq Steps
  BY DEF None, Steps
<1>1. CoreInv
  BY <1>0 DEF Init, CoreInv
<1>2. LockInv
  BY SentinelAssumption DEF Init, LockInv
<1>3. SessionsInv
  <2>1. DOMAIN sessions = {} /\ sessions = [u \in {} |-> None]
    BY DEF Init
  <2>2. IsFiniteSet(DOMAIN sessions)
    BY <2>1, FS_EmptySet
  <2>3. sessions \in [DOMAIN sessions -> Clients \cup {None}]
    BY <2>1
  <2> QED BY <2>2, <2>3 DEF Init, SessionsInv, TokenIsSession
<1>4. RegisteredInv
  BY DEF Init, RegisteredInv, InitializedIsRegistered
<1>5. ConnsInv /\ OrderInv
  <2>1. DOMAIN conns = {} /\ conns = [k \in {} |-> None]
    BY DEF Init
  <2>2. conns \in [DOMAIN conns -> Connection]
    BY <2>1
  <2> QED BY <2>1, <2>2 DEF Init, ConnsInv, OrderInv, Orderly, Tasks
<1> QED BY <1>1, <1>2, <1>3, <1>4, <1>5 DEF Inv

LEMMA StepInv == Inv /\ [Next]_vars => Inv'
<1> SUFFICES ASSUME Inv, [Next]_vars PROVE Inv'
  OBVIOUS
<1>1. ASSUME NEW t \in Tasks, StartSetup(t) \/ Call(t) \/ Step(t)
      PROVE  Inv'
  <2>1. CASE SetupStep(t)
    BY <2>1, BeginInv, RegisterCompleteInv, CommitInv DEF SetupStep
  <2>2. CASE LoginStep(t)
    BY <2>2, BeginInv, LoginCompleteInv, LoginRefusedInv, SavesInv DEF LoginStep
  <2>3. CASE CallStep(t)
    BY <2>3, LoadsInv, HandleInv, SavesInv, BackToIdleInv, LockRegistryInv DEF CallStep
  <2>4. CASE WsStep(t)
    BY <2>4, DialInv, ReconnectInv DEF WsStep
  <2> QED BY <1>1, <2>1, <2>2, <2>3, <2>4, StartSetupInv, LoadsInv DEF Step
<1>2. CASE \E k \in DOMAIN conns : ConnStep(k)
  BY <1>2, ConnStepInv DEF ConnStep
<1>3. CASE Faults
  BY <1>3, ConnStepInv, RequestLostInv, ExpiryInv, ServerRestartInv, ClientRestartInv DEF Faults
<1>4. CASE UNCHANGED vars
  <2>1. UNCHANGED <<registered, challenges, sessions, registry, lock, conns, client, tasks>>
    BY <1>4 DEF vars, server
  <2>2. CoreInv' /\ LockInv' /\ SessionsInv' /\ RegisteredInv'
    BY <2>1 DEF Inv, CoreInv, LockInv, SessionsInv, TokenIsSession, IsSession, RegisteredInv,
       InitializedIsRegistered, client, tasks
  <2>3. ConnsInv' /\ OrderInv'
    BY <2>1, <2>2, SameConns DEF Inv, ConnsInv, tasks
  <2> QED BY <2>2, <2>3 DEF Inv
<1> QED BY <1>1, <1>2, <1>3, <1>4 DEF Next

LEMMA AlwaysInv == Spec => []Inv
BY InitInv, StepInv, PTL DEF Spec

\* Every variable keeps to its values; in particular the registry's mutex is held by a
\* task that is sending, and nobody reads from a connection that is not there.
THEOREM SessionTypes == Spec => []TypeOK
BY AlwaysInv, InvIsTypeOK, PTL

\* However logins, refused calls, expiries and restarts interleave, a token that a client
\* has, saved or in a task's hands, is its own session or one that is over.
THEOREM TokensAreSessions == Spec => []TokenIsSession
<1>1. Inv => TokenIsSession
  BY DEF Inv, SessionsInv
<1> QED BY <1>1, AlwaysInv, PTL

\* A client that counts as initialized is registered with the server, whatever request or
\* answer of the first start was lost.
THEOREM InitializedAreRegistered == Spec => []InitializedIsRegistered
<1>1. Inv => InitializedIsRegistered
  BY DEF Inv, RegisteredInv
<1> QED BY <1>1, AlwaysInv, PTL

\* Notifications reach the connection that a client reads from, if the server was done
\* with the client's earlier ones when it accepted it.
THEOREM OrderlyAreReachable == Spec => []OrderlyIsReachable
<1>1. Inv => OrderlyIsReachable
  BY DEF Inv, OrderInv, Orderly, OrderlyIsReachable, Reading
<1> QED BY <1>1, AlwaysInv, PTL
=============================================================================
