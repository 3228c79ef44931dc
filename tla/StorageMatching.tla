-------------------------- MODULE StorageMatching --------------------------
(***************************************************************************)
(* The server's matching of storage requests (backup_request.rs).          *)
(*                                                                         *)
(* Every POST /backups/request runs `fulfill` in a task of its own.  The   *)
(* tasks share the request queue, whose lock is held for one push or one   *)
(* pop only, the registry of WebSocket connections and the database, and   *)
(* give way to each other at every await; pc[r] says which statement the   *)
(* handler of request r executes next.                                     *)
(*                                                                         *)
(* A queue entry carries the request it is the remainder of, where the     *)
(* code stores only that request's client id (client[e.req] here), so that *)
(* a property can say what became of one particular request.  granted and  *)
(* told are history variables.                                             *)
(***************************************************************************)
EXTENDS Naturals, Sequences, FiniteSets

CONSTANTS
  Requests,        \* the calls of POST /backups/request of a behaviour
  Clients,         \* the registered clients
  RequestSizes,    \* the sizes clients ask for
  MaxRequestSize,  \* MAX_BACKUP_STORAGE_REQUEST_SIZE
  MaxInFlight,     \* bound: how many handlers run at the same time
  Faults           \* the faults of the environment that may happen

ASSUME SizesAssumption == RequestSizes \subseteq Nat /\ MaxRequestSize \in Nat
ASSUME FaultsAssumption == Faults \subseteq {"send", "db", "crash", "expiry"}

VARIABLES
  client,     \* client[r]: the client that posts r, from its session token
  asked,      \* asked[r]: the storage_required of the POST
  pc,         \* pc[r]: the next statement of r's handler
  left,       \* left[r]: storage_to_fulfill
  dest,       \* dest[r]: `destination`, the queue entry r's handler has popped
  queue,      \* the shared queue, oldest entry first
  connected,  \* the clients the WebSocket registry holds a working sink for
  rows,       \* table peer_backups
  told,       \* history: the BackupMatched messages that were sent
  granted     \* history: how much of each request has been matched

vars == <<client, asked, pc, left, dest, queue, connected, rows, told, granted>>

-----------------------------------------------------------------------------

Entry == [req : Requests, size : Nat]

\* No entry is held: `destination` is out of scope.
NoEntry(r) == [req |-> r, size |-> 0]

Smaller(m, n) == IF m <= n THEN m ELSE n

\* Mutant: the larger request dictates.
StorageMatchLarger(r) == IF left[r] <= dest[r].size THEN dest[r].size ELSE left[r]

\* storage_match: what both sides get, dictated by the smaller request
StorageMatch(r) == Smaller(left[r], dest[r].size)

\* The statements at which r's handler owns a popped entry, and those of them
\* at which that entry's client has already been told of the match.
Holding == {"notify_dest", "notify_req", "save_req", "save_dest", "settle"}
Agreed == Holding \ {"notify_dest"}
Running == Holding \cup {"pop", "push_rest"}

InFlight == {r \in Requests : pc[r] \in Running}

Row(a, b, n) == [source |-> a, destination |-> b, size |-> n]
Matched(a, b, n) == [to |-> a, peer |-> b, size |-> n]

Goto(r, label) == pc' = [pc EXCEPT ![r] = label]

\* The handler's future ends; what it owned is dropped with it.
End(r, label) ==
  /\ Goto(r, label)
  /\ left' = [left EXCEPT ![r] = 0]
  /\ dest' = [dest EXCEPT ![r] = NoEntry(r)]

-----------------------------------------------------------------------------

Init ==
  /\ client \in [Requests -> Clients]
  /\ asked \in [Requests -> RequestSizes]
  /\ pc = [r \in Requests |-> "new"]
  /\ left = [r \in Requests |-> 0]
  /\ dest = [r \in Requests |-> NoEntry(r)]
  /\ queue = <<>>
  /\ connected = Clients
  /\ rows = {}
  /\ told = {}
  /\ granted = [r \in Requests |-> 0]

\* The POST arrives: an empty request is answered at once, one above the
\* maximum is refused, any other one enters the matching loop.
Submit(r) ==
  /\ pc[r] = "new"
  /\ Cardinality(InFlight) < MaxInFlight
  /\ \/ asked[r] = 0 /\ Goto(r, "done") /\ UNCHANGED left
     \/ asked[r] > MaxRequestSize /\ Goto(r, "refused") /\ UNCHANGED left
     \/ /\ asked[r] > 0 /\ asked[r] <= MaxRequestSize
        /\ Goto(r, "pop")
        /\ left' = [left EXCEPT ![r] = asked[r]]
  /\ UNCHANGED <<client, asked, dest, queue, connected, rows, told, granted>>

\* Mutant: the entry is read and stays in the queue.
PopEntryPeeks(r) ==
  /\ pc[r] = "pop" /\ queue # <<>>
  /\ client[Head(queue).req] # client[r]
  /\ dest' = [dest EXCEPT ![r] = Head(queue)]
  /\ Goto(r, "notify_dest")
  /\ UNCHANGED <<client, asked, left, queue, connected, rows, told, granted>>


\* `while let Some(destination) = self.pop()`: an entry of the same client is
\* thrown away and the loop goes on.
PopEntry(r) ==
  /\ pc[r] = "pop" /\ queue # <<>>
  /\ queue' = Tail(queue)
  /\ \/ client[Head(queue).req] = client[r] /\ UNCHANGED <<pc, dest>>
     \/ /\ client[Head(queue).req] # client[r]
        /\ dest' = [dest EXCEPT ![r] = Head(queue)]
        /\ Goto(r, "notify_dest")
  /\ UNCHANGED <<client, asked, left, connected, rows, told, granted>>

PopEmpty(r) ==
  /\ pc[r] = "pop" /\ queue = <<>>
  /\ Goto(r, "push_rest")
  /\ UNCHANGED <<client, asked, left, dest, queue, connected, rows, told, granted>>

\* The loop is over: what is left of the request is enqueued.
PushRest(r) ==
  /\ pc[r] = "push_rest"
  /\ queue' = Append(queue, [req |-> r, size |-> left[r]])
  /\ End(r, "done")
  /\ UNCHANGED <<client, asked, connected, rows, told, granted>>

\* notify_client fails when there is no sink for the client, or its send does.
CannotNotify(c) == c \notin connected \/ "send" \in Faults

NotifyDest(r) ==
  LET d == dest[r].req
      n == StorageMatch(r)
  IN /\ pc[r] = "notify_dest"
     /\ client[d] \in connected
     /\ told' = told \cup {Matched(d, r, n)}
     /\ granted' = [q \in Requests |->
                      IF q \in {r, d} THEN granted[q] + n ELSE granted[q]]
     /\ Goto(r, "notify_req")
     /\ UNCHANGED <<client, asked, left, dest, queue, connected, rows>>

\* The enqueued request is dropped, the loop goes on with the next one.
NotifyDestFails(r) ==
  /\ pc[r] = "notify_dest" /\ CannotNotify(client[dest[r].req])
  /\ Goto(r, "pop")
  /\ dest' = [dest EXCEPT ![r] = NoEntry(r)]
  /\ UNCHANGED <<client, asked, left, queue, connected, rows, told, granted>>

NotifyReq(r) ==
  /\ pc[r] = "notify_req" /\ client[r] \in connected
  /\ told' = told \cup {Matched(r, dest[r].req, StorageMatch(r))}
  /\ Goto(r, "save_req")
  /\ UNCHANGED <<client, asked, left, dest, queue, connected, rows, granted>>

\* Mutant: the error of the send is ignored, as it is for the destination.
NotifyReqFailsIgnored(r) ==
  /\ pc[r] = "notify_req" /\ CannotNotify(client[r])
  /\ Goto(r, "save_req")
  /\ UNCHANGED <<client, asked, left, dest, queue, connected, rows, told, granted>>

\* The `?` after the await: the handler returns the error.
NotifyReqFails(r) ==
  /\ pc[r] = "notify_req" /\ CannotNotify(client[r])
  /\ End(r, "failed")
  /\ UNCHANGED <<client, asked, queue, connected, rows, told, granted>>

SaveReq(r) ==
  /\ pc[r] = "save_req"
  /\ rows' = rows \cup {Row(r, dest[r].req, StorageMatch(r))}
  /\ Goto(r, "save_dest")
  /\ UNCHANGED <<client, asked, left, dest, queue, connected, told, granted>>

\* Mutant: the same row is saved again, source and destination not swapped.
SaveDestUnswapped(r) ==
  /\ pc[r] = "save_dest"
  /\ rows' = rows \cup {Row(r, dest[r].req, StorageMatch(r))}
  /\ Goto(r, "settle")
  /\ UNCHANGED <<client, asked, left, dest, queue, connected, told, granted>>

SaveDest(r) ==
  /\ pc[r] = "save_dest"
  /\ rows' = rows \cup {Row(dest[r].req, r, StorageMatch(r))}
  /\ Goto(r, "settle")
  /\ UNCHANGED <<client, asked, left, dest, queue, connected, told, granted>>

SaveFails(r) ==
  /\ pc[r] \in {"save_req", "save_dest"} /\ "db" \in Faults
  /\ End(r, "failed")
  /\ UNCHANGED <<client, asked, queue, connected, rows, told, granted>>

\* Mutant: the two operands of the subtraction are swapped.
SettleLessNegative(r) ==
  /\ pc[r] = "settle" /\ left[r] < dest[r].size
  /\ queue' = Append(queue, [req  |-> dest[r].req,
                             size |-> StorageMatch(r) - dest[r].size])
  /\ End(r, "done")
  /\ UNCHANGED <<client, asked, connected, rows, told, granted>>

\* Mutant: the destination's request goes back as it was.
SettleLessWhole(r) ==
  /\ pc[r] = "settle" /\ left[r] < dest[r].size
  /\ queue' = Append(queue, dest[r])
  /\ End(r, "done")
  /\ UNCHANGED <<client, asked, connected, rows, told, granted>>

\* Ordering::Less: the rest of the destination's request goes to the back.
SettleLess(r) ==
  /\ pc[r] = "settle" /\ left[r] < dest[r].size
  /\ queue' = Append(queue, [req  |-> dest[r].req,
                             size |-> dest[r].size - StorageMatch(r)])
  /\ End(r, "done")
  /\ UNCHANGED <<client, asked, connected, rows, told, granted>>

\* Ordering::Greater: look for more.
SettleGreater(r) ==
  /\ pc[r] = "settle" /\ left[r] > dest[r].size
  /\ left' = [left EXCEPT ![r] = @ - dest[r].size]
  /\ dest' = [dest EXCEPT ![r] = NoEntry(r)]
  /\ Goto(r, "pop")
  /\ UNCHANGED <<client, asked, queue, connected, rows, told, granted>>

SettleEqual(r) ==
  /\ pc[r] = "settle" /\ left[r] = dest[r].size
  /\ End(r, "done")
  /\ UNCHANGED <<client, asked, queue, connected, rows, told, granted>>

Handle(r) ==
  \/ PopEntry(r) \/ PopEmpty(r) \/ PushRest(r)
  \/ NotifyDest(r) \/ NotifyDestFails(r)
  \/ NotifyReq(r) \/ NotifyReqFails(r)
  \/ SaveReq(r) \/ SaveDest(r) \/ SaveFails(r)
  \/ SettleLess(r) \/ SettleGreater(r) \/ SettleEqual(r)

-----------------------------------------------------------------------------
(* The environment.                                                        *)

\* SumQueue forgets an entry BACKUP_REQUEST_EXPIRY seconds after its push, so
\* the oldest one goes first.
Expire ==
  /\ "expiry" \in Faults /\ queue # <<>>
  /\ queue' = Tail(queue)
  /\ UNCHANGED <<client, asked, pc, left, dest, connected, rows, told, granted>>

Connect(c) ==
  /\ c \notin connected
  /\ connected' = connected \cup {c}
  /\ UNCHANGED <<client, asked, pc, left, dest, queue, rows, told, granted>>

Disconnect(c) ==
  /\ c \in connected
  /\ connected' = connected \ {c}
  /\ UNCHANGED <<client, asked, pc, left, dest, queue, rows, told, granted>>

\* The server process restarts: the database is all that survives.
Crash ==
  /\ "crash" \in Faults
  /\ pc' = [r \in Requests |-> IF r \in InFlight THEN "failed" ELSE pc[r]]
  /\ left' = [r \in Requests |-> 0]
  /\ dest' = [r \in Requests |-> NoEntry(r)]
  /\ queue' = <<>>
  /\ connected' = {}
  /\ UNCHANGED <<client, asked, rows, told, granted>>

Next ==
  \/ \E r \in Requests : Submit(r) \/ Handle(r)
  \/ \E c \in Clients : Connect(c) \/ Disconnect(c)
  \/ Expire \/ Crash

Spec == Init /\ [][Next]_vars

\* The runtime polls every task that can go on.
FairSpec == Spec /\ \A r \in Requests : WF_vars(Handle(r))

-----------------------------------------------------------------------------
(* Properties.                                                             *)

Labels == Running \cup {"new", "done", "refused", "failed"}

\* The values the variables range over.
TypeOK ==
  /\ client \in [Requests -> Clients]
  /\ asked \in [Requests -> Nat]
  /\ pc \in [Requests -> Labels]
  /\ left \in [Requests -> Nat]
  /\ dest \in [Requests -> Entry]
  /\ queue \in Seq(Entry)
  /\ connected \subseteq Clients
  /\ rows \subseteq [source : Requests, destination : Requests, size : Nat]
  /\ told \subseteq [to : Requests, peer : Requests, size : Nat]
  /\ granted \in [Requests -> Nat]

Queued(r) == \E i \in DOMAIN queue : queue[i].req = r
HeldBy(r, u) == pc[u] \in Holding /\ dest[u].req = r

\* A request is in one place only, whatever the handlers interleave: with its
\* own handler, in one queue entry, or in the hands of one other handler.
SingleHolder ==
  /\ \A i, j \in DOMAIN queue : queue[i].req = queue[j].req => i = j
  /\ \A r \in Requests :
       /\ Queued(r) => pc[r] = "done" /\ \A u \in Requests : ~ HeldBy(r, u)
       /\ \A u, v \in Requests : HeldBy(r, u) /\ HeldBy(r, v) => u = v
       /\ \A u \in Requests : HeldBy(r, u) => pc[r] = "done"

\* What has been matched by r's handler and not yet deducted from the sizes.
Announced(r) == IF pc[r] \in Agreed THEN StorageMatch(r) ELSE 0

\* A queue entry, a request its handler works on and a popped entry each hold
\* a positive rest, exactly what is left of the request they stand for.
EntryAddsUp(e) == e.size > 0 /\ granted[e.req] + e.size = asked[e.req]

OwnAddsUp(r) ==
  /\ pc[r] = "new" => granted[r] = 0
  /\ pc[r] \in Running => /\ left[r] > 0
                          /\ granted[r] + left[r] = asked[r] + Announced(r)

HeldAddsUp(r) ==
  pc[r] \in Holding =>
    /\ dest[r].size > 0
    /\ granted[dest[r].req] + dest[r].size = asked[dest[r].req] + Announced(r)

\* Matching neither invents nor counts twice: what has been matched of a
\* request and what still circulates of it add up to what its client asked for
\* (storage_to_fulfill and the entries' storage_required stay in step), and no
\* empty remainder circulates.
SizesAddUp ==
  /\ \A r \in Requests : granted[r] <= asked[r] /\ OwnAddsUp(r) /\ HeldAddsUp(r)
  /\ \A i \in DOMAIN queue : EntryAddsUp(queue[i])

\* The ledger is backed by messages: both clients of a row, two different ones,
\* have been told of exactly that match before it is saved.
RowsWereAnnounced ==
  \A w \in rows :
    /\ w.size > 0
    /\ Matched(w.source, w.destination, w.size) \in told
    /\ Matched(w.destination, w.source, w.size) \in told
    /\ client[w.source] # client[w.destination]

\* A row without its mirror image is the work of a handler that is about to
\* save the mirror or that broke off before it could.
OneSidedRowsExplained ==
  \A w \in rows :
    \/ Row(w.destination, w.source, w.size) \in rows
    \/ pc[w.source] \in {"save_dest", "failed"}

Idle == InFlight = {}

\* docs/src/client.md:39, "After the server receives other requests, they will
\* be matched": once every handler has returned, no two requests of different
\* clients wait in the queue for each other.
NoMatchLeftWaiting ==
  Idle => \A i, j \in DOMAIN queue : client[queue[i].req] = client[queue[j].req]


-----------------------------------------------------------------------------
(* The abstract ledger this module implements.                             *)

\* What still circulates of request r, wherever it is.
Remaining(r) ==
  IF pc[r] \in Running THEN left[r] - Announced(r)
  ELSE IF Queued(r)
    THEN queue[CHOOSE i \in DOMAIN queue : queue[i].req = r].size
  ELSE IF \E u \in Requests : HeldBy(r, u)
    THEN LET u == CHOOSE u \in Requests : HeldBy(r, u)
         IN dest[u].size - Announced(u)
  ELSE 0

Ledger == INSTANCE StorageLedger WITH
            opened <- {r \in Requests : pc[r] # "new"},
            remaining <- [r \in Requests |-> Remaining(r)]

\* The handlers implement the ledger: a match is one atomic exchange.
ImplementsLedger == Ledger!Spec
=============================================================================
