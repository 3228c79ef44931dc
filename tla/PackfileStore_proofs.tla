------------------------ MODULE PackfileStore_proofs ------------------------
(***************************************************************************)
(* Proofs about PackfileStore: the values of the variables, that           *)
(* deduplication forgets nothing, that the index names one packfile for a  *)
(* blob, and that complete index files stay, for any directories, files,   *)
(* contents, limits, faults, restarts and errors.                          *)
(*                                                                         *)
(* DiskInv, ManagerInv and PackingInv have the types.  TasksInv says       *)
(* who may be where: tasks only run while the walker waits for them, and   *)
(* who holds the locks is where the code releases them.  IndexInv relates  *)
(* the index files to the buffer and the numbers: the one that is being    *)
(* written, if any, comes after the complete ones, and has nothing but     *)
(* what is in the buffer.  KnownInv says that what counts as known and     *)
(* what has an entry, or is about to get one, is the same but for what was *)
(* lost, and each blob has one entry.  EntriesInv says that the packfile    *)
(* an entry names has the blob.                                            *)
(*                                                                         *)
(* The queue of directories is the result of a loop.  Least is the         *)
(* induction principle the proofs about it need.                           *)
(***************************************************************************)
EXTENDS PackfileStore, FiniteSetTheorems, WellFoundedInduction, TLAPS

-----------------------------------------------------------------------------
(* Induction and recursion.                                                *)

\* A set of naturals that is not empty has a least element.
LEMMA Least ==
  ASSUME NEW T, T \subseteq Nat, T # {}
  PROVE  \E x \in T : \A y \in T : x <= y
<1> DEFINE R == OpToRel(<, Nat)
<1>1. IsWellFoundedOn(R, Nat)
  BY NatLessThanWellFounded
<1>2. \A x, y \in Nat : <<y, x>> \in R <=> y < x
  BY DEF OpToRel
<1> HIDE DEF R
<1>3. PICK x \in T : \A y \in T : ~ (<<y, x>> \in R)
  BY <1>1, WFMin
<1>4. \A y \in T : ~ (y < x)
  BY <1>2, <1>3
<1>5. x \in Nat /\ \A y \in T : y \in Nat
  OBVIOUS
<1>6. \A y \in T : x <= y
  BY <1>4, <1>5
<1> QED BY <1>6

\* Induction over the naturals.
LEMMA Induction ==
  ASSUME NEW T, 0 \in T, \A n \in Nat : n \in T => n + 1 \in T
  PROVE  Nat \subseteq T
<1> DEFINE U == Nat \ T
<1>1. SUFFICES ASSUME U # {} PROVE FALSE
  OBVIOUS
<1>2. PICK n \in U : \A m \in U : n <= m
  <2> HIDE DEF U
  <2>1. U \subseteq Nat
    BY DEF U
  <2> QED BY <1>1, <2>1, Least
<1>3. n \in Nat /\ n \notin T /\ n # 0
  BY <1>2
<1>4. n - 1 \in Nat /\ n - 1 \notin U /\ (n - 1) + 1 = n
  BY <1>2, <1>3
<1> QED BY <1>3, <1>4

\* The first n values of a function that is defined by recursion.
Partial(S, base, next, n) ==
  {g \in [0..n -> S] : g[0] = base /\ \A i \in 1..n : g[i] = next[<<i, g[i - 1]>>]}

\* Recursion can be carried as far as one likes ...
LEMMA PartialExists ==
  ASSUME NEW S, NEW base \in S, NEW next \in [Nat \X S -> S]
  PROVE  \A n \in Nat : Partial(S, base, next, n) # {}
<1> DEFINE T == {n \in Nat : Partial(S, base, next, n) = {}}
<1>1. SUFFICES ASSUME T # {} PROVE FALSE
  OBVIOUS
<1>2. PICK n \in T : \A m \in T : n <= m
  <2> HIDE DEF T
  <2>1. T \subseteq Nat
    BY DEF T
  <2> QED BY <1>1, <2>1, Least
<1>3. n \in Nat /\ Partial(S, base, next, n) = {}
  BY <1>2
<1>4. CASE n = 0
  <2> DEFINE g == [i \in 0..0 |-> base]
  <2>1. g \in Partial(S, base, next, 0)
    BY DEF Partial
  <2> QED BY <2>1, <1>3, <1>4
<1>5. CASE n # 0
  <2>1. n - 1 \in Nat /\ n - 1 \notin T
    BY <1>2, <1>3, <1>5
  <2>2. PICK g \in [0..(n-1) -> S] : g[0] = base /\ \A i \in 1..(n-1) : g[i] = next[<<i, g[i - 1]>>]
    BY <2>1 DEF Partial
  <2> DEFINE h == [i \in 0..n |-> IF i = n THEN next[<<n, g[n - 1]>>] ELSE g[i]]
  <2>3. g[n - 1] \in S
    BY <2>2, <2>1
  <2>4. next[<<n, g[n - 1]>>] \in S
    BY <2>3, <1>3
  <2>5. h \in [0..n -> S]
    <3>1. ASSUME NEW i \in 0..n PROVE h[i] \in S
      BY <3>1, <2>4, <2>2, <1>3
    <3> QED BY <3>1
  <2>6. h[0] = base
    BY <2>2, <1>3, <1>5
  <2>7. ASSUME NEW i \in 1..n PROVE h[i] = next[<<i, h[i - 1]>>]
    <3>1. i \in Nat /\ i # 0 /\ i <= n /\ i - 1 \in 0..n /\ i - 1 # n /\ i \in 0..n
      BY <2>7, <1>3
    <3>2. h[i - 1] = g[i - 1]
      BY <3>1
    <3>3. CASE i = n
      BY <3>1, <3>2, <3>3
    <3>4. CASE i # n
      <4>1. i \in 1..(n - 1)
        BY <3>1, <3>4, <1>3
      <4>2. h[i] = g[i]
        BY <3>1, <3>4
      <4> QED BY <4>1, <4>2, <3>2, <2>2
    <3> QED BY <3>3, <3>4
  <2> HIDE DEF h
  <2>8. h \in Partial(S, base, next, n)
    BY <2>5, <2>6, <2>7 DEF Partial
  <2> QED BY <2>8, <1>3
<1> QED BY <1>4, <1>5

\* ... and it makes no difference how far.
LEMMA PartialAgree ==
  ASSUME NEW S, NEW base \in S, NEW next \in [Nat \X S -> S],
         NEW n \in Nat, NEW m \in Nat,
         NEW g \in Partial(S, base, next, n), NEW h \in Partial(S, base, next, m)
  PROVE  \A i \in Nat : i <= n /\ i <= m => g[i] = h[i]
<1> DEFINE T == {i \in Nat : i <= n /\ i <= m /\ g[i] # h[i]}
<1>1. SUFFICES ASSUME T # {} PROVE FALSE
  OBVIOUS
<1>2. PICK i \in T : \A j \in T : i <= j
  <2> HIDE DEF T
  <2>1. T \subseteq Nat
    BY DEF T
  <2> QED BY <1>1, <2>1, Least
<1>3. i \in Nat /\ i <= n /\ i <= m /\ g[i] # h[i]
  BY <1>2
<1>4. i # 0
  BY <1>3 DEF Partial
<1>5. i - 1 \in Nat /\ i - 1 \notin T
  BY <1>2, <1>3, <1>4
<1>6. g[i - 1] = h[i - 1]
  BY <1>5, <1>3
<1>7. g[i] = next[<<i, g[i - 1]>>] /\ h[i] = next[<<i, h[i - 1]>>]
  BY <1>3, <1>4 DEF Partial
<1> QED BY <1>3, <1>6, <1>7

\* f is defined by recursion.
Recursive(S, base, next, f) ==
  /\ f \in [Nat -> S] /\ f[0] = base
  /\ \A n \in Nat \ {0} : f[n] = next[<<n, f[n - 1]>>]

\* A function can be defined by recursion over the naturals.
LEMMA Recursion ==
  ASSUME NEW S, NEW base \in S, NEW next \in [Nat \X S -> S]
  PROVE  \E f : Recursive(S, base, next, f)
<1> DEFINE G(n) == CHOOSE g : g \in Partial(S, base, next, n)
      f == [n \in Nat |-> G(n)[n]]
<1>1. ASSUME NEW n \in Nat PROVE G(n) \in Partial(S, base, next, n)
  BY PartialExists
<1> HIDE DEF G
<1>2. ASSUME NEW n \in Nat PROVE f[n] \in S
  BY <1>1 DEF Partial
<1>3. f[0] = base
  <2>1. G(0) \in Partial(S, base, next, 0)
    BY <1>1
  <2> QED BY <2>1 DEF Partial
<1>4. ASSUME NEW n \in Nat, n # 0 PROVE f[n] = next[<<n, f[n - 1]>>]
  <2>1. n - 1 \in Nat /\ n \in 1..n
    BY <1>4
  <2>2. G(n) \in Partial(S, base, next, n) /\ G(n - 1) \in Partial(S, base, next, n - 1)
    BY <1>1, <2>1
  <2>3. G(n)[n - 1] = G(n - 1)[n - 1]
    BY <2>1, <2>2, PartialAgree
  <2>4. G(n)[n] = next[<<n, G(n)[n - 1]>>]
    BY <2>1, <2>2 DEF Partial
  <2> QED BY <2>1, <2>3, <2>4
<1> HIDE DEF f
<1>5. DOMAIN f = Nat /\ f = [n \in Nat |-> f[n]]
  BY DEF f
<1>6. f \in [Nat -> S]
  BY <1>5, <1>2
<1>7. \A n \in Nat \ {0} : f[n] = next[<<n, f[n - 1]>>]
  BY <1>4
<1>8. Recursive(S, base, next, f)
  BY <1>3, <1>6, <1>7 DEF Recursive
<1> QED BY <1>8

-----------------------------------------------------------------------------
(* The invariant.                                                          *)

Busy == {"check", "queue", "trigger", "write", "save", "finalize", "seal"}
Locking == {"save", "finalize", "seal"}
FileStates == {"idle", "done", "failed"} \cup Busy
WalkerStates == {"idle", "dir", "join", "dirdone", "index", "sealLast", "flushed",
                 "sending", "reported", "failed"} \cup Busy

IsBlobSeq(s) == IsSeq(s) /\ \A b \in ToSet(s) : IsBlob(b)

DiskInv ==
  /\ IsSeq(packfiles)
  /\ \A i \in DOMAIN packfiles : /\ \A b \in packfiles[i].blobs : IsBlob(b)
                                 /\ packfiles[i].whole \in BOOLEAN
  /\ IsSeq(index)
  /\ \A k \in DOMAIN index :
       /\ index[k] = [entries |-> index[k].entries, whole |-> index[k].whole]
       /\ \A e \in index[k].entries : IsEntry(e)
  /\ received \in [Peers -> SUBSET DOMAIN index]

ManagerInv ==
  /\ \A e \in items \cup buf : IsEntry(e)
  /\ highest \in Nat /\ lastNum \in Nat
  /\ writer \in Packers \cup {None}
  /\ IsBlobSeq(queue)
  /\ IsBlobSeq(batch) /\ Len(batch) <= MaxBlobs

PackingInv ==
  /\ DOMAIN pc = Packers /\ DOMAIN todo = Packers
  /\ \A p \in Packers : IsBlobSeq(todo[p])
  /\ DOMAIN children = Dirs /\ \A d \in Dirs : IsSeq(children[d])
  /\ ended \in Nat /\ aborting \in BOOLEAN /\ content \in Contents

Resting == pc[Walker] = "idle"

TasksInv ==
  /\ pc[Walker] \in WalkerStates
  /\ Resting => ended = 0 /\ \A p \in Packers : pc[p] = "idle"
  /\ pc[Walker] \in {"check", "queue", "trigger"} => todo[Walker] # <<>>
  /\ pc[Walker] = "dirdone" => todo[Walker] = <<>>
  /\ \/ pc[Walker] \in {"dir", "join", "dirdone"}
     \/ pc[Walker] \in Busy /\ todo[Walker] # <<>>
     => ended < Len(ProcessingQueue)
  /\ \A f \in Files :
       /\ pc[f] \in FileStates
       /\ pc[f] \in Busy => /\ pc[Walker] = "join"
                            /\ f \in ToSet(FilesOf[Current])
                            /\ todo[f] # <<>>

LocksInv ==
  /\ \A p \in Packers : pc[p] \in Locking => writer = p
  /\ writer # None => pc[writer] \in {"write"} \cup Locking
  /\ writer = None => batch = <<>>
  /\ writer # None /\ pc[writer] = "write" =>
       Len(batch) < MaxBlobs /\ (queue = <<>> => batch = <<>>)

IndexInv ==
  /\ Resting => lastNum = 0 /\ buf = {} /\ items = {} /\ queued = {}
  /\ ~Resting => /\ Len(index) \in {lastNum, lastNum + 1}
                 /\ Len(index) = lastNum + 1 =>
                      ~index[Len(index)].whole /\ index[Len(index)].entries \subseteq buf
  /\ \A p \in Packers : pc[p] \in {"seal", "sealLast"} =>
       Len(index) = lastNum + 1 /\ index[Len(index)].entries = buf

Names(entries) == {e[1] : e \in entries}
Kept == Entries(1..lastNum) \cup buf
Known == queued \cup Names(items)

KnownInv ==
  /\ Resting \/ Known \subseteq Names(Kept) \cup ToSet(batch) \cup lost
  /\ Resting \/ Names(Kept) \cup ToSet(batch) \subseteq Known
  /\ Resting \/ \A b \in ToSet(batch) : b \notin Names(Kept)
  /\ \A i, j \in DOMAIN batch : i # j => batch[i] # batch[j]
  /\ \A e1, e2 \in Entries(DOMAIN index) \cup buf : e1[1] = e2[1] => e1 = e2

EntriesInv ==
  /\ \A p \in Packers : pc[p] \in {"finalize", "seal"} =>
       packfiles # <<>> /\ ToSet(batch) \subseteq packfiles[Len(packfiles)].blobs
  /\ \A e \in Entries(DOMAIN index) \cup items \cup buf : e[1] \in packfiles[e[2]].blobs

Inv ==
  DiskInv /\ ManagerInv /\ PackingInv /\ TasksInv /\ LocksInv /\ IndexInv /\ KnownInv /\ EntriesInv
-----------------------------------------------------------------------------
(* Sequences.                                                              *)

\* A sequence over any set is a sequence over its own elements.
LEMMA SeqOwn ==
  ASSUME NEW X, NEW s \in Seq(X)
  PROVE  IsSeq(s) /\ ToSet(s) \subseteq X
<1>1. Len(s) \in Nat /\ DOMAIN s = 1..Len(s) /\ s = [i \in 1..Len(s) |-> s[i]]
  OBVIOUS
<1>2. \A i \in 1..Len(s) : s[i] \in ToSet(s)
  BY <1>1 DEF ToSet
<1>3. [i \in 1..Len(s) |-> s[i]] \in Seq(ToSet(s))
  BY <1>1, <1>2
<1>4. ToSet(s) \subseteq X
  BY <1>1 DEF ToSet
<1>5. s \in Seq(ToSet(s))
  BY <1>1, <1>3, Zenon
<1> QED BY <1>4, <1>5 DEF IsSeq

LEMMA EmptyIsBlobSeq == IsBlobSeq(<<>>)
<1>1. <<>> \in Seq({}) /\ ToSet(<<>>) = {}
  BY DEF ToSet
<1> QED BY <1>1 DEF IsBlobSeq, IsSeq

\* Taking the first element off.
LEMMA TailSeq ==
  ASSUME NEW s, IsSeq(s), s # <<>>
  PROVE  /\ IsSeq(Tail(s)) /\ Len(Tail(s)) = Len(s) - 1 /\ Len(s) \in Nat \ {0}
         /\ ToSet(s) = {Head(s)} \cup ToSet(Tail(s))
         /\ \A i \in DOMAIN Tail(s) : i + 1 \in DOMAIN s /\ Tail(s)[i] = s[i + 1]
<1>1. s \in Seq(ToSet(s))
  BY DEF IsSeq
<1>2. Tail(s) \in Seq(ToSet(s)) /\ Head(s) = s[1] /\ Len(s) \in Nat \ {0} /\ DOMAIN s = 1..Len(s)
  BY <1>1
<1>3. Len(Tail(s)) = Len(s) - 1 /\ DOMAIN Tail(s) = 1..(Len(s) - 1)
  BY <1>1, <1>2
<1>4. \A i \in 1..(Len(s) - 1) : Tail(s)[i] = s[i + 1]
  BY <1>1, <1>2, <1>3
<1>5. IsSeq(Tail(s)) /\ ToSet(Tail(s)) \subseteq ToSet(s)
  BY <1>2, SeqOwn
<1>6. ASSUME NEW b \in ToSet(s) PROVE b \in {Head(s)} \cup ToSet(Tail(s))
  <2>1. PICK i \in 1..Len(s) : b = s[i]
    BY <1>2 DEF ToSet
  <2>2. CASE i = 1
    BY <2>1, <2>2, <1>2
  <2>3. CASE i # 1
    <3>1. i - 1 \in 1..(Len(s) - 1) /\ (i - 1) + 1 = i
      BY <2>1, <2>3, <1>2
    <3>2. Tail(s)[i - 1] = b
      BY <3>1, <1>4, <2>1
    <3> QED BY <3>1, <3>2, <1>3 DEF ToSet
  <2> QED BY <2>2, <2>3
<1>7. Head(s) \in ToSet(s)
  BY <1>2 DEF ToSet
<1>8. \A i \in DOMAIN Tail(s) : i + 1 \in DOMAIN s /\ Tail(s)[i] = s[i + 1]
  BY <1>2, <1>3, <1>4
<1> QED BY <1>2, <1>3, <1>5, <1>6, <1>7, <1>8

\* Putting an element at the end.
LEMMA AppendSeq ==
  ASSUME NEW s, IsSeq(s), NEW b
  PROVE  /\ IsSeq(Append(s, b)) /\ Len(Append(s, b)) = Len(s) + 1 /\ Len(s) \in Nat
         /\ ToSet(Append(s, b)) = ToSet(s) \cup {b} /\ Append(s, b) # <<>>
         /\ DOMAIN Append(s, b) = DOMAIN s \cup {Len(s) + 1}
         /\ Append(s, b)[Len(s) + 1] = b
         /\ \A i \in DOMAIN s : Append(s, b)[i] = s[i]
<1> DEFINE X == ToSet(s) \cup {b}
      t == Append(s, b)
<1>1. s \in Seq(X) /\ s \in Seq(ToSet(s)) /\ b \in X
  BY DEF IsSeq
<1>2. t \in Seq(X) /\ Len(t) = Len(s) + 1 /\ Len(s) \in Nat
  BY <1>1
<1>3. DOMAIN s = 1..Len(s) /\ DOMAIN t = 1..(Len(s) + 1) /\ t[Len(s) + 1] = b
  BY <1>1, <1>2
<1>4. \A i \in 1..Len(s) : t[i] = s[i]
  BY <1>1, <1>2
<1>5. IsSeq(t) /\ ToSet(t) \subseteq X
  BY <1>2, SeqOwn
<1>6. X \subseteq ToSet(t)
  BY <1>2, <1>3, <1>4 DEF ToSet
<1>7. t # <<>>
  BY <1>2
<1>8. 1..(Len(s) + 1) = 1..Len(s) \cup {Len(s) + 1}
  BY <1>2
<1> QED BY <1>2, <1>3, <1>4, <1>5, <1>6, <1>7, <1>8

\* t has the first n elements of s and another one.
IsCut(s, n, x, t) ==
  /\ IsSeq(t) /\ Len(t) = n + 1 /\ DOMAIN t = 1..(n + 1)
  /\ t[n + 1] = x /\ \A i \in 1..n : t[i] = s[i] /\ i \in DOMAIN s

LEMMA CutSeq ==
  ASSUME NEW s, IsSeq(s), NEW n \in Nat, n <= Len(s), NEW x,
         NEW t, t = SubSeq(s, 1, n) \o <<x>>
  PROVE  IsCut(s, n, x, t)
<1> DEFINE X == ToSet(s) \cup {x}
      c == SubSeq(s, 1, n)
<1>1. s \in Seq(X) /\ Len(s) \in Nat /\ DOMAIN s = 1..Len(s)
  BY DEF IsSeq
<1>2. c \in Seq(X) /\ Len(c) = n /\ \A i \in 1..n : c[i] = s[i]
  BY <1>1
<1>2a. t = c \o <<x>>
  OBVIOUS
<1> HIDE DEF c
<1>3. <<x>> \in Seq(X) /\ Len(<<x>>) = 1 /\ <<x>>[1] = x
  OBVIOUS
<1>4. t \in Seq(X) /\ Len(t) = n + 1
  BY <1>2, <1>2a, <1>3
<1>5. t[n + 1] = x /\ \A i \in 1..n : t[i] = c[i]
  BY <1>2, <1>2a, <1>3
<1>6. DOMAIN t = 1..(n + 1)
  BY <1>4
<1>7. IsSeq(t)
  BY <1>4, SeqOwn
<1> QED BY <1>1, <1>2, <1>4, <1>5, <1>6, <1>7 DEF c, IsCut

-----------------------------------------------------------------------------
(* Directories, files and trees.                                           *)

\* What BrowseNext keeps: the queues hold directories, and the one that is processed
\* last is the root.
Queues == [browsing : Seq(Dirs), processing : {s \in Seq(Dirs) : s # <<>> /\ s[Len(s)] = Root}]

LEMMA BrowseNextKeeps ==
  ASSUME NEW q \in Queues
  PROVE  BrowseNext(q) \in Queues
<1> DEFINE found == Reverse(Subdirs[Head(q.browsing)])
      s == found \o q.processing
<1>1. CASE q.browsing = <<>>
  BY <1>1 DEF BrowseNext
<1>2. CASE q.browsing # <<>>
  <2>1. q.browsing \in Seq(Dirs) /\ q.processing \in Seq(Dirs) /\ q.processing # <<>>
        /\ q.processing[Len(q.processing)] = Root
    BY DEF Queues
  <2>2. Head(q.browsing) \in Dirs /\ Tail(q.browsing) \in Seq(Dirs)
    BY <2>1, <1>2
  <2>3. Subdirs[Head(q.browsing)] \in Seq(Dirs)
    BY <2>2, TreeAssumption
  <2>4. found \in Seq(Dirs)
    BY <2>3 DEF Reverse
  <2> HIDE DEF found
  <2>5. found \o Tail(q.browsing) \in Seq(Dirs)
    BY <2>4, <2>2
  <2>6. s \in Seq(Dirs) /\ Len(s) = Len(found) + Len(q.processing)
    BY <2>4, <2>1
  <2>7. Len(q.processing) \in Nat \ {0} /\ Len(found) \in Nat
    BY <2>1, <2>4
  <2>8. s[Len(s)] = q.processing[Len(q.processing)]
    BY <2>1, <2>4, <2>6, <2>7
  <2>9. s # <<>>
    BY <2>6, <2>7
  <2> HIDE DEF s
  <2>10. [browsing |-> found \o Tail(q.browsing), processing |-> s] \in Queues
    BY <2>1, <2>5, <2>6, <2>8, <2>9 DEF Queues
  <2> QED BY <2>10, <1>2 DEF BrowseNext, s, found
<1> QED BY <1>1, <1>2

\* The rounds of browse_dir_tree, one at a time.
BrowseStep(n) == Browse[n + 1] = BrowseNext(Browse[n])

LEMMA BrowseSteps ==
  /\ Browse[0] = [browsing |-> <<Root>>, processing |-> <<Root>>] /\ Browse[0] \in Queues
  /\ \A n \in Nat : BrowseStep(n)
<1> DEFINE start == [browsing |-> <<Root>>, processing |-> <<Root>>]
      next == [u \in Nat \X Queues |-> BrowseNext(u[2])]
<1>1. start \in Queues
  <2>1. <<Root>> \in Seq(Dirs) /\ <<Root>> # <<>> /\ Len(<<Root>>) = 1 /\ <<Root>>[1] = Root
    BY TreeAssumption
  <2> QED BY <2>1 DEF Queues
<1> HIDE DEF start
<1>2. next \in [Nat \X Queues -> Queues]
  BY BrowseNextKeeps
<1>3. \A n \in Nat, q \in Queues : next[<<n, q>>] = BrowseNext(q)
  OBVIOUS
<1> HIDE DEF next
<1>4. PICK f : Recursive(Queues, start, next, f)
  BY <1>1, <1>2, Recursion
<1>5. f = [n \in Nat |-> IF n = 0 THEN start ELSE BrowseNext(f[n - 1])]
  <2>1. ASSUME NEW n \in Nat, n # 0 PROVE next[<<n, f[n - 1]>>] = BrowseNext(f[n - 1])
    <3>1. n - 1 \in Nat
      BY <2>1
    <3> QED BY <3>1, <1>3, <1>4 DEF Recursive
  <2> QED BY <1>4, <2>1 DEF Recursive
<1>6. Browse = [n \in Nat |-> IF n = 0 THEN start ELSE BrowseNext(Browse[n - 1])]
  BY <1>5, Zenon DEF Browse, start
<1>7. Browse[0] = start
  BY <1>6
<1>8. ASSUME NEW n \in Nat PROVE BrowseStep(n)
  <2>1. n + 1 \in Nat /\ n + 1 # 0 /\ (n + 1) - 1 = n
    BY <1>8
  <2> QED BY <1>6, <2>1 DEF BrowseStep
<1> QED BY <1>1, <1>7, <1>8 DEF start

LEMMA BrowseTypes == \A n \in Nat : Browse[n] \in Queues
<1> DEFINE T == {n \in Nat : Browse[n] \in Queues}
<1>1. 0 \in T
  BY BrowseSteps
<1>2. ASSUME NEW n \in Nat, n \in T PROVE n + 1 \in T
  BY <1>2, BrowseSteps, BrowseNextKeeps DEF BrowseStep
<1>3. Nat \subseteq T
  <2> HIDE DEF T
  <2> QED BY <1>1, <1>2, Induction
<1> QED BY <1>3

\* The queue of the walker holds directories, the root at its end.
LEMMA QueueTypes ==
  /\ ProcessingQueue \in Seq(Dirs) /\ Len(ProcessingQueue) \in Nat \ {0}
  /\ ProcessingQueue[Len(ProcessingQueue)] = Root
<1>1. Cardinality(Dirs) \in Nat
  BY TreeAssumption, FS_CardinalityType
<1>2. ProcessingQueue \in {s \in Seq(Dirs) : s # <<>> /\ s[Len(s)] = Root}
  BY <1>1, BrowseTypes DEF ProcessingQueue, Queues
<1> QED BY <1>2

\* A tree is split into one or more blobs.
LEMMA SplitTreeTypes ==
  ASSUME NEW kind, NEW name, NEW kids, IsSeq(kids)
  PROVE  LET s == SplitTree(kind, name, kids)
         IN IsBlobSeq(s) /\ s # <<>>
<1> DEFINE n == IF kids = <<>> THEN 1 ELSE (Len(kids) + MaxChildren - 1) \div MaxChildren
      part(i) == SubSeq(kids, (i - 1) * MaxChildren + 1,
                        IF i = n THEN Len(kids) ELSE i * MaxChildren)
      after[i \in 1..n] ==
        IF i = n THEN <<>> ELSE <<Blob(kind, name, part(i + 1), after[i + 1])>>
      s == SplitTree(kind, name, kids)
<1>1. MaxChildren \in Nat \ {0}
  BY LimitsAssumption
<1>2. Len(kids) \in Nat /\ (kids # <<>> => Len(kids) # 0)
  BY DEF IsSeq
<1>3. n \in Nat \ {0}
  <2>1. \A a \in Nat \ {0}, b \in Nat \ {0} : (a + b - 1) \div b \in Nat \ {0}
    OBVIOUS
  <2> QED BY <2>1, <1>1, <1>2
<1>4. s = [i \in 1..n |-> Blob(kind, name, part(i), after[i])]
  BY DEF SplitTree
<1> HIDE DEF s, part, after
<1>5. DOMAIN s = 1..n
  BY <1>4
<1> DEFINE X == {Blob(kind, name, part(i), after[i]) : i \in 1..n}
<1>6. s \in Seq(X) /\ Len(s) = n
  <2> HIDE DEF n
  <2>1. \A i \in 1..n : Blob(kind, name, part(i), after[i]) \in X
    OBVIOUS
  <2> HIDE DEF X
  <2> QED BY <2>1, <1>4, <1>3
<1>7. IsSeq(s) /\ ToSet(s) \subseteq X
  <2> HIDE DEF X
  <2> QED BY <1>6, SeqOwn
<1>8. \A b \in X : IsBlob(b)
  BY DEF IsBlob, Blob
<1>9. s # <<>>
  <2> HIDE DEF X, n
  <2> QED BY <1>6, <1>3
<1> QED BY <1>7, <1>8, <1>9 DEF IsBlobSeq, s

\* What a file is packed as.
LEMMA FileBlobsTypes ==
  content \in Contents => \A f \in Files : IsBlobSeq(FileBlobs(f)) /\ FileBlobs(f) # <<>>
<1> SUFFICES ASSUME content \in Contents, NEW f \in Files
             PROVE  IsBlobSeq(FileBlobs(f)) /\ FileBlobs(f) # <<>>
  OBVIOUS
<1> DEFINE X == {Chunk(content[f][i]) : i \in DOMAIN content[f]}
      chunks == [i \in DOMAIN content[f] |-> Chunk(content[f][i])]
      tree == SplitTree("file", f, chunks)
      Y == X \cup ToSet(tree)
      all == chunks \o tree
<1>1. IsSeq(content[f])
  BY TreeAssumption
<1>2. DOMAIN content[f] = 1..Len(content[f]) /\ Len(content[f]) \in Nat
  BY <1>1 DEF IsSeq
<1>3. chunks \in Seq(X)
  <2>1. \A i \in DOMAIN content[f] : Chunk(content[f][i]) \in X
    OBVIOUS
  <2> HIDE DEF X
  <2> QED BY <1>2, <2>1
<1>4. \A b \in X : IsBlob(b)
  BY DEF IsBlob, Blob, Chunk
<1> HIDE DEF X, chunks
<1>5. IsSeq(chunks)
  BY <1>3, SeqOwn
<1>6. IsBlobSeq(tree) /\ tree # <<>>
  BY <1>5, SplitTreeTypes
<1>7. tree \in Seq(ToSet(tree)) /\ \A b \in ToSet(tree) : IsBlob(b)
  BY <1>6 DEF IsBlobSeq, IsSeq
<1> HIDE DEF tree
<1>8. chunks \in Seq(Y) /\ tree \in Seq(Y) /\ \A b \in Y : IsBlob(b)
  BY <1>3, <1>4, <1>7
<1> HIDE DEF Y
<1>9. all \in Seq(Y) /\ all # <<>>
  <2>1. Len(all) = Len(chunks) + Len(tree) /\ Len(chunks) \in Nat /\ Len(tree) \in Nat \ {0}
    BY <1>8, <1>6
  <2>2. all \in Seq(Y)
    BY <1>8
  <2> QED BY <2>1, <2>2
<1> HIDE DEF all
<1>10. IsSeq(all) /\ ToSet(all) \subseteq Y
  BY <1>9, SeqOwn
<1>11. all = FileBlobs(f)
  BY DEF FileBlobs, all, chunks, tree
<1> QED BY <1>8, <1>9, <1>10, <1>11 DEF IsBlobSeq

\* The loop over the files of a directory, one file at a time.
PushedStep(n) ==
  LET f == FilesOf[Current][n + 1]
  IN Pushed[n + 1] = IF pc[f] = "done" THEN Append(Pushed[n], FileTree(f)) ELSE Pushed[n]

LEMMA PushedSteps ==
  IsSeq(children[Current]) => Pushed[0] = children[Current] /\ \A n \in Nat : PushedStep(n)
<1> SUFFICES ASSUME IsSeq(children[Current])
             PROVE  Pushed[0] = children[Current] /\ \A n \in Nat : PushedStep(n)
  OBVIOUS
<1> DEFINE start == children[Current]
      tree(n) == FileTree(FilesOf[Current][n])
      done(n) == pc[FilesOf[Current][n]] = "done"
      X == ToSet(start) \cup {tree(n) : n \in Nat}
      next == [u \in Nat \X Seq(X) |-> IF done(u[1]) THEN Append(u[2], tree(u[1])) ELSE u[2]]
<1>1. start \in Seq(X)
  BY DEF IsSeq
<1>2. \A n \in Nat : tree(n) \in X
  OBVIOUS
<1> HIDE DEF X
<1>3. \A n \in Nat, s \in Seq(X) : (IF done(n) THEN Append(s, tree(n)) ELSE s) \in Seq(X)
  BY <1>2
<1>4. next \in [Nat \X Seq(X) -> Seq(X)]
  BY <1>3
<1>5. \A n \in Nat, s \in Seq(X) : next[<<n, s>>] = IF done(n) THEN Append(s, tree(n)) ELSE s
  OBVIOUS
<1> HIDE DEF start, tree, done, next
<1>6. PICK f : Recursive(Seq(X), start, next, f)
  BY <1>1, <1>4, Recursion
<1>7. f = [n \in Nat |-> IF n = 0 THEN start
                         ELSE IF done(n) THEN Append(f[n - 1], tree(n)) ELSE f[n - 1]]
  <2>1. ASSUME NEW n \in Nat, n # 0
        PROVE  next[<<n, f[n - 1]>>] = IF done(n) THEN Append(f[n - 1], tree(n)) ELSE f[n - 1]
    <3>1. n - 1 \in Nat
      BY <2>1
    <3>2. f[n - 1] \in Seq(X)
      BY <3>1, <1>6 DEF Recursive
    <3> QED BY <3>2, <1>5
  <2> QED BY <1>6, <2>1 DEF Recursive
<1>8. Pushed = [n \in Nat |-> IF n = 0 THEN start
                              ELSE IF done(n) THEN Append(Pushed[n - 1], tree(n))
                              ELSE Pushed[n - 1]]
  BY <1>7, Zenon DEF Pushed, start, done, tree
<1>9. ASSUME NEW n \in Nat PROVE PushedStep(n)
  <2>1. n + 1 \in Nat /\ n + 1 # 0 /\ (n + 1) - 1 = n
    OBVIOUS
  <2>2. Pushed[n + 1] = IF done(n + 1) THEN Append(Pushed[n], tree(n + 1)) ELSE Pushed[n]
    BY <1>8, <2>1
  <2> QED BY <2>2 DEF PushedStep, done, tree
<1> QED BY <1>8, <1>9 DEF start

\* The children of a directory's tree: what the directory had, and trees of files
\* that are done.
LEMMA JoinedTypes ==
  Current \in Dirs /\ DOMAIN children = Dirs /\ (\A d \in Dirs : IsSeq(children[d]))
    => /\ IsSeq(Joined)
       /\ \A b \in ToSet(Joined) : \/ b \in ToSet(children[Current])
                                   \/ \E f \in Files : pc[f] = "done" /\ b = FileTree(f)
<1> SUFFICES ASSUME Current \in Dirs, IsSeq(children[Current])
             PROVE  /\ IsSeq(Joined)
                    /\ \A b \in ToSet(Joined) :
                         \/ b \in ToSet(children[Current])
                         \/ \E f \in Files : pc[f] = "done" /\ b = FileTree(f)
  OBVIOUS
<1> DEFINE Done == {f \in Files : pc[f] = "done"}
      X == ToSet(children[Current]) \cup {FileTree(f) : f \in Done}
      n0 == Len(FilesOf[Current])
      T == {n \in Nat : n <= n0 => Pushed[n] \in Seq(X)}
<1>1. n0 \in Nat /\ DOMAIN FilesOf[Current] = 1..n0 /\ ToSet(FilesOf[Current]) \subseteq Files
  BY TreeAssumption DEF IsSeq, Files
<1>2. children[Current] \in Seq(X)
  BY DEF IsSeq
<1>3. 0 \in T
  BY <1>2, PushedSteps
<1>4. ASSUME NEW n \in Nat, n \in T PROVE n + 1 \in T
  <2>1. SUFFICES ASSUME n + 1 <= n0 PROVE Pushed[n + 1] \in Seq(X)
    OBVIOUS
  <2>2. Pushed[n] \in Seq(X)
    BY <1>1, <1>4, <2>1
  <2> DEFINE f == FilesOf[Current][n + 1]
  <2>3. f \in Files
    <3>1. n + 1 \in DOMAIN FilesOf[Current]
      BY <1>1, <2>1
    <3> QED BY <3>1, <1>1 DEF ToSet
  <2>4. Pushed[n + 1] = IF pc[f] = "done" THEN Append(Pushed[n], FileTree(f)) ELSE Pushed[n]
    BY PushedSteps DEF PushedStep
  <2> HIDE DEF f
  <2>5. pc[f] = "done" => FileTree(f) \in X
    BY <2>3
  <2> HIDE DEF X
  <2> QED BY <2>2, <2>4, <2>5
<1>5. Nat \subseteq T
  <2> HIDE DEF T
  <2> QED BY <1>3, <1>4, Induction
<1>6. Joined \in Seq(X)
  BY <1>1, <1>5 DEF Joined
<1>7. IsSeq(Joined) /\ ToSet(Joined) \subseteq X
  <2> HIDE DEF X
  <2> QED BY <1>6, SeqOwn
<1> QED BY <1>7

-----------------------------------------------------------------------------
(* What does not change.                                                   *)

LEMMA Constants ==
  /\ Walker \in Packers /\ Files \subseteq Packers /\ Walker \notin Files /\ None \notin Packers
  /\ \A p \in Packers : p \in Files \/ p = Walker
  /\ MaxBlobs \in Nat \ {0}
BY WalkerAssumption, LimitsAssumption DEF Packers

LEMMA DiskSame == DiskInv /\ UNCHANGED <<packfiles, index, received>> => DiskInv'
BY DEF DiskInv, IsEntry

LEMMA ManagerSame ==
  ManagerInv /\ UNCHANGED <<packfiles, items, buf, highest, lastNum, writer, queue, batch>>
    => ManagerInv'
BY DEF ManagerInv, IsEntry

LEMMA IndexSame ==
  /\ IndexInv /\ UNCHANGED <<index, items, buf, queued, lastNum>>
  /\ Resting' = Resting
  /\ \A p \in Packers : pc'[p] \in {"seal", "sealLast"} => pc[p] \in {"seal", "sealLast"}
  => IndexInv'
BY DEF IndexInv

LEMMA KnownSame ==
  /\ KnownInv /\ UNCHANGED <<index, items, buf, queued, lastNum, batch, lost>>
  /\ Resting' = Resting
  => KnownInv'
BY DEF KnownInv, Known, Kept, Names, Entries

LEMMA EntriesSame ==
  /\ EntriesInv /\ UNCHANGED <<packfiles, index, items, buf, batch>>
  /\ \A p \in Packers : pc'[p] \in {"finalize", "seal"} => pc[p] \in {"finalize", "seal"}
  => EntriesInv'
BY DEF EntriesInv, Entries

-----------------------------------------------------------------------------
(* The tasks add blobs.                                                    *)

\* On to the next blob.
LEMMA ContinueTypes ==
  ASSUME PackingInv, NEW p \in Packers, Continue(p, Tail(todo[p])), todo[p] # <<>>
  PROVE  /\ DOMAIN pc' = Packers /\ DOMAIN todo' = Packers
         /\ \A q \in Packers : IsBlobSeq(todo'[q])
         /\ \A q \in Packers \ {p} : pc'[q] = pc[q] /\ todo'[q] = todo[q]
         /\ pc'[p] \in {"check", "dirdone", "done"}
         /\ pc'[p] = "check" => todo'[p] # <<>>
         /\ pc'[p] = "dirdone" => p = Walker /\ todo'[p] = <<>>
         /\ pc'[p] = "done" => p # Walker
<1>1. IsBlobSeq(todo[p]) /\ DOMAIN pc = Packers /\ DOMAIN todo = Packers
  BY DEF PackingInv
<1>2. IsBlobSeq(Tail(todo[p]))
  BY <1>1, TailSeq DEF IsBlobSeq
<1>3. todo' = [todo EXCEPT ![p] = Tail(todo[p])]
  BY DEF Continue
<1>4. \A q \in Packers : IsBlobSeq(todo'[q])
  BY <1>1, <1>2, <1>3 DEF PackingInv
<1>5. /\ DOMAIN pc' = Packers /\ \A q \in Packers \ {p} : pc'[q] = pc[q] /\ todo'[q] = todo[q]
      /\ DOMAIN todo' = Packers
  BY <1>1 DEF Continue
<1>6. /\ pc'[p] \in {"check", "dirdone", "done"}
      /\ pc'[p] = "check" => todo'[p] # <<>>
      /\ pc'[p] = "dirdone" => p = Walker /\ todo'[p] = <<>>
      /\ pc'[p] = "done" => p # Walker
  BY <1>1 DEF Continue
<1> QED BY <1>4, <1>5, <1>6

LEMMA TodoLeft ==
  Inv => \A p \in Packers : pc[p] \in {"check", "queue", "trigger"} => todo[p] # <<>>
BY Constants DEF Inv, TasksInv, Busy

\* A task moves on to its next blob, or is done.  It gives up the locks if it
\* has them.
LEMMA ContinueKeeps ==
  ASSUME Inv, NEW p \in Packers, pc[p] \in {"check", "trigger", "write"}, todo[p] # <<>>,
         Continue(p, Tail(todo[p])),
         \/ writer' = writer /\ writer # p
         \/ writer' = None /\ writer = p /\ batch = <<>>,
         UNCHANGED <<disk, queue, queued, items, buf, lastNum, batch,
                     children, ended, aborting, content, lost, received>>
  PROVE  Inv'
<1> USE DEF Inv, disk
<1>1. todo[p] # <<>>
  OBVIOUS
<1>2. /\ DOMAIN pc' = Packers /\ DOMAIN todo' = Packers
      /\ \A q \in Packers : IsBlobSeq(todo'[q])
      /\ \A q \in Packers \ {p} : pc'[q] = pc[q] /\ todo'[q] = todo[q]
      /\ pc'[p] \in {"check", "dirdone", "done"}
      /\ pc'[p] = "check" => todo'[p] # <<>>
      /\ pc'[p] = "dirdone" => p = Walker /\ todo'[p] = <<>>
      /\ pc'[p] = "done" => p # Walker
  BY <1>1, ContinueTypes
<1>3. Resting' = Resting
  BY <1>2, Constants DEF Resting
<1>4. DiskInv' /\ ManagerInv'
  BY DiskSame DEF ManagerInv, IsEntry
<1>5. PackingInv'
  BY <1>2 DEF PackingInv
<1>6. TasksInv'
  <2>1. Current' = Current
    BY DEF Current
  <2>2. pc[p] \in Busy /\ pc'[p] # "idle" /\ (pc'[p] \in Busy => todo'[p] # <<>>)
    BY <1>2 DEF Busy
  <2>3. p # Walker => pc'[Walker] = pc[Walker] /\ todo'[Walker] = todo[Walker]
    BY <1>2, Constants
  <2>4. /\ pc'[Walker] \in WalkerStates
        /\ pc'[Walker] \in {"check", "queue", "trigger"} => todo'[Walker] # <<>>
        /\ pc'[Walker] = "dirdone" => todo'[Walker] = <<>>
    BY <1>2, <2>3 DEF TasksInv, WalkerStates, Busy
  <2>5. \/ pc'[Walker] \in {"dir", "join", "dirdone"}
        \/ pc'[Walker] \in Busy /\ todo'[Walker] # <<>>
        => ended' < Len(ProcessingQueue)
    <3>1. CASE p = Walker
      BY <3>1, <1>1, <2>2 DEF TasksInv
    <3>2. CASE p # Walker
      BY <3>2, <2>3 DEF TasksInv
    <3> QED BY <3>1, <3>2
  <2>6. ASSUME NEW f \in Files
        PROVE  /\ pc'[f] \in FileStates
               /\ pc'[f] \in Busy => /\ pc'[Walker] = "join"
                                     /\ f \in ToSet(FilesOf[Current])'
                                     /\ todo'[f] # <<>>
    <3>1. CASE f = p
      <4>1. p \in Files /\ p # Walker
        BY <3>1, <2>6, Constants
      <4>2. pc[Walker] = "join" /\ p \in ToSet(FilesOf[Current])
        BY <4>1, <2>2 DEF TasksInv
      <4>3. pc'[p] \in FileStates
        BY <1>2, <4>1 DEF FileStates, Busy
      <4> QED BY <3>1, <4>1, <4>2, <4>3, <2>1, <2>2, <2>3
    <3>2. CASE f # p
      <4>1. pc'[f] = pc[f] /\ todo'[f] = todo[f]
        BY <3>2, <2>6, <1>2, Constants
      <4>2. pc[f] \in Busy => p # Walker
        BY <2>2, <2>6 DEF TasksInv, Busy
      <4> QED BY <4>1, <4>2, <2>1, <2>3, <2>6 DEF TasksInv
    <3> QED BY <3>1, <3>2
  <2> QED BY <1>3, <2>2, <2>4, <2>5, <2>6, Constants DEF TasksInv, Resting
<1>7. LocksInv'
  <2>1. writer \in Packers \cup {None} /\ p # None
    BY Constants DEF ManagerInv
  <2>2. \A q \in Packers \ {p} : pc'[q] \in Locking => pc[q] \in Locking
    BY <1>2 DEF Locking
  <2>3. pc'[p] \notin Locking
    BY <1>2 DEF Locking
  <2>4. CASE writer' = writer /\ writer # p
    <3>1. writer # None => pc'[writer] = pc[writer]
      BY <2>1, <2>4, <1>2
    <3> QED BY <2>1, <2>2, <2>3, <2>4, <3>1 DEF LocksInv
  <2>5. CASE writer' = None /\ writer = p /\ batch = <<>>
    BY <2>1, <2>2, <2>3, <2>5 DEF LocksInv
  <2> QED BY <2>4, <2>5
<1>8. IndexInv'
  BY <1>2, <1>3, IndexSame
<1>9. KnownInv'
  BY <1>3, KnownSame
<1>10. EntriesInv'
  BY <1>2, EntriesSame
<1> QED BY <1>4, <1>5, <1>6, <1>7, <1>8, <1>9, <1>10

\* A task goes from one statement to another, and nothing else happens but
\* that blobs may be queued.
LEMMA MoveKeeps ==
  ASSUME Inv, NEW p \in Packers,
         \/ pc[p] = "check" /\ pc' = [pc EXCEPT ![p] = "queue"]
         \/ pc[p] = "queue" /\ pc' = [pc EXCEPT ![p] = "trigger"]
         \/ pc[p] = "trigger" /\ pc' = [pc EXCEPT ![p] = "write"],
         UNCHANGED <<disk, queued, items, buf, lastNum, writer, batch, todo, children, ended,
                     aborting, content, lost, received>>,
         IsBlobSeq(queue'), writer = None \/ queue' = queue
  PROVE  Inv'
<1> USE DEF Inv, disk
<1>1. /\ DOMAIN pc' = Packers
      /\ \A q \in Packers \ {p} : pc'[q] = pc[q]
      /\ pc[p] \in {"check", "queue", "trigger"} /\ pc'[p] \in {"queue", "trigger", "write"}
  BY DEF PackingInv
<1>2. Resting' = Resting
  BY <1>1, Constants DEF Resting
<1>3. DiskInv' /\ ManagerInv'
  BY DiskSame DEF ManagerInv, IsEntry
<1>4. PackingInv'
  BY <1>1 DEF PackingInv
<1>5. TasksInv'
  <2>1. Current' = Current
    BY DEF Current
  <2>2. todo[p] # <<>>
    BY <1>1, TodoLeft
  <2> QED BY <1>1, <1>2, <2>1, <2>2, Constants DEF TasksInv, Busy, FileStates, WalkerStates, Resting
<1>6. LocksInv'
  <2>1. writer # p /\ writer \in Packers \cup {None}
    BY <1>1, Constants DEF LocksInv, Locking, ManagerInv
  <2>2. \A q \in Packers : pc'[q] \in Locking => pc[q] \in Locking
    BY <1>1 DEF Locking
  <2>3. writer # None => pc'[writer] = pc[writer]
    BY <2>1, <1>1
  <2> QED BY <2>1, <2>2, <2>3 DEF LocksInv
<1>7. IndexInv'
  BY <1>1, <1>2, IndexSame
<1>8. KnownInv'
  BY <1>2, KnownSame
<1>9. EntriesInv'
  BY <1>1, EntriesSame
<1> QED BY <1>3, <1>4, <1>5, <1>6, <1>7, <1>8, <1>9

LEMMA QueueBlobKeeps ==
  ASSUME Inv, NEW p \in Packers, QueueBlob(p) PROVE Inv'
<1>1. IsBlobSeq(todo[p]) /\ todo[p] # <<>>
  BY TodoLeft DEF QueueBlob, Inv, PackingInv
<1>2. IsBlob(Head(todo[p]))
  BY <1>1, TailSeq DEF IsBlobSeq
<1>3. IsBlobSeq(queue)
  BY DEF Inv, ManagerInv
<1>4. IsBlobSeq(queue')
  BY <1>2, <1>3, AppendSeq DEF QueueBlob, IsBlobSeq
<1> QED BY <1>4, MoveKeeps DEF QueueBlob, Unlocked, elsewhere

LEMMA CheckDuplicateKeeps ==
  ASSUME Inv, NEW p \in Packers, CheckDuplicate(p) PROVE Inv'
<1>1. CASE IsBlobDuplicate(Head(todo[p]))
  <2>1. todo[p] # <<>> /\ writer # p
    BY TodoLeft, Constants DEF CheckDuplicate, Unlocked
  <2> QED BY <1>1, <2>1, ContinueKeeps DEF CheckDuplicate, elsewhere, manager
<1>2. CASE ~IsBlobDuplicate(Head(todo[p]))
  <2>1. queue' = queue /\ IsBlobSeq(queue)
    BY DEF CheckDuplicate, manager, Inv, ManagerInv
  <2> QED BY <1>2, <2>1, MoveKeeps DEF CheckDuplicate, elsewhere, disk, manager
<1> QED BY <1>1, <1>2

LEMMA TriggerWriteKeeps ==
  ASSUME Inv, NEW p \in Packers, TriggerWrite(p) PROVE Inv'
<1>1. CASE Continue(p, Tail(todo[p]))
  <2>1. todo[p] # <<>> /\ writer # p
    BY TodoLeft, Constants DEF TriggerWrite, Unlocked
  <2> QED BY <1>1, <2>1, ContinueKeeps DEF TriggerWrite, elsewhere, manager
<1>2. CASE pc' = [pc EXCEPT ![p] = "write"] /\ UNCHANGED todo
  <2>1. queue' = queue /\ IsBlobSeq(queue)
    BY DEF TriggerWrite, manager, Inv, ManagerInv
  <2> QED BY <1>2, <2>1, MoveKeeps DEF TriggerWrite, elsewhere, disk, manager
<1> QED BY <1>1, <1>2 DEF TriggerWrite

-----------------------------------------------------------------------------
(* Whoever holds the locks writes.                                         *)

\* Who writes: the others do not, and nobody is waiting to write the last index file.
LEMMA OnlyWriter ==
  ASSUME Inv, NEW p \in Packers, pc[p] \in {"write"} \cup Locking, writer \in {None, p}
  PROVE  /\ \A q \in Packers \ {p} : pc[q] \notin Locking
         /\ pc[Walker] \notin {"sealLast", "index", "idle"}
         /\ \A q \in Packers : pc[q] # "sealLast"
<1>1. \A q \in Packers \ {p} : pc[q] \notin Locking
  BY Constants DEF Inv, LocksInv
<1>2. pc[Walker] \notin {"sealLast", "index", "idle"}
  BY Constants DEF Inv, TasksInv, Busy, Locking
<1>3. \A q \in Files : pc[q] # "sealLast"
  BY DEF Inv, TasksInv, FileStates, Busy
<1> QED BY <1>1, <1>2, <1>3, Constants

\* The writer goes to another place in write_packfiles or finalize_packfile.
LEMMA WriterMoves ==
  ASSUME Inv, NEW p \in Packers, pc[p] \in {"write"} \cup Locking, writer \in {None, p},
         NEW s, s \in {"write"} \cup Locking,
         pc' = [pc EXCEPT ![p] = s] \/ (pc' = pc /\ pc[p] = s),
         s = "write" => writer' \in {None, p},
         s \in Locking => writer' = p,
         writer' = None => batch' = <<>>,
         s = "write" => Len(batch') < MaxBlobs /\ (queue' = <<>> => batch' = <<>>),
         todo' = todo \/ (p = Walker /\ todo' = [todo EXCEPT ![p] = <<>>]),
         UNCHANGED <<children, ended, content>>, aborting' \in BOOLEAN
  PROVE  PackingInv' /\ TasksInv' /\ LocksInv' /\ Resting' = FALSE
<1> USE DEF Inv
<1>1. DOMAIN pc' = Packers /\ pc'[p] = s /\ \A q \in Packers \ {p} : pc'[q] = pc[q]
  BY DEF PackingInv
<1>2. /\ \A q \in Packers \ {p} : pc[q] \notin Locking
      /\ pc[Walker] # "idle"
  BY OnlyWriter
<1>3. Resting' = FALSE
  BY <1>1, <1>2, Constants DEF Resting, Locking
<1>4. PackingInv'
  BY <1>1, EmptyIsBlobSeq DEF PackingInv
<1>4a. \A f \in Files : todo'[f] = todo[f]
  BY Constants DEF PackingInv
<1>5. TasksInv'
  <2>1. Current' = Current
    BY DEF Current
  <2>2. pc[p] \in Busy /\ pc'[p] \in Busy /\ pc'[p] \notin {"check", "queue", "trigger"}
    BY <1>1 DEF Busy, Locking
  <2>3. pc'[Walker] \in WalkerStates /\ (pc'[Walker] \in {"check", "queue", "trigger"} => todo'[Walker] # <<>>)
    BY <1>1, <2>2, Constants DEF TasksInv, WalkerStates
  <2>4. /\ pc'[Walker] = "dirdone" => todo'[Walker] = <<>>
        /\ \/ pc'[Walker] \in {"dir", "join", "dirdone"}
           \/ pc'[Walker] \in Busy /\ todo'[Walker] # <<>>
           => ended' < Len(ProcessingQueue)
    <3>1. todo'[Walker] \in {todo[Walker], <<>>}
      BY Constants DEF PackingInv
    <3> QED BY <1>1, <2>2, <3>1, Constants DEF TasksInv, Busy
  <2>5. ASSUME NEW f \in Files
        PROVE  /\ pc'[f] \in FileStates
               /\ pc'[f] \in Busy => /\ pc'[Walker] = "join"
                                     /\ f \in ToSet(FilesOf[Current])'
                                     /\ todo'[f] # <<>>
    <3>1. pc'[f] \in FileStates /\ (pc'[f] \in Busy => pc[f] \in Busy)
      BY <1>1, <2>2, <2>5, Constants DEF TasksInv, FileStates
    <3>2. pc'[f] \in Busy => pc'[Walker] = "join"
      <4>1. SUFFICES ASSUME pc'[f] \in Busy PROVE pc'[Walker] = "join"
        OBVIOUS
      <4>2. pc[Walker] = "join"
        BY <4>1, <3>1, <2>5 DEF TasksInv
      <4>3. p # Walker
        BY <4>2, <2>2 DEF Busy
      <4> QED BY <4>2, <4>3, <1>1, Constants
    <3> QED BY <3>1, <3>2, <2>1, <2>5, <1>4a DEF TasksInv
  <2> QED BY <2>3, <2>4, <2>5, <1>3 DEF TasksInv
<1>6. LocksInv'
  <2>1. \A q \in Packers : pc'[q] \in Locking => q = p
    BY <1>1, <1>2
  <2>2. writer' \in {None, p}
    OBVIOUS
  <2>3. p # None
    BY Constants
  <2> QED BY <1>1, <2>1, <2>2, <2>3 DEF LocksInv, Locking
<1> QED BY <1>3, <1>4, <1>5, <1>6

\* All entries there are on disk are in complete index files or in the buffer.
LEMMA AllKept ==
  Inv /\ ~Resting =>
    /\ 1..lastNum \subseteq DOMAIN index /\ DOMAIN index = 1..Len(index)
    /\ lastNum \in Nat /\ Len(index) \in {lastNum, lastNum + 1}
    /\ Len(index) \in Nat /\ lastNum <= Len(index)
    /\ Entries(DOMAIN index) \cup buf = Kept
<1> SUFFICES ASSUME Inv, ~Resting
             PROVE  /\ 1..lastNum \subseteq DOMAIN index /\ DOMAIN index = 1..Len(index)
                    /\ lastNum \in Nat /\ Len(index) \in {lastNum, lastNum + 1}
                    /\ Len(index) \in Nat /\ lastNum <= Len(index)
                    /\ Entries(DOMAIN index) \cup buf = Kept
  OBVIOUS
<1>1. lastNum \in Nat /\ Len(index) \in {lastNum, lastNum + 1}
  BY DEF Inv, ManagerInv, IndexInv
<1>2. DOMAIN index = 1..Len(index)
  BY DEF Inv, DiskInv, IsSeq
<1>2a. \A m, n \in Nat : n \in {m, m + 1} =>
         (\A k \in 1..m : k \in 1..n) /\ (\A k \in 1..n : k \in 1..m \/ (k = n /\ n = m + 1))
  <2> SUFFICES ASSUME NEW m \in Nat, NEW n \in Nat, n = m \/ n = m + 1
               PROVE  (\A k \in 1..m : k \in 1..n)
                      /\ (\A k \in 1..n : k \in 1..m \/ (k = n /\ n = m + 1))
    OBVIOUS
  <2> QED OBVIOUS
<1>2b. Len(index) \in Nat
  BY <1>1
<1>3. 1..lastNum \subseteq DOMAIN index
  BY <1>1, <1>2, <1>2a, <1>2b, Zenon
<1>4. \A k \in DOMAIN index : k \in 1..lastNum \/ index[k].entries \subseteq buf
  <2> SUFFICES ASSUME NEW k \in DOMAIN index, k \notin 1..lastNum PROVE index[k].entries \subseteq buf
    OBVIOUS
  <2>1. k = Len(index) /\ Len(index) = lastNum + 1
    BY <1>1, <1>2, <1>2a, <1>2b, Zenon
  <2> QED BY <2>1 DEF Inv, IndexInv
<1>5. Entries(1..lastNum) \subseteq Entries(DOMAIN index)
  BY <1>3 DEF Entries
<1>6. Entries(DOMAIN index) \subseteq Kept
  BY <1>4 DEF Entries, Kept
<1>7. lastNum <= Len(index)
  BY <1>1
<1> QED BY <1>1, <1>2, <1>2b, <1>3, <1>5, <1>6, <1>7 DEF Kept

LEMMA DuplicateIsKnown == \A b : IsBlobDuplicate(b) <=> b \in Known
BY DEF IsBlobDuplicate, Known, Names

LEMMA TakeBlobKeeps ==
  ASSUME Inv, NEW p \in Packers, TakeBlob(p) PROVE Inv'
<1> DEFINE h == Head(queue)
<1>1. pc[p] = "write" /\ writer \in {None, p} /\ queue # <<>> /\ IsBlobSeq(queue) /\ IsBlobSeq(batch)
  BY DEF TakeBlob, Inv, ManagerInv
<1>2. /\ IsBlobSeq(Tail(queue)) /\ IsBlob(h)
  BY <1>1, TailSeq DEF IsBlobSeq
<1>3. Len(batch) < MaxBlobs
  <2>1. CASE writer = p
    BY <2>1, <1>1, Constants DEF Inv, LocksInv
  <2>2. CASE writer = None
    BY <2>2, Constants DEF Inv, LocksInv
  <2> QED BY <1>1, <2>1, <2>2
<1>4. IsSeq(batch) /\ Len(batch) \in Nat /\ MaxBlobs \in Nat
  BY <1>1, Constants DEF IsBlobSeq, IsSeq
<1>5. \/ /\ h \notin Known /\ batch' = Append(batch, h) /\ queued' = queued \cup {h}
      \/ batch' = batch /\ queued' = queued
  BY DuplicateIsKnown DEF TakeBlob, StillUnique
<1>6. /\ IsBlobSeq(batch') /\ Len(batch') <= MaxBlobs /\ Len(batch') \in Nat
      /\ ToSet(batch) \subseteq ToSet(batch')
  <2>1. CASE batch' = batch
    BY <2>1, <1>1, <1>3, <1>4
  <2>2. CASE batch' = Append(batch, h)
    BY <2>2, <1>1, <1>2, <1>3, <1>4, AppendSeq DEF IsBlobSeq
  <2> QED BY <1>5, <2>1, <2>2
<1>7. PICK s \in {"write", "save"} :
        /\ pc' = [pc EXCEPT ![p] = s]
        /\ s = "write" => Len(batch') < MaxBlobs /\ (queue' = <<>> => batch' = <<>>)
  <2>1. CASE Len(batch') >= MaxBlobs \/ (queue' = <<>> /\ batch' # <<>>)
    <3>1. pc' = [pc EXCEPT ![p] = "save"]
      BY <2>1 DEF TakeBlob
    <3> QED BY <3>1
  <2>2. CASE ~(Len(batch') >= MaxBlobs \/ (queue' = <<>> /\ batch' # <<>>))
    <3>1. pc' = [pc EXCEPT ![p] = "write"]
      BY <2>2, <1>1 DEF TakeBlob
    <3>2. Len(batch') < MaxBlobs
      BY <2>2, <1>6, <1>4
    <3> QED BY <3>1, <3>2, <2>2
  <2> QED BY <2>1, <2>2
<1>8. writer' = p /\ queue' = Tail(queue) /\ p # None
      /\ UNCHANGED <<disk, items, buf, lastNum, todo, children, ended, aborting, content, lost,
                     elsewhere>>
  BY Constants DEF TakeBlob
<1>9. PackingInv' /\ TasksInv' /\ LocksInv' /\ Resting' = FALSE
  BY <1>1, <1>7, <1>8, WriterMoves DEF Locking, Inv, PackingInv
<1>10. ~Resting
  BY <1>1, OnlyWriter DEF Resting
<1>11. DiskInv'
  BY <1>8, DiskSame DEF Inv, disk, elsewhere
<1>12. ManagerInv'
  BY <1>2, <1>6, <1>8 DEF Inv, ManagerInv, IsEntry, disk
<1>13. DOMAIN pc = Packers /\ \A q \in Packers : pc'[q] \in {"seal", "sealLast", "finalize"} => pc'[q] = pc[q]
  BY <1>7 DEF Inv, PackingInv
<1>14. IndexInv'
  <2>1. \A q \in Packers : pc'[q] \in {"seal", "sealLast"} => pc[q] \in {"seal", "sealLast"}
    BY <1>13
  <2> QED BY <2>1, <1>8, <1>9, <1>10 DEF Inv, IndexInv, disk
<1>15. \A q \in Packers : pc'[q] \notin {"finalize", "seal"}
  BY <1>1, <1>7, OnlyWriter DEF Locking, Inv, PackingInv
<1>16. EntriesInv'
  BY <1>15, <1>8 DEF Inv, EntriesInv, Entries, disk
<1>17. Names(Kept)' = Names(Kept) /\ (Entries(DOMAIN index) \cup buf)' = Entries(DOMAIN index) \cup buf
  BY <1>8 DEF Names, Kept, Entries, disk
<1>18. KnownInv'
  <2>1. CASE batch' = batch /\ queued' = queued
    <3>1. Known' = Known
      BY <2>1, <1>8 DEF Known, Names
    <3> QED BY <2>1, <3>1, <1>17, <1>8, <1>10 DEF Inv, KnownInv
  <2>2. CASE h \notin Known /\ batch' = Append(batch, h) /\ queued' = queued \cup {h}
    <3>1. Known' = Known \cup {h}
      BY <2>2, <1>8 DEF Known, Names
    <3>2. /\ ToSet(batch') = ToSet(batch) \cup {h}
          /\ DOMAIN batch' = DOMAIN batch \cup {Len(batch) + 1} /\ batch'[Len(batch) + 1] = h
          /\ \A i \in DOMAIN batch : batch'[i] = batch[i]
      BY <2>2, <1>4, AppendSeq
    <3>3. /\ Known \subseteq Names(Kept) \cup ToSet(batch) \cup lost
          /\ Names(Kept) \cup ToSet(batch) \subseteq Known
          /\ \A b \in ToSet(batch) : b \notin Names(Kept)
          /\ \A i, j \in DOMAIN batch : i # j => batch[i] # batch[j]
      BY <1>10 DEF Inv, KnownInv
    <3>4. \A i \in DOMAIN batch : batch[i] # h
      BY <3>3, <2>2 DEF ToSet
    <3>5. \A i, j \in DOMAIN batch' : i # j => batch'[i] # batch'[j]
      BY <3>2, <3>3, <3>4
    <3>6. lost' = lost
      BY <1>8
    <3>7. \A e1, e2 \in (Entries(DOMAIN index) \cup buf)' : e1[1] = e2[1] => e1 = e2
      BY <1>17 DEF Inv, KnownInv
    <3>8. h \notin Names(Kept)
      BY <3>3, <2>2
    <3> QED BY <3>1, <3>2, <3>3, <3>5, <3>6, <3>7, <3>8, <1>17 DEF KnownInv
  <2> QED BY <1>5, <2>1, <2>2
<1> QED BY <1>9, <1>11, <1>12, <1>14, <1>16, <1>18 DEF Inv

LEMMA PackfileDoneKeeps ==
  ASSUME Inv, NEW p \in Packers, PackfileDone(p) PROVE Inv'
<1>1. pc[p] = "finalize" /\ batch = <<>> /\ pc' = [pc EXCEPT ![p] = "write"] /\ writer = p
      /\ UNCHANGED <<disk, manager, todo, children, ended, aborting, content, lost, elsewhere>>
  BY DEF PackfileDone, Inv, LocksInv, Locking
<1>2. UNCHANGED <<writer, batch, queue>> /\ MaxBlobs \in Nat \ {0} /\ p # None
  BY <1>1, Constants DEF manager
<1>2a. batch' = <<>> /\ Len(batch') = 0 /\ Len(batch') < MaxBlobs
  BY <1>1, <1>2
<1>3. PackingInv' /\ TasksInv' /\ LocksInv' /\ Resting' = FALSE
  BY <1>1, <1>2, <1>2a, WriterMoves DEF Locking, Inv, PackingInv
<1>4. Resting' = Resting
  BY <1>1, <1>3, OnlyWriter DEF Resting, Locking
<1>5. DiskInv' /\ ManagerInv'
  BY <1>1, DiskSame, ManagerSame DEF Inv, disk, manager, elsewhere
<1>6. \A q \in Packers : pc'[q] \in {"seal", "sealLast", "finalize"} => pc'[q] = pc[q]
  BY <1>1 DEF Inv, PackingInv
<1>7. IndexInv'
  BY <1>1, <1>4, <1>6, IndexSame DEF Inv, disk, manager
<1>8. KnownInv'
  BY <1>1, <1>4, KnownSame DEF Inv, disk, manager
<1>9. EntriesInv'
  BY <1>1, <1>6, EntriesSame DEF Inv, disk, manager
<1> QED BY <1>3, <1>5, <1>7, <1>8, <1>9 DEF Inv

LEMMA SavePackfileKeeps ==
  ASSUME Inv, NEW p \in Packers, SavePackfile(p) PROVE Inv'
<1>1. pc[p] = "save" /\ pc' = [pc EXCEPT ![p] = "finalize"] /\ writer = p
      /\ UNCHANGED <<index, highest, manager, todo, children, ended, aborting, content, lost, elsewhere>>
  BY DEF SavePackfile, Inv, LocksInv, Locking
<1>2. PICK whole \in BOOLEAN : packfiles' = Append(packfiles, [blobs |-> ToSet(batch), whole |-> whole])
  BY DEF SavePackfile, Landed
<1>3. UNCHANGED <<writer, batch, queue>> /\ p # None
  BY <1>1, Constants DEF manager
<1>4. PackingInv' /\ TasksInv' /\ LocksInv' /\ Resting' = FALSE
  BY <1>1, <1>3, WriterMoves DEF Locking, Inv, PackingInv
<1>5. Resting' = Resting
  BY <1>1, <1>4, OnlyWriter DEF Resting, Locking
<1> DEFINE n == Len(packfiles) + 1
      new == [blobs |-> ToSet(batch), whole |-> whole]
<1>6. /\ IsSeq(packfiles') /\ Len(packfiles') = n /\ packfiles' # <<>>
      /\ DOMAIN packfiles' = DOMAIN packfiles \cup {n} /\ packfiles'[n] = new
      /\ \A i \in DOMAIN packfiles : packfiles'[i] = packfiles[i]
  BY <1>2, AppendSeq DEF Inv, DiskInv
<1>7. \A b \in ToSet(batch) : IsBlob(b)
  BY DEF Inv, ManagerInv, IsBlobSeq
<1>8. \A e : IsEntry(e) => IsEntry(e)'
  BY <1>6 DEF IsEntry
<1>9. DiskInv'
  <2>1. \A i \in DOMAIN packfiles' : /\ \A b \in packfiles'[i].blobs : IsBlob(b)
                                     /\ packfiles'[i].whole \in BOOLEAN
    BY <1>6, <1>7 DEF Inv, DiskInv
  <2>2. UNCHANGED <<index, received>>
    BY <1>1 DEF elsewhere
  <2> QED BY <2>1, <2>2, <1>6, <1>8 DEF Inv, DiskInv
<1>10. ManagerInv'
  BY <1>1, <1>8 DEF Inv, ManagerInv, manager
<1>11. \A q \in Packers : pc'[q] \in {"seal", "sealLast"} => pc'[q] = pc[q]
  BY <1>1 DEF Inv, PackingInv
<1>12. IndexInv'
  BY <1>1, <1>5, <1>11, IndexSame DEF Inv, manager
<1>13. KnownInv'
  BY <1>1, <1>5, KnownSame DEF Inv, manager
<1>14. EntriesInv'
  <2>1. packfiles' # <<>> /\ ToSet(batch') \subseteq packfiles'[Len(packfiles')].blobs
    BY <1>3, <1>6
  <2>2. \A e \in Entries(DOMAIN index) \cup items \cup buf : IsEntry(e)
    BY DEF Inv, DiskInv, ManagerInv, Entries
  <2>3. \A e \in Entries(DOMAIN index) \cup items \cup buf : e[1] \in packfiles'[e[2]].blobs
    BY <2>2, <1>6 DEF Inv, EntriesInv, IsEntry
  <2>4. (Entries(DOMAIN index) \cup items \cup buf)' = Entries(DOMAIN index) \cup items \cup buf
    BY <1>1 DEF Entries, manager
  <2> QED BY <2>1, <2>3, <2>4 DEF EntriesInv
<1> QED BY <1>4, <1>9, <1>10, <1>12, <1>13, <1>14 DEF Inv

\* A new index file comes after the complete ones.
LEMMA CreateKeeps ==
  ASSUME Inv, ~Resting, NEW E, \A e \in E : IsEntry(e), CreateIndexFile(E),
         UNCHANGED <<packfiles, received, lastNum>>
  PROVE  /\ DiskInv'
         /\ Len(index') = lastNum + 1 /\ index'[Len(index')] = [entries |-> E, whole |-> FALSE]
         /\ Entries(1..lastNum)' = Entries(1..lastNum)
         /\ Entries(DOMAIN index)' = Entries(1..lastNum) \cup E
<1> DEFINE new == [entries |-> E, whole |-> FALSE]
<1>1. lastNum \in Nat /\ lastNum <= Len(index) /\ DOMAIN index = 1..Len(index) /\ Len(index) \in Nat
      /\ Len(index) <= lastNum + 1
  BY AllKept
<1> HIDE DEF new
<1>2. index' = SubSeq(index, 1, lastNum) \o <<new>>
  BY DEF CreateIndexFile, new
<1>3. IsSeq(index)
  BY DEF Inv, DiskInv
<1>3a. IsCut(index, lastNum, new, index')
  BY <1>1, <1>2, <1>3, CutSeq
<1>4. /\ IsSeq(index') /\ Len(index') = lastNum + 1 /\ DOMAIN index' = 1..(lastNum + 1)
      /\ index'[lastNum + 1] = new
      /\ \A i \in 1..lastNum : index'[i] = index[i] /\ i \in DOMAIN index
  BY <1>3a DEF IsCut
<1>5. \A k \in 1..(lastNum + 1) : k \in 1..lastNum \/ k = lastNum + 1
  BY <1>1
<1>6. new.entries = E /\ new.whole = FALSE
      /\ new = [entries |-> new.entries, whole |-> new.whole]
  BY DEF new
<1>7. \A e : IsEntry(e)' <=> IsEntry(e)
  BY DEF IsEntry
<1>8. DiskInv'
  <2>1. \A k \in DOMAIN index' :
          /\ index'[k] = [entries |-> index'[k].entries, whole |-> index'[k].whole]
          /\ \A e \in index'[k].entries : IsEntry(e)
    <3> SUFFICES ASSUME NEW k \in 1..(lastNum + 1)
                 PROVE  /\ index'[k] = [entries |-> index'[k].entries, whole |-> index'[k].whole]
                        /\ \A e \in index'[k].entries : IsEntry(e)
      BY <1>4
    <3>1. CASE k = lastNum + 1
      BY <3>1, <1>4, <1>6
    <3>2. CASE k \in 1..lastNum
      BY <3>2, <1>4 DEF Inv, DiskInv
    <3> QED BY <3>1, <3>2, <1>5
  <2>2. DOMAIN index \subseteq DOMAIN index'
    BY <1>1, <1>4
  <2>3. received' \in [Peers -> SUBSET DOMAIN index']
    BY <2>2 DEF Inv, DiskInv
  <2>4. packfiles' = packfiles
    OBVIOUS
  <2>5. IsSeq(packfiles) /\ \A i \in DOMAIN packfiles :
          (\A b \in packfiles[i].blobs : IsBlob(b)) /\ packfiles[i].whole \in BOOLEAN
    BY DEF Inv, DiskInv
  <2> QED BY <2>1, <2>3, <2>4, <2>5, <1>4, <1>7 DEF DiskInv
<1>9. Entries(1..lastNum)' = Entries(1..lastNum)
  BY <1>4 DEF Entries
<1>10. Entries(DOMAIN index)' = Entries(1..lastNum) \cup E
  <2>1. \A e : e \in Entries(DOMAIN index)' <=> \E k \in 1..(lastNum + 1) : e \in index'[k].entries
    BY <1>4 DEF Entries
  <2>2. \A e : e \in Entries(1..lastNum) <=> \E k \in 1..lastNum : e \in index'[k].entries
    BY <1>4 DEF Entries
  <2>3. lastNum + 1 \in 1..(lastNum + 1) /\ \A k \in 1..lastNum : k \in 1..(lastNum + 1)
    BY <1>1
  <2>4. \A e : (\E k \in 1..(lastNum + 1) : e \in index'[k].entries)
               <=> e \in E \/ \E k \in 1..lastNum : e \in index'[k].entries
    BY <2>3, <1>4, <1>5, <1>6
  <2> QED BY <2>1, <2>2, <2>4
<1> QED BY <1>4, <1>8, <1>9, <1>10 DEF new

LEMMA PushEntryKeeps ==
  ASSUME Inv, NEW p \in Packers, PushEntry(p) PROVE Inv'
<1> DEFINE h == Head(batch)
      entry == <<h, Len(packfiles)>>
<1>1. pc[p] = "finalize" /\ batch # <<>> /\ writer = p
      /\ buf' = buf \cup {entry} /\ batch' = Tail(batch)
      /\ UNCHANGED <<packfiles, highest, queue, queued, items, lastNum, writer, todo, children,
                     ended, aborting, content, lost, elsewhere>>
  BY DEF PushEntry, Inv, LocksInv, Locking
<1>2. ~Resting
  BY <1>1, OnlyWriter DEF Locking, Resting
<1>3. IsBlobSeq(batch) /\ Len(batch) <= MaxBlobs /\ MaxBlobs \in Nat
  BY Constants DEF Inv, ManagerInv
<1>4. /\ IsSeq(Tail(batch)) /\ Len(Tail(batch)) = Len(batch) - 1 /\ Len(batch) \in Nat \ {0}
      /\ ToSet(batch) = {h} \cup ToSet(Tail(batch))
      /\ \A i \in DOMAIN Tail(batch) : i + 1 \in DOMAIN batch /\ Tail(batch)[i] = batch[i + 1]
  BY <1>1, <1>3, TailSeq DEF IsBlobSeq
<1>5. IsBlobSeq(batch') /\ Len(batch') < MaxBlobs
  BY <1>1, <1>3, <1>4 DEF IsBlobSeq
<1>6. packfiles # <<>> /\ ToSet(batch) \subseteq packfiles[Len(packfiles)].blobs
  BY <1>1 DEF Inv, EntriesInv
<1>7. Len(packfiles) \in DOMAIN packfiles /\ IsBlob(h)
  <2>1. packfiles \in Seq(ToSet(packfiles))
    BY DEF Inv, DiskInv, IsSeq
  <2>2. Len(packfiles) \in Nat \ {0} /\ DOMAIN packfiles = 1..Len(packfiles)
    BY <2>1, <1>6
  <2> QED BY <2>2, <1>3, <1>4 DEF IsBlobSeq
<1>8. entry[1] = h /\ entry[2] = Len(packfiles)
  OBVIOUS
<1> HIDE DEF entry, h
<1>9. IsEntry(entry)
  BY <1>7, <1>8 DEF IsEntry
<1>10. \A e \in buf' : IsEntry(e)
  BY <1>1, <1>9 DEF Inv, ManagerInv
<1>11. PICK s \in {"finalize", "seal"} :
         /\ pc' = [pc EXCEPT ![p] = s] \/ (pc' = pc /\ pc[p] = s)
         /\ s = "seal" => CreateIndexFile(buf')
         /\ s = "finalize" => index' = index
  <2>1. CASE Cardinality(buf') >= MaxEntries
    BY <2>1 DEF PushEntry
  <2>2. CASE ~(Cardinality(buf') >= MaxEntries)
    <3>1. pc' = pc /\ pc[p] = "finalize" /\ index' = index
      BY <2>2, <1>1 DEF PushEntry
    <3> QED BY <3>1
  <2> QED BY <2>1, <2>2
<1>12. PackingInv' /\ TasksInv' /\ LocksInv' /\ Resting' = FALSE
  BY <1>1, <1>11, WriterMoves, Constants DEF Locking, Inv, PackingInv
<1>13. \A e : IsEntry(e)' <=> IsEntry(e)
  BY <1>1 DEF IsEntry
<1>14. ManagerInv'
  <2>1. \A e \in items' \cup buf' : IsEntry(e)
    BY <1>1, <1>10 DEF Inv, ManagerInv
  <2>2. Len(batch') <= MaxBlobs
    BY <1>4, <1>3, <1>1
  <2> QED BY <1>1, <1>5, <1>13, <2>1, <2>2 DEF Inv, ManagerInv
<1>15. /\ DiskInv'
       /\ Len(index') \in {lastNum, lastNum + 1}
       /\ Len(index') = lastNum + 1 =>
            ~index'[Len(index')].whole /\ index'[Len(index')].entries \subseteq buf'
       /\ s = "seal" => Len(index') = lastNum + 1 /\ index'[Len(index')].entries = buf'
       /\ Entries(1..lastNum)' = Entries(1..lastNum)
       /\ Entries(DOMAIN index)' \cup buf' = Kept \cup {entry}
  <2>1. CASE s = "seal"
    <3>1. UNCHANGED <<packfiles, received, lastNum>>
      BY <1>1 DEF elsewhere
    <3>2. /\ DiskInv'
          /\ Len(index') = lastNum + 1
          /\ index'[Len(index')] = [entries |-> buf', whole |-> FALSE]
          /\ Entries(1..lastNum)' = Entries(1..lastNum)
          /\ Entries(DOMAIN index)' = Entries(1..lastNum) \cup buf'
      BY <2>1, <3>1, <1>2, <1>10, <1>11, CreateKeeps
    <3> QED BY <3>2, <1>1 DEF Kept
  <2>2. CASE s = "finalize"
    <3>1. index' = index /\ UNCHANGED <<packfiles, received, lastNum>>
      BY <2>2, <1>1, <1>11 DEF elsewhere
    <3>2. DiskInv'
      BY <3>1, DiskSame DEF Inv
    <3>3. Entries(1..lastNum)' = Entries(1..lastNum) /\ Entries(DOMAIN index)' = Entries(DOMAIN index)
      BY <3>1 DEF Entries
    <3>4. /\ Len(index) \in {lastNum, lastNum + 1}
          /\ Len(index) = lastNum + 1 => ~index[Len(index)].whole /\ index[Len(index)].entries \subseteq buf
      BY <1>2 DEF Inv, IndexInv
    <3>5. Entries(DOMAIN index) \cup buf = Kept
      BY <1>2, AllKept
    <3> QED BY <3>1, <3>2, <3>3, <3>4, <3>5, <2>2, <1>1
  <2> QED BY <2>1, <2>2
<1>16. DOMAIN pc = Packers /\ \A q \in Packers \ {p} : pc'[q] = pc[q] /\ pc[q] \notin {"seal", "sealLast", "finalize"}
  BY <1>1, <1>11, OnlyWriter DEF Inv, PackingInv, Locking
<1>17. pc'[p] = s
  BY <1>11, <1>16
<1>18. IndexInv'
  <2>1. \A q \in Packers : pc'[q] \in {"seal", "sealLast"} => s = "seal"
    BY <1>16, <1>17
  <2> QED BY <1>1, <1>12, <1>15, <2>1 DEF IndexInv
<1>19. Kept' = Kept \cup {entry} /\ Names(Kept)' = Names(Kept) \cup {h}
  <2>1. Kept' = Kept \cup {entry}
    BY <1>15, <1>1 DEF Kept
  <2> QED BY <2>1, <1>8 DEF Names
<1>20. KnownInv'
  <2>1. /\ Known \subseteq Names(Kept) \cup ToSet(batch) \cup lost
        /\ Names(Kept) \cup ToSet(batch) \subseteq Known
        /\ \A b \in ToSet(batch) : b \notin Names(Kept)
        /\ \A i, j \in DOMAIN batch : i # j => batch[i] # batch[j]
        /\ \A e1, e2 \in Kept : e1[1] = e2[1] => e1 = e2
    BY <1>2, AllKept DEF Inv, KnownInv
  <2>2. Known' = Known
    BY <1>1 DEF Known, Names
  <2>3. \A i, j \in DOMAIN batch' : i # j => batch'[i] # batch'[j]
    <3> SUFFICES ASSUME NEW i \in DOMAIN Tail(batch), NEW j \in DOMAIN Tail(batch), i # j
                 PROVE  Tail(batch)[i] # Tail(batch)[j]
      BY <1>1
    <3>1. i \in Int /\ j \in Int
      BY <1>4 DEF IsSeq
    <3>2. i + 1 # j + 1
      BY <3>1
    <3> QED BY <3>2, <1>4, <2>1
  <2>4. h \notin ToSet(batch')
    <3>1. ASSUME NEW i \in DOMAIN Tail(batch), Tail(batch)[i] = h PROVE FALSE
      <4>1. batch \in Seq(ToSet(batch)) /\ Tail(batch) \in Seq(ToSet(Tail(batch)))
        BY <1>3, <1>4 DEF IsBlobSeq, IsSeq
      <4>2. i \in Nat \ {0} /\ 1 \in DOMAIN batch /\ h = batch[1]
        BY <4>1, <1>1, <1>4 DEF h
      <4>3. i + 1 # 1
        BY <4>2
      <4> QED BY <3>1, <4>2, <4>3, <1>4, <2>1
    <3> QED BY <3>1, <1>1 DEF ToSet
  <2>5. h \notin Names(Kept)
    BY <1>4, <2>1
  <2>6. \A b \in ToSet(batch') : b \notin Names(Kept)'
    BY <2>1, <2>4, <1>1, <1>4, <1>19
  <2>7. \A e \in Kept : e[1] # h
    BY <2>5 DEF Names
  <2>8. (Entries(DOMAIN index) \cup buf)' = Kept \cup {entry}
    BY <1>15
  <2>9. \A e1, e2 \in (Entries(DOMAIN index) \cup buf)' : e1[1] = e2[1] => e1 = e2
    BY <2>1, <2>7, <2>8, <1>8
  <2>10. ToSet(batch) = {h} \cup ToSet(batch') /\ lost' = lost
    BY <1>1, <1>4
  <2> QED BY <2>1, <2>2, <2>3, <2>6, <2>9, <2>10, <1>19 DEF KnownInv
<1>21. EntriesInv'
  <2>1. packfiles' = packfiles /\ ToSet(batch') \subseteq ToSet(batch) /\ items' = items
    BY <1>1, <1>4
  <2>2. \A e \in Kept \cup items : e[1] \in packfiles[e[2]].blobs
    BY <1>2, AllKept DEF Inv, EntriesInv
  <2>3. entry[1] \in packfiles[entry[2]].blobs
    BY <1>4, <1>6, <1>8
  <2>4. Entries(DOMAIN index)' \cup items' \cup buf' = (Kept \cup items) \cup {entry}
    BY <1>15, <2>1
  <2> QED BY <2>1, <2>2, <2>3, <2>4, <1>6 DEF EntriesInv
<1> QED BY <1>12, <1>14, <1>15, <1>18, <1>20, <1>21 DEF Inv

\* An index file is written: its entries move from the buffer to the complete files.
LEMMA SealKeeps ==
  ASSUME Inv, NEW p \in Packers, pc[p] \in {"seal", "sealLast"}, ~Resting, SealIndexFile(p)
  PROVE  /\ DiskInv' /\ ManagerInv'
         /\ Len(index') = lastNum' /\ Entries(DOMAIN index)' = Kept /\ Kept' = Kept
         /\ Known' = Known /\ batch' = batch
<1> DEFINE n == Len(index)
<1>1. /\ lastNum \in Nat /\ n = lastNum + 1 /\ index[n].entries = buf
      /\ DOMAIN index = 1..n /\ IsSeq(index) /\ n \in DOMAIN index
  BY AllKept DEF Inv, DiskInv, IndexInv
<1>2. PICK whole \in BOOLEAN : index' = [index EXCEPT ![n].whole = whole]
  BY DEF SealIndexFile, Landed
<1>3. /\ lastNum' = lastNum + 1 /\ buf' = {} /\ batch' = batch
      /\ UNCHANGED <<packfiles, highest, queue, queued, items, writer, received>>
  BY DEF SealIndexFile, elsewhere
<1>4. /\ DOMAIN index' = DOMAIN index
      /\ \A k \in DOMAIN index : k # n => index'[k] = index[k]
      /\ index'[n] = [index[n] EXCEPT !.whole = whole]
  BY <1>1, <1>2
<1>5. index[n] = [entries |-> index[n].entries, whole |-> index[n].whole]
  BY <1>1 DEF Inv, DiskInv
<1>6. index'[n].entries = index[n].entries
      /\ index'[n] = [entries |-> index'[n].entries, whole |-> index'[n].whole]
  BY <1>4, <1>5
<1>7. IsSeq(index') /\ Len(index') = n
  <2> DEFINE X == {index'[k] : k \in 1..n}
  <2>1. index' = [k \in 1..n |-> index'[k]]
    BY <1>1, <1>2
  <2>2. \A k \in 1..n : index'[k] \in X
    OBVIOUS
  <2>3. n \in Nat
    BY <1>1
  <2> HIDE DEF X, n
  <2>4. index' \in Seq(X) /\ Len(index') = n
    BY <2>1, <2>2, <2>3
  <2> QED BY <2>4, SeqOwn
<1> HIDE DEF n
<1>8. \A k \in DOMAIN index : index'[k].entries = index[k].entries
      /\ index'[k] = [entries |-> index'[k].entries, whole |-> index'[k].whole]
  BY <1>4, <1>6 DEF Inv, DiskInv
<1>9. \A e : IsEntry(e)' <=> IsEntry(e)
  BY <1>3 DEF IsEntry
<1>10. DiskInv'
  BY <1>3, <1>4, <1>7, <1>8, <1>9 DEF Inv, DiskInv
<1>11. ManagerInv'
  BY <1>1, <1>3, <1>9 DEF Inv, ManagerInv
<1>12. Entries(DOMAIN index)' = Entries(DOMAIN index)
  BY <1>4, <1>8 DEF Entries
<1>13. Entries(DOMAIN index) = Kept
  <2>1. Entries(DOMAIN index) \cup buf = Kept
    BY AllKept
  <2>2. buf \subseteq Entries(DOMAIN index)
    BY <1>1 DEF Entries
  <2> QED BY <2>1, <2>2
<1>14. Kept' = Entries(DOMAIN index)'
  <2>1. 1..lastNum' = DOMAIN index'
    BY <1>1, <1>3, <1>4
  <2> QED BY <2>1, <1>3 DEF Kept
<1>15. Known' = Known
  BY <1>3 DEF Known, Names
<1> QED BY <1>1, <1>3, <1>7, <1>10, <1>11, <1>12, <1>13, <1>14, <1>15

\* What SealKeeps means for the rest of the invariant.
LEMMA SealedKeeps ==
  ASSUME Inv, NEW p \in Packers, pc[p] \in {"seal", "sealLast"}, ~Resting, SealIndexFile(p),
         Resting' = FALSE, \A q \in Packers : pc'[q] \notin {"seal", "sealLast"},
         pc'[p] \in {"finalize", "flushed"},
         \A q \in Packers \ {p} : pc'[q] = pc[q], pc'[p] = "finalize" => pc[p] = "seal"
  PROVE  IndexInv' /\ KnownInv' /\ EntriesInv'
<1>1. /\ Len(index') = lastNum' /\ Entries(DOMAIN index)' = Kept /\ Kept' = Kept
      /\ Known' = Known /\ batch' = batch
  BY SealKeeps
<1>2. buf' = {} /\ items' = items /\ lost' = lost /\ packfiles' = packfiles
      /\ lastNum' = lastNum + 1 /\ lastNum \in Nat
  BY DEF SealIndexFile, Inv, ManagerInv
<1>3. Names(Kept)' = Names(Kept)
  BY <1>1 DEF Names
<1>4. IndexInv'
  BY <1>1, <1>2 DEF IndexInv
<1>5. Entries(DOMAIN index) \cup buf = Kept
  BY AllKept
<1>6. Entries(DOMAIN index)' \cup buf' = Kept
  BY <1>1, <1>2
<1>7. KnownInv'
  BY <1>1, <1>2, <1>3, <1>5, <1>6 DEF Inv, KnownInv
<1>8. EntriesInv'
  <2>1. \A e \in Entries(DOMAIN index)' \cup items' \cup buf' : e[1] \in packfiles[e[2]].blobs
    BY <1>2, <1>5, <1>6 DEF Inv, EntriesInv
  <2>2. \A q \in Packers : pc'[q] \in {"finalize", "seal"} => pc[q] \in {"finalize", "seal"}
    OBVIOUS
  <2> QED BY <1>1, <1>2, <2>1, <2>2 DEF Inv, EntriesInv
<1> QED BY <1>4, <1>7, <1>8

LEMMA SealIndexFileKeeps ==
  ASSUME Inv, NEW p \in Packers, SealIndexFile(p) PROVE Inv'
<1>1. CASE pc[p] = "seal"
  <2>1. pc' = [pc EXCEPT ![p] = "finalize"] /\ writer = p /\ p # None
        /\ UNCHANGED <<writer, batch, queue, todo, children, ended, aborting, content>>
    BY <1>1, Constants DEF SealIndexFile, Inv, LocksInv, Locking
  <2>2. PackingInv' /\ TasksInv' /\ LocksInv' /\ Resting' = FALSE
    BY <1>1, <2>1, WriterMoves DEF Locking, Inv, PackingInv
  <2>3. /\ ~Resting
        /\ \A q \in Packers \ {p} : pc'[q] = pc[q] /\ pc[q] \notin {"seal", "sealLast"}
        /\ pc'[p] = "finalize"
    BY <1>1, <2>1, OnlyWriter DEF Resting, Locking, Inv, PackingInv
  <2>4. DiskInv' /\ ManagerInv'
    BY <1>1, <2>3, SealKeeps
  <2>5. IndexInv' /\ KnownInv' /\ EntriesInv'
    BY <1>1, <2>2, <2>3, SealedKeeps
  <2> QED BY <2>2, <2>4, <2>5 DEF Inv
<1>2. CASE pc[p] = "sealLast"
  <2>1. p = Walker /\ ~Resting /\ \A f \in Files : pc[f] \notin Busy
    BY <1>2, Constants DEF Inv, TasksInv, FileStates, Busy, Resting
  <2>2. pc' = [pc EXCEPT ![p] = "flushed"] /\ DOMAIN pc = Packers
        /\ UNCHANGED <<writer, batch, queue, todo, children, ended, aborting, content>>
    BY <1>2 DEF SealIndexFile, Inv, PackingInv
  <2>3. /\ pc'[Walker] = "flushed" /\ DOMAIN pc' = Packers
        /\ \A q \in Packers \ {p} : pc'[q] = pc[q] /\ pc[q] \notin {"seal", "sealLast"}
    BY <2>1, <2>2, <1>2, Constants DEF Busy, Inv, TasksInv, FileStates
  <2>4. Resting' = FALSE
    BY <2>3 DEF Resting
  <2>5. DiskInv' /\ ManagerInv'
    BY <1>2, <2>1, SealKeeps
  <2>6. IndexInv' /\ KnownInv' /\ EntriesInv'
    BY <1>2, <2>1, <2>3, <2>4, SealedKeeps
  <2>7. PackingInv'
    BY <2>2, <2>3 DEF Inv, PackingInv
  <2>8. TasksInv'
    BY <2>1, <2>3, <2>4, Constants DEF Inv, TasksInv, WalkerStates, Busy
  <2>9. LocksInv'
    <3>1. writer # Walker
      BY <1>2, <2>1, Constants DEF Inv, LocksInv, Locking
    <3>2. writer \in Packers \cup {None}
      BY DEF Inv, ManagerInv
    <3> QED BY <2>1, <2>2, <2>3, <3>1, <3>2, Constants DEF Inv, LocksInv, Locking
  <2> QED BY <2>5, <2>6, <2>7, <2>8, <2>9 DEF Inv
<1> QED BY <1>1, <1>2 DEF SealIndexFile

\* The walker goes from one statement to another after the last task.
LEMMA WalkerMoves ==
  ASSUME Inv, NEW s, s \in WalkerStates \ Busy, s \notin {"idle", "join", "dir", "dirdone"},
         pc[Walker] \notin {"idle", "join"}, pc' = [pc EXCEPT ![Walker] = s],
         writer = Walker \/ writer' = writer, writer = Walker => writer' = None,
         writer' = None => batch' = <<>>, UNCHANGED <<children, ended, content>>,
         todo' = todo \/ todo' = [todo EXCEPT ![Walker] = <<>>], aborting' \in BOOLEAN
  PROVE  /\ PackingInv' /\ TasksInv' /\ LocksInv' /\ Resting' = Resting /\ ~Resting
         /\ \A q \in Files : pc'[q] = pc[q] /\ pc[q] \notin Busy
         /\ pc'[Walker] = s
<1>1. /\ DOMAIN pc' = Packers /\ pc'[Walker] = s /\ \A q \in Files : pc'[q] = pc[q]
  BY Constants DEF Inv, PackingInv
<1>2. ~Resting /\ Resting' = Resting
  BY <1>1 DEF Resting
<1>3. \A q \in Files : pc[q] \notin Busy
  BY DEF Inv, TasksInv
<1>4. PackingInv'
  BY <1>1, EmptyIsBlobSeq DEF Inv, PackingInv
<1>4a. \A f \in Files : todo'[f] = todo[f]
  BY Constants DEF Inv, PackingInv
<1>5. TasksInv'
  BY <1>1, <1>2, <1>3, <1>4a, Constants DEF Inv, TasksInv, Busy
<1>6. LocksInv'
  <2>1. writer' = None
    <3>1. writer \in Packers \cup {None}
      BY DEF Inv, ManagerInv
    <3>2. writer \notin Files
      BY <1>3, Constants DEF Inv, LocksInv, Locking, Busy
    <3> QED BY <3>1, <3>2, Constants
  <2>2. \A q \in Packers : pc'[q] \notin Locking
    BY <1>1, <1>3, Constants DEF Locking, Busy
  <2> QED BY <2>1, <2>2 DEF LocksInv
<1> QED BY <1>1, <1>2, <1>3, <1>4, <1>5, <1>6

\* The walker goes on, and the locks are free.
LEMMA WalkerSteps ==
  ASSUME Inv, NEW s, s \in {"index", "flushed", "sending", "reported", "failed"},
         pc[Walker] \notin {"idle", "join"}, pc' = [pc EXCEPT ![Walker] = s],
         writer = Walker \/ writer' = writer, writer = Walker => writer' = None /\ batch = <<>>,
         UNCHANGED <<disk, queue, queued, items, buf, lastNum, batch, todo, children, ended,
                     aborting, content, lost, received>>
  PROVE  Inv'
<1>1. writer' = None => batch' = <<>>
  BY DEF Inv, LocksInv
<1>2. s \in WalkerStates \ Busy /\ s \notin {"idle", "join", "dir", "dirdone"}
  BY DEF WalkerStates, Busy
<1>3. /\ PackingInv' /\ TasksInv' /\ LocksInv' /\ Resting' = Resting
      /\ \A q \in Files : pc'[q] = pc[q]
      /\ pc'[Walker] = s
  BY <1>1, <1>2, WalkerMoves DEF Inv, PackingInv
<1>4. DiskInv' /\ ManagerInv'
  BY DiskSame DEF Inv, ManagerInv, IsEntry, disk
<1>5. \A q \in Packers : pc'[q] \in {"finalize", "seal", "sealLast"} => pc'[q] = pc[q]
  BY <1>3, Constants
<1>6. IndexInv'
  BY <1>3, <1>5, IndexSame DEF Inv, disk
<1>7. KnownInv'
  BY <1>3, KnownSame DEF Inv, disk
<1>8. EntriesInv'
  BY <1>5, EntriesSame DEF Inv, disk
<1> QED BY <1>3, <1>4, <1>6, <1>7, <1>8 DEF Inv

\* Tasks only run while the walker waits for them.
LEMMA WalkerAlone ==
  ASSUME Inv, pc[Walker] # "join" PROVE \A f \in Files : pc[f] \notin Busy
BY DEF Inv, TasksInv

LEMMA NobodyWrites ==
  ASSUME Inv, \A f \in Files : pc[f] \notin Busy, pc[Walker] \notin {"write"} \cup Locking
  PROVE  writer = None /\ batch = <<>>
<1>1. writer \in Packers \cup {None}
  BY DEF Inv, ManagerInv
<1>2. writer = None
  BY <1>1, Constants DEF Inv, LocksInv, Busy, Locking
<1> QED BY <1>2 DEF Inv, LocksInv

LEMMA PackedKeeps == ASSUME Inv, Packed PROVE Inv'
<1>1. PICK s \in {"sending", "failed"} : pc' = [pc EXCEPT ![Walker] = s]
  BY DEF Packed
<1>2. writer = None
  BY WalkerAlone, NobodyWrites DEF Packed, Locking
<1> QED BY <1>1, <1>2, WalkerSteps, Constants DEF Packed, manager, elsewhere

LEMMA FlushFailsKeeps == ASSUME Inv, FlushFails PROVE Inv'
<1>1. writer = None
  BY WalkerAlone, NobodyWrites DEF FlushFails, Locking
<1> QED BY <1>1, WalkerSteps, Constants DEF FlushFails, manager, elsewhere

LEMMA BackupDoneKeeps == ASSUME Inv, BackupDone PROVE Inv'
<1>1. writer = None
  BY WalkerAlone, NobodyWrites DEF BackupDone, Locking
<1> QED BY <1>1, WalkerSteps, Constants DEF BackupDone, manager

LEMMA WriteDoneKeeps ==
  ASSUME Inv, NEW p \in Packers, WriteDone(p) PROVE Inv'
<1>1. /\ pc[p] = "write" /\ writer \in {None, p} /\ queue = <<>> /\ writer' = None
      /\ Written(p) /\ p # None
      /\ UNCHANGED <<disk, queue, queued, items, buf, lastNum, batch, children, ended,
                     aborting, content, lost, received>>
  BY Constants DEF WriteDone, elsewhere
<1>2. writer = p => batch = <<>>
  BY <1>1 DEF Inv, LocksInv
<1>3. CASE todo[p] # <<>>
  <2>1. Continue(p, Tail(todo[p]))
    BY <1>1, <1>3 DEF Written
  <2>2. \/ writer' = writer /\ writer # p
        \/ writer' = None /\ writer = p /\ batch = <<>>
    BY <1>1, <1>2
  <2> QED BY <1>1, <1>3, <2>1, <2>2, ContinueKeeps
<1>4. CASE todo[p] = <<>>
  <2>1. p = Walker
    BY <1>1, <1>4, Constants DEF Inv, TasksInv, Busy
  <2>2. pc' = [pc EXCEPT ![Walker] = "index"] /\ todo' = todo
    BY <1>1, <1>4, <2>1 DEF Written
  <2>3. writer = Walker \/ writer' = writer
    BY <1>1, <2>1
  <2> QED BY <1>1, <1>2, <2>1, <2>2, <2>3, WalkerSteps
<1> QED BY <1>3, <1>4

LEMMA FlushIndexKeeps == ASSUME Inv, FlushIndex PROVE Inv'
<1>1. /\ pc[Walker] = "index" /\ CreateIndexFile(buf) /\ pc' = [pc EXCEPT ![Walker] = "sealLast"]
      /\ UNCHANGED <<packfiles, highest, queue, queued, items, buf, lastNum, writer, batch, todo,
                     children, ended, aborting, content, lost, received>>
  BY DEF FlushIndex, manager, elsewhere
<1>2. writer = None /\ batch = <<>>
  BY <1>1, WalkerAlone, NobodyWrites DEF Locking
<1>3. "sealLast" \in WalkerStates \ Busy
  BY DEF WalkerStates, Busy
<1>4. /\ PackingInv' /\ TasksInv' /\ LocksInv' /\ Resting' = Resting /\ ~Resting
      /\ \A q \in Files : pc'[q] = pc[q] /\ pc[q] \notin Busy
      /\ pc'[Walker] = "sealLast"
  BY <1>1, <1>2, <1>3, WalkerMoves, Constants DEF Inv, PackingInv
<1>5. \A e \in buf : IsEntry(e)
  BY DEF Inv, ManagerInv
<1>6. /\ DiskInv'
      /\ Len(index') = lastNum + 1 /\ index'[Len(index')] = [entries |-> buf, whole |-> FALSE]
      /\ Entries(1..lastNum)' = Entries(1..lastNum)
      /\ Entries(DOMAIN index)' = Entries(1..lastNum) \cup buf
  BY <1>1, <1>4, <1>5, CreateKeeps
<1>7. ManagerInv'
  BY <1>1, ManagerSame DEF Inv
<1>8. IndexInv'
  BY <1>1, <1>4, <1>6 DEF Inv, IndexInv
<1>9. Entries(DOMAIN index)' \cup buf' = Kept /\ Kept' = Kept /\ Known' = Known
  BY <1>1, <1>6 DEF Kept, Known, Names
<1>10. Entries(DOMAIN index) \cup buf = Kept /\ Names(Kept)' = Names(Kept)
  BY <1>4, <1>9, AllKept DEF Names
<1>11. KnownInv'
  BY <1>1, <1>4, <1>9, <1>10 DEF Inv, KnownInv
<1>12. EntriesInv'
  <2>1. \A q \in Packers : pc'[q] \notin {"finalize", "seal"}
    BY <1>4, Constants DEF Busy
  <2>2. \A e \in Entries(DOMAIN index)' \cup items' \cup buf' : e[1] \in packfiles[e[2]].blobs
    BY <1>1, <1>9, <1>10 DEF Inv, EntriesInv
  <2> QED BY <2>1, <2>2, <1>1 DEF EntriesInv
<1> QED BY <1>4, <1>6, <1>7, <1>8, <1>11, <1>12 DEF Inv

-----------------------------------------------------------------------------
(* Errors.                                                                 *)

\* A file is given up, and its task lets go of the locks if it has them.
LEMMA FileEnds ==
  ASSUME Inv, NEW f \in Files, pc[f] \in Busy, pc' = [pc EXCEPT ![f] = "failed"],
         todo' = [todo EXCEPT ![f] = <<>>], queue' = queue,
         writer = f => writer' = None /\ batch' = <<>>,
         writer # f => UNCHANGED <<writer, batch>>,
         UNCHANGED <<children, ended, aborting, content>>
  PROVE  /\ PackingInv' /\ TasksInv' /\ LocksInv' /\ Resting' = Resting
         /\ pc'[f] = "failed" /\ \A q \in Packers \ {f} : pc'[q] = pc[q]
<1>1. /\ DOMAIN pc' = Packers /\ pc'[f] = "failed" /\ \A q \in Packers \ {f} : pc'[q] = pc[q]
      /\ \A q \in Packers \ {f} : todo'[q] = todo[q]
  BY Constants DEF Inv, PackingInv
<1>2. f # Walker /\ f # None
  BY Constants
<1>3. Resting' = Resting
  BY <1>1, <1>2, Constants DEF Resting
<1>4. PackingInv'
  BY <1>1, EmptyIsBlobSeq DEF Inv, PackingInv
<1>5. TasksInv'
  <2>1. Current' = Current
    BY DEF Current
  <2>2. pc'[Walker] = pc[Walker] /\ todo'[Walker] = todo[Walker] /\ pc[Walker] = "join"
    BY <1>1, <1>2, Constants DEF Inv, TasksInv
  <2>3. ASSUME NEW g \in Files
        PROVE  /\ pc'[g] \in FileStates
               /\ pc'[g] \in Busy => /\ pc'[Walker] = "join"
                                     /\ g \in ToSet(FilesOf[Current])'
                                     /\ todo'[g] # <<>>
    <3>1. CASE g = f
      BY <3>1, <1>1 DEF FileStates, Busy
    <3>2. CASE g # f
      BY <3>2, <2>3, <1>1, <2>1, <2>2, Constants DEF Inv, TasksInv
    <3> QED BY <3>1, <3>2
  <2> QED BY <1>3, <2>2, <2>3 DEF Inv, TasksInv, Resting
<1>6. LocksInv'
  <2>1. writer \in Packers \cup {None} /\ pc'[f] \notin Locking
    BY <1>1 DEF Inv, ManagerInv, Locking
  <2>2. CASE writer = f
    BY <2>1, <2>2, <1>1, <1>2 DEF Inv, LocksInv
  <2>3. CASE writer # f
    <3>1. writer # None => pc'[writer] = pc[writer]
      BY <2>1, <2>3, <1>1
    <3> QED BY <2>1, <2>3, <3>1, <1>1 DEF Inv, LocksInv
  <2> QED BY <2>2, <2>3
<1> QED BY <1>1, <1>3, <1>4, <1>5, <1>6

LEMMA ReadFailsKeeps ==
  ASSUME Inv, NEW f \in Files, ReadFails(f) PROVE Inv'
<1>1. /\ pc[f] = "check" /\ pc' = [pc EXCEPT ![f] = "failed"] /\ todo' = [todo EXCEPT ![f] = <<>>]
      /\ UNCHANGED <<disk, queue, queued, items, buf, lastNum, writer, batch, children, ended,
                     aborting, content, lost, received>>
  BY DEF ReadFails, manager, elsewhere
<1>2. pc[f] \in Busy /\ writer # f
  BY <1>1, Constants DEF Busy, Inv, LocksInv, Locking
<1>3. /\ PackingInv' /\ TasksInv' /\ LocksInv' /\ Resting' = Resting
      /\ pc'[f] = "failed" /\ \A q \in Packers \ {f} : pc'[q] = pc[q]
  BY <1>1, <1>2, FileEnds
<1>4. DiskInv' /\ ManagerInv'
  BY <1>1, DiskSame, ManagerSame DEF Inv, disk
<1>5. \A q \in Packers : pc'[q] \in {"finalize", "seal", "sealLast"} => pc'[q] = pc[q]
  BY <1>3
<1>6. IndexInv'
  BY <1>1, <1>3, <1>5, IndexSame DEF Inv, disk
<1>7. KnownInv'
  BY <1>1, <1>3, KnownSame DEF Inv, disk
<1>8. EntriesInv'
  BY <1>1, <1>5, EntriesSame DEF Inv, disk
<1> QED BY <1>3, <1>4, <1>6, <1>7, <1>8 DEF Inv

LEMMA WriteFailsKeeps ==
  ASSUME Inv, NEW p \in Packers, WriteFails(p) PROVE Inv'
<1>1. /\ pc[p] \in {"save", "seal"} /\ writer = p /\ p # None
      /\ lost' = lost \cup ToSet(batch) /\ batch' = <<>> /\ buf' = buf /\ writer' = None
      /\ todo' = [todo EXCEPT ![p] = <<>>]
      /\ UNCHANGED <<disk, queue, queued, items, lastNum, children, ended, content, received>>
  BY Constants DEF WriteFails, KeptBuffer, elsewhere, Inv, LocksInv, Locking
<1>2. Len(batch') < MaxBlobs
  BY <1>1, Constants
<1>3. /\ \A q \in Packers \ {p} : pc[q] \notin Locking
      /\ ~Resting
  BY <1>1, OnlyWriter DEF Locking, Resting
<1>4. PICK s \in {"failed", "write"} :
        /\ pc' = [pc EXCEPT ![p] = s]
        /\ p = Walker /\ s = "failed" => todo[p] = <<>>
        /\ p # Walker => s = "failed" /\ aborting' = aborting
        /\ aborting' \in BOOLEAN
  <2>1. CASE p = Walker
    BY <2>1 DEF WriteFails
  <2>2. CASE p # Walker
    BY <2>2 DEF WriteFails, Inv, PackingInv
  <2> QED BY <2>1, <2>2
<1>5. /\ PackingInv' /\ TasksInv' /\ LocksInv' /\ Resting' = Resting
  <2>1. CASE p \in Files
    <3>1. pc[p] \in Busy /\ p # Walker
      BY <2>1, <1>1, Constants DEF Busy
    <3>2. pc' = [pc EXCEPT ![p] = "failed"] /\ aborting' = aborting
      BY <3>1, <1>4
    <3>3. writer = p /\ writer' = None /\ batch' = <<>> /\ queue' = queue
      BY <1>1
    <3>4. todo' = [todo EXCEPT ![p] = <<>>] /\ UNCHANGED <<children, ended, aborting, content>>
      BY <1>1, <3>2
    <3> QED BY <2>1, <3>1, <3>2, <3>3, <3>4, FileEnds
  <2>2. CASE p = Walker /\ s = "write"
    <3>1. Resting' = FALSE /\ PackingInv' /\ TasksInv' /\ LocksInv'
      BY <2>2, <1>1, <1>2, <1>4, WriterMoves DEF Locking
    <3> QED BY <3>1, <1>3 DEF Resting
  <2>3. CASE p = Walker /\ s = "failed"
    <3>1. s \in WalkerStates \ Busy /\ s \notin {"idle", "join", "dir", "dirdone"}
      BY <2>3 DEF WalkerStates, Busy
    <3>2. pc[Walker] \notin {"idle", "join"}
      BY <2>3, <1>1
    <3>3. pc' = [pc EXCEPT ![Walker] = s] /\ writer = Walker /\ writer' = None /\ batch' = <<>>
      BY <2>3, <1>1, <1>4
    <3>4. todo' = [todo EXCEPT ![Walker] = <<>>] /\ UNCHANGED <<children, ended, content>>
          /\ aborting' \in BOOLEAN
      BY <2>3, <1>1, <1>4
    <3> QED BY <3>1, <3>2, <3>3, <3>4, WalkerMoves
  <2> QED BY <2>1, <2>2, <2>3, <1>4, Constants
<1>6. DiskInv'
  BY <1>1, DiskSame DEF Inv, disk
<1>7. ManagerInv'
  BY <1>1, <1>2, EmptyIsBlobSeq, Constants DEF Inv, ManagerInv, IsEntry, disk
<1>8. \A q \in Packers : pc'[q] \in {"finalize", "seal", "sealLast"} => pc'[q] = pc[q]
  BY <1>4 DEF Inv, PackingInv
<1>9. IndexInv'
  BY <1>1, <1>3, <1>5, <1>8, IndexSame DEF Inv, disk
<1>10. Known' = Known /\ Names(Kept)' = Names(Kept) /\ Entries(DOMAIN index)' = Entries(DOMAIN index)
  BY <1>1 DEF Known, Names, Kept, Entries, disk
<1>11. ToSet(batch') = {} /\ DOMAIN batch' = {}
  BY <1>1 DEF ToSet
<1>12. KnownInv'
  BY <1>1, <1>3, <1>10, <1>11 DEF Inv, KnownInv
<1>13. EntriesInv'
  <2>1. \A q \in Packers : pc'[q] \notin {"finalize", "seal"}
    BY <1>3, <1>4 DEF Inv, PackingInv, Locking
  <2> QED BY <2>1, <1>1, <1>10 DEF Inv, EntriesInv, disk
<1> QED BY <1>5, <1>6, <1>7, <1>9, <1>12, <1>13 DEF Inv

-----------------------------------------------------------------------------
(* The walker and its tasks.                                               *)

\* The directory the walker is at.
LEMMA CurrentIsThere ==
  ASSUME Inv, ended < Len(ProcessingQueue)
  PROVE  Current \in Dirs /\ (Current # Root => ended + 1 < Len(ProcessingQueue))
<1>1. ended \in Nat
  BY DEF Inv, PackingInv
<1>2. ended + 1 \in 1..Len(ProcessingQueue)
  BY <1>1, QueueTypes
<1>3. Current \in Dirs
  BY <1>2, QueueTypes DEF Current
<1>4. ended + 1 = Len(ProcessingQueue) => Current = Root
  BY QueueTypes DEF Current
<1> QED BY <1>1, <1>3, <1>4, QueueTypes

\* A step that leaves the manager alone, and at which no task is in it.
LEMMA NobodyWritesNext ==
  ASSUME Inv, writer = None, UNCHANGED <<disk, manager, lost, received>>, Resting' = Resting,
         \A q \in Packers : pc'[q] \notin Locking \cup {"sealLast"}
  PROVE  DiskInv' /\ ManagerInv' /\ LocksInv' /\ IndexInv' /\ KnownInv' /\ EntriesInv'
<1>1. UNCHANGED <<queue, queued, items, buf, lastNum, writer, batch>>
  BY DEF manager
<1>2. DiskInv' /\ ManagerInv'
  BY <1>1, DiskSame, ManagerSame DEF Inv, disk
<1>3. LocksInv'
  BY <1>1 DEF Inv, LocksInv
<1>4. IndexInv'
  BY <1>1, IndexSame DEF Inv, disk, Locking
<1>5. KnownInv'
  BY <1>1, KnownSame DEF Inv, disk
<1>6. EntriesInv'
  BY <1>1, EntriesSame DEF Inv, disk, Locking
<1> QED BY <1>2, <1>3, <1>4, <1>5, <1>6

LEMMA DirectoryDoneKeeps == ASSUME Inv, DirectoryDone PROVE Inv'
<1>1. PICK s \in {"write", "dir"} :
        pc' = [pc EXCEPT ![Walker] = s] /\ (s = "dir" => Current # Root)
  BY DEF DirectoryDone
<1>2. /\ pc[Walker] = "dirdone" /\ ended' = ended + 1
      /\ UNCHANGED <<disk, manager, todo, children, aborting, content, lost, received>>
  BY DEF DirectoryDone, elsewhere
<1>3. (\A f \in Files : pc[f] \notin Busy) /\ writer = None
  BY <1>2, WalkerAlone, NobodyWrites DEF Locking
<1>4. DOMAIN pc' = Packers /\ pc'[Walker] = s /\ \A f \in Files : pc'[f] = pc[f]
  BY <1>1, Constants DEF Inv, PackingInv
<1>5. Resting' = Resting
  BY <1>2, <1>4 DEF Resting
<1>6. \A q \in Packers : pc'[q] \notin Locking \cup {"sealLast"}
  BY <1>3, <1>4, Constants DEF Busy, Locking, Inv, TasksInv, FileStates
<1>7. ended < Len(ProcessingQueue) /\ todo[Walker] = <<>>
  BY <1>2 DEF Inv, TasksInv
<1>8. s = "dir" => ended' < Len(ProcessingQueue)
  BY <1>1, <1>2, <1>7, CurrentIsThere
<1>9. PackingInv'
  BY <1>2, <1>4 DEF Inv, PackingInv
<1>10. TasksInv'
  BY <1>2, <1>3, <1>4, <1>5, <1>7, <1>8 DEF Inv, TasksInv, WalkerStates, Busy, Resting
<1> QED BY <1>2, <1>3, <1>5, <1>6, <1>9, <1>10, NobodyWritesNext DEF Inv

LEMMA SpawnTasksKeeps == ASSUME Inv, SpawnTasks PROVE Inv'
<1> DEFINE files == ToSet(FilesOf[Current])
<1>1. /\ pc[Walker] = "dir"
      /\ pc' = [p \in Packers |-> IF p = Walker THEN "join" ELSE IF p \in files THEN "check" ELSE pc[p]]
      /\ todo' = [p \in Packers |-> IF p \in files THEN FileBlobs(p) ELSE todo[p]]
      /\ UNCHANGED <<disk, manager, children, ended, aborting, content, lost, received>>
  BY DEF SpawnTasks, elsewhere
<1>2. (\A f \in Files : pc[f] \notin Busy) /\ writer = None
  BY <1>1, WalkerAlone, NobodyWrites DEF Locking
<1>3. Current \in Dirs /\ ended < Len(ProcessingQueue)
  BY <1>1, CurrentIsThere DEF Inv, TasksInv
<1>4. files \subseteq Files /\ Current' = Current
  BY <1>1, <1>3 DEF Files, Current
<1>5. \A f \in files : IsBlobSeq(FileBlobs(f)) /\ FileBlobs(f) # <<>>
  BY <1>4, FileBlobsTypes DEF Inv, PackingInv
<1> HIDE DEF files
<1>6. /\ DOMAIN pc' = Packers /\ DOMAIN todo' = Packers /\ pc'[Walker] = "join"
      /\ \A f \in files : pc'[f] = "check" /\ todo'[f] = FileBlobs(f)
      /\ \A q \in Packers \ (files \cup {Walker}) : pc'[q] = pc[q]
      /\ \A q \in Packers \ files : todo'[q] = todo[q]
  BY <1>1, <1>4, Constants
<1>7. Resting' = Resting
  BY <1>1, <1>6 DEF Resting
<1>8. \A q \in Packers : pc'[q] \notin Locking \cup {"sealLast"}
  BY <1>2, <1>6, Constants DEF Busy, Locking, Inv, TasksInv, FileStates
<1>9. PackingInv'
  <2>1. \A q \in Packers : IsBlobSeq(todo'[q])
    BY <1>5, <1>6 DEF Inv, PackingInv
  <2> QED BY <2>1, <1>1, <1>6 DEF Inv, PackingInv
<1>10. TasksInv'
  <2>1. ASSUME NEW f \in Files
        PROVE  /\ pc'[f] \in FileStates
               /\ pc'[f] \in Busy => /\ pc'[Walker] = "join"
                                     /\ f \in ToSet(FilesOf[Current])'
                                     /\ todo'[f] # <<>>
    <3>1. CASE f \in files
      BY <3>1, <1>4, <1>5, <1>6 DEF FileStates, Busy, files
    <3>2. CASE f \notin files
      <4>1. pc'[f] = pc[f]
        BY <3>2, <2>1, <1>6, Constants
      <4> QED BY <4>1, <2>1, <1>2 DEF Inv, TasksInv
    <3> QED BY <3>1, <3>2
  <2>2. ended' = ended /\ "join" \in WalkerStates /\ "join" \notin Busy
    BY <1>1 DEF WalkerStates, Busy
  <2> QED BY <1>1, <1>3, <1>6, <1>7, <2>1, <2>2 DEF Inv, TasksInv, Resting
<1> QED BY <1>1, <1>2, <1>7, <1>8, <1>9, <1>10, NobodyWritesNext DEF Inv

LEMMA JoinTasksKeeps == ASSUME Inv, JoinTasks PROVE Inv'
<1> DEFINE tree == SplitTree("dir", Current, Joined)
<1>1. /\ pc[Walker] = "join" /\ pc' = [pc EXCEPT ![Walker] = "check"]
      /\ \A f \in ToSet(FilesOf[Current]) : pc[f] \in {"done", "failed"}
      /\ todo' = [todo EXCEPT ![Walker] = tree]
      /\ \/ children' = [children EXCEPT ![Root] = <<tree[1]>>]
         \/ children' = [children EXCEPT ![Parent(Current)] = Append(@, tree[1])]
      /\ UNCHANGED <<disk, manager, ended, aborting, content, lost, received>>
  BY DEF JoinTasks, elsewhere
<1>2. \A f \in Files : pc[f] \notin Busy
  <2>1. \A f \in Files : pc[f] \in Busy => f \in ToSet(FilesOf[Current])
    BY DEF Inv, TasksInv
  <2> QED BY <2>1, <1>1 DEF Busy
<1>3. writer = None
  BY <1>1, <1>2, NobodyWrites DEF Locking
<1>4. Current \in Dirs /\ ended < Len(ProcessingQueue)
  BY <1>1, CurrentIsThere DEF Inv, TasksInv
<1>5. IsBlobSeq(tree) /\ tree # <<>>
  <2>1. IsSeq(Joined)
    BY <1>4, JoinedTypes DEF Inv, PackingInv
  <2> QED BY <2>1, SplitTreeTypes
<1> HIDE DEF tree
<1>6. /\ DOMAIN pc' = Packers /\ DOMAIN todo' = Packers /\ pc'[Walker] = "check"
      /\ todo'[Walker] = tree
      /\ \A f \in Files : pc'[f] = pc[f] /\ todo'[f] = todo[f]
  BY <1>1, Constants DEF Inv, PackingInv
<1>7. Resting' = Resting
  BY <1>1, <1>6 DEF Resting
<1>8. \A q \in Packers : pc'[q] \notin Locking \cup {"sealLast"}
  BY <1>2, <1>6, Constants DEF Busy, Locking, Inv, TasksInv, FileStates
<1>9. PackingInv'
  <2>1. \A q \in Packers : IsBlobSeq(todo'[q])
    BY <1>5, <1>6, Constants DEF Inv, PackingInv
  <2>2. DOMAIN children' = Dirs /\ \A d \in Dirs : IsSeq(children'[d])
    <3>1. DOMAIN children = Dirs /\ \A d \in Dirs : IsSeq(children[d])
      BY DEF Inv, PackingInv
    <3>2. IsSeq(<<tree[1]>>)
      <4>1. <<tree[1]>> \in Seq({tree[1]})
        OBVIOUS
      <4> QED BY <4>1, SeqOwn
    <3>3. \A d \in Dirs : IsSeq(Append(children[d], tree[1]))
      BY <3>1, AppendSeq
    <3>4. DOMAIN children' = Dirs
      BY <1>1, <3>1
    <3>5. \A d \in Dirs : children'[d] \in {children[d], <<tree[1]>>, Append(children[d], tree[1])}
      BY <1>1, <3>1
    <3> QED BY <3>1, <3>2, <3>3, <3>4, <3>5
  <2> QED BY <2>1, <2>2, <1>1, <1>6 DEF Inv, PackingInv
<1>10. TasksInv'
  <2>1. ended' = ended /\ "check" \in WalkerStates /\ "check" \in Busy
    BY <1>1 DEF WalkerStates, Busy
  <2>2. \A f \in Files : pc'[f] \in FileStates /\ pc'[f] \notin Busy
    BY <1>2, <1>6 DEF Inv, TasksInv
  <2> QED BY <1>4, <1>5, <1>6, <2>1, <2>2 DEF TasksInv, Resting
<1> QED BY <1>1, <1>3, <1>7, <1>8, <1>9, <1>10, NobodyWritesNext DEF Inv

-----------------------------------------------------------------------------
(* Sending the index, and where a backup begins and ends.                  *)

\* Nothing changes that the invariant is about.
LEMMA UnchangedKeeps == Inv /\ UNCHANGED <<disk, manager, packing, received>> => Inv'
<1> SUFFICES ASSUME Inv, UNCHANGED <<disk, manager, packing, received>> PROVE Inv'
  OBVIOUS
<1>1. UNCHANGED <<packfiles, index, highest, queue, queued, items, buf, lastNum, writer, batch,
                 pc, todo, children, ended, aborting, content, lost, received>>
  BY DEF disk, manager, packing
<1>2. Resting' = Resting /\ Current' = Current
  BY <1>1 DEF Resting, Current
<1>3. DiskInv' /\ ManagerInv' /\ IndexInv' /\ KnownInv' /\ EntriesInv'
  BY <1>1, <1>2, DiskSame, ManagerSame, IndexSame, KnownSame, EntriesSame DEF Inv
<1>4. PackingInv' /\ LocksInv'
  BY <1>1 DEF Inv, PackingInv, LocksInv
<1>5. TasksInv'
  BY <1>1, <1>2 DEF Inv, TasksInv, Resting
<1> QED BY <1>3, <1>4, <1>5 DEF Inv

\* A peer stores an index file, or the number of the last one sent is saved.
LEMMA SendKeeps ==
  ASSUME Inv, NEW k \in DOMAIN index, NEW q \in Peers, highest' \in {highest, k},
         received' = received \/ received' = [received EXCEPT ![q] = @ \cup {k}],
         UNCHANGED <<packfiles, index, manager, packing>>
  PROVE  Inv'
<1>1. UNCHANGED <<packfiles, index, queue, queued, items, buf, lastNum, writer, batch,
                 pc, todo, children, ended, aborting, content, lost>>
  BY DEF manager, packing
<1>2. Resting' = Resting /\ Current' = Current
  BY <1>1 DEF Resting, Current
<1>3. IndexInv' /\ KnownInv' /\ EntriesInv'
  BY <1>1, <1>2, IndexSame, KnownSame, EntriesSame DEF Inv
<1>4. PackingInv' /\ LocksInv'
  BY <1>1 DEF Inv, PackingInv, LocksInv
<1>5. TasksInv'
  BY <1>1, <1>2 DEF Inv, TasksInv, Resting
<1>6. received' \in [Peers -> SUBSET DOMAIN index]
  <2>1. received \in [Peers -> SUBSET DOMAIN index]
    BY DEF Inv, DiskInv
  <2> QED BY <2>1
<1>7. DiskInv'
  BY <1>1, <1>6 DEF Inv, DiskInv, IsEntry
<1>8. k \in Nat
  BY DEF Inv, DiskInv, IsSeq
<1>9. ManagerInv'
  BY <1>1, <1>8 DEF Inv, ManagerInv, IsEntry
<1> QED BY <1>3, <1>4, <1>5, <1>7, <1>9 DEF Inv

\* A backup begins with what the index files have.
LEMMA StartKeeps == ASSUME Inv, Start PROVE Inv'
<1>1. /\ Idle /\ \A i \in DOMAIN index : index[i].whole
      /\ items' = Entries(DOMAIN index) /\ lastNum' = Len(index) /\ content' \in Contents
      /\ pc' = [pc EXCEPT ![Walker] = "dir"]
      /\ UNCHANGED <<packfiles, index, highest, queue, queued, buf, writer, batch, todo, children,
                     ended, aborting, lost, received>>
  BY DEF Start, Entries, LastFileNum, disk, elsewhere
<1>2. Resting /\ \A p \in Packers : pc[p] = "idle"
  BY <1>1, Constants DEF Idle, Resting
<1>3. lastNum = 0 /\ buf = {} /\ items = {} /\ queued = {} /\ ended = 0
  BY <1>2 DEF Inv, IndexInv, TasksInv
<1>4. writer = None /\ batch = <<>>
  BY <1>2, NobodyWrites, Constants DEF Busy, Locking
<1>5. DOMAIN pc' = Packers /\ pc'[Walker] = "dir" /\ \A f \in Files : pc'[f] = "idle"
  BY <1>1, <1>2, Constants DEF Inv, PackingInv
<1>6. Resting' = FALSE
  BY <1>5 DEF Resting
<1>7. Len(index) \in Nat /\ DOMAIN index = 1..Len(index)
  BY DEF Inv, DiskInv, IsSeq
<1>8. DiskInv'
  BY <1>1, DiskSame DEF Inv
<1>9. ManagerInv'
  <2>1. \A e \in Entries(DOMAIN index) : IsEntry(e)
    BY DEF Inv, DiskInv, Entries
  <2> QED BY <1>1, <1>3, <1>7, <2>1 DEF Inv, ManagerInv, IsEntry
<1>10. PackingInv'
  BY <1>1, <1>5 DEF Inv, PackingInv
<1>11. TasksInv'
  <2>1. ended' = 0 /\ ended' < Len(ProcessingQueue)
    BY <1>1, <1>3, QueueTypes
  <2> QED BY <1>5, <1>6, <2>1 DEF TasksInv, WalkerStates, FileStates, Busy
<1>12. LocksInv'
  BY <1>1, <1>4, <1>5, Constants DEF LocksInv, Locking
<1>13. IndexInv'
  <2>1. Len(index') = lastNum' /\ lastNum' # lastNum' + 1
    BY <1>1, <1>7
  <2>2. \A p \in Packers : pc'[p] \notin {"seal", "sealLast"}
    BY <1>5, Constants
  <2> QED BY <1>6, <2>1, <2>2 DEF IndexInv
<1>14. Entries(DOMAIN index)' = items' /\ Kept' = items' /\ Known' = Names(items)' /\ buf' = {}
  BY <1>1, <1>3, <1>7 DEF Kept, Known, Entries
<1>15. ToSet(batch') = {} /\ DOMAIN batch' = {}
  BY <1>1, <1>4 DEF ToSet
<1>16. Entries(DOMAIN index)' \cup buf' \subseteq Entries(DOMAIN index) \cup buf
  BY <1>1, <1>14
<1>17. KnownInv'
  <2>1. Known' = Names(Kept)'
    BY <1>14 DEF Names
  <2>2. \A e1, e2 \in Entries(DOMAIN index)' \cup buf' : e1[1] = e2[1] => e1 = e2
    BY <1>16 DEF Inv, KnownInv
  <2> QED BY <1>15, <2>1, <2>2 DEF KnownInv
<1>18. EntriesInv'
  <2>1. \A p \in Packers : pc'[p] \notin {"finalize", "seal"}
    BY <1>5, Constants
  <2>2. \A e \in Entries(DOMAIN index)' \cup items' \cup buf' : e[1] \in packfiles'[e[2]].blobs
    BY <1>1, <1>14 DEF Inv, EntriesInv
  <2> QED BY <2>1, <2>2 DEF EntriesInv
<1> QED BY <1>8, <1>9, <1>10, <1>11, <1>12, <1>13, <1>17, <1>18 DEF Inv

\* Between backups.
AtRest ==
  /\ queue = <<>> /\ queued = {} /\ items = {} /\ buf = {} /\ lastNum = 0
  /\ writer = None /\ batch = <<>>
  /\ pc = [p \in Packers |-> "idle"] /\ todo = [p \in Packers |-> <<>>]
  /\ children = [d \in Dirs |-> <<>>] /\ ended = 0 /\ aborting = FALSE
  /\ DiskInv /\ highest \in Nat /\ content \in Contents
  /\ \A e1, e2 \in Entries(DOMAIN index) : e1[1] = e2[1] => e1 = e2
  /\ \A e \in Entries(DOMAIN index) : e[1] \in packfiles[e[2]].blobs

LEMMA AtRestInv == AtRest => Inv
<1> SUFFICES ASSUME AtRest PROVE Inv
  OBVIOUS
<1> USE DEF AtRest
<1>1. pc[Walker] = "idle" /\ Resting
  BY Constants DEF Resting
<1>2. IsBlobSeq(<<>>) /\ IsSeq(<<>>)
  BY EmptyIsBlobSeq DEF IsBlobSeq
<1>3. ManagerInv
  BY <1>2, Constants DEF ManagerInv
<1>4. PackingInv
  BY <1>2 DEF PackingInv
<1>5. TasksInv
  BY <1>1, Constants DEF TasksInv, WalkerStates, FileStates, Busy
<1>6. LocksInv
  BY DEF LocksInv, Locking
<1>7. IndexInv
  BY <1>1 DEF IndexInv
<1>8. KnownInv
  BY <1>1 DEF KnownInv
<1>9. EntriesInv
  BY DEF EntriesInv
<1> QED BY <1>3, <1>4, <1>5, <1>6, <1>7, <1>8, <1>9 DEF Inv

LEMMA AtRestInvNext == AtRest' => Inv'
BY AtRestInv, PTL

LEMMA ResetKeeps ==
  ASSUME Inv, Reset, UNCHANGED <<disk, content, received>> PROVE Inv'
<1>1. DiskInv' /\ highest' \in Nat /\ content' \in Contents
  BY DiskSame DEF Inv, disk, ManagerInv, PackingInv
<1>2. /\ \A e1, e2 \in Entries(DOMAIN index)' : e1[1] = e2[1] => e1 = e2
      /\ \A e \in Entries(DOMAIN index)' : e[1] \in packfiles'[e[2]].blobs
  BY DEF Inv, KnownInv, EntriesInv, Entries, disk
<1>3. AtRest'
  BY <1>1, <1>2 DEF Reset, AtRest
<1> QED BY <1>3, AtRestInvNext

LEMMA InitInv == Init => Inv
<1> SUFFICES ASSUME Init PROVE Inv
  OBVIOUS
<1>1. IsSeq(<<>>) /\ DOMAIN <<>> = {}
  BY EmptyIsBlobSeq DEF IsBlobSeq
<1>2. DiskInv
  BY <1>1 DEF Init, DiskInv
<1>3. Entries(DOMAIN index) = {}
  BY <1>1 DEF Init, Entries
<1> QED BY <1>2, <1>3, AtRestInv DEF Init, AtRest

-----------------------------------------------------------------------------
(* Theorems.                                                               *)

LEMMA NextKeeps == Inv /\ [Next]_vars => Inv'
<1> SUFFICES ASSUME Inv, [Next]_vars PROVE Inv'
  OBVIOUS
<1>1. CASE Start
  BY <1>1, StartKeeps
<1>2. CASE Crash
  BY <1>2, ResetKeeps DEF Crash
<1>3. CASE Errors
  <2>1. ASSUME NEW p \in Packers, WriteFails(p) PROVE Inv'
    BY <2>1, WriteFailsKeeps
  <2>2. ASSUME NEW f \in Files, ReadFails(f) PROVE Inv'
    BY <2>2, ReadFailsKeeps
  <2>3. ASSUME NEW k \in DOMAIN index, NEW q \in Peers, SendIndexFails(k, q) PROVE Inv'
    BY <2>3, SendKeeps DEF SendIndexFails, disk
  <2>4. CASE FlushFails
    BY <2>4, FlushFailsKeeps
  <2>5. CASE StartFails
    BY <2>5, UnchangedKeeps DEF StartFails, elsewhere
  <2> QED BY <1>3, <2>1, <2>2, <2>3, <2>4, <2>5 DEF Errors
<1>4. CASE WalkerStep
  <2>1. CASE EndBackup
    BY <2>1, ResetKeeps DEF EndBackup
  <2> QED BY <1>4, <2>1, SpawnTasksKeeps, JoinTasksKeeps, DirectoryDoneKeeps, FlushIndexKeeps,
             PackedKeeps, BackupDoneKeeps DEF WalkerStep
<1>5. CASE SenderStep
  <2>1. ASSUME NEW k \in DOMAIN index, SkipIndexFile(k) PROVE Inv'
    BY <2>1, UnchangedKeeps DEF SkipIndexFile
  <2>2. ASSUME NEW k \in DOMAIN index, NEW q \in Peers, SendIndexFile(k, q) PROVE Inv'
    BY <2>2, SendKeeps DEF SendIndexFile
  <2> QED BY <1>5, <2>1, <2>2 DEF SenderStep
<1>6. ASSUME NEW p \in Packers, PackerStep(p) PROVE Inv'
  BY <1>6, CheckDuplicateKeeps, QueueBlobKeeps, TriggerWriteKeeps, TakeBlobKeeps, WriteDoneKeeps,
     SavePackfileKeeps, PushEntryKeeps, PackfileDoneKeeps, SealIndexFileKeeps DEF PackerStep
<1>7. CASE UNCHANGED vars
  BY <1>7, UnchangedKeeps DEF vars, elsewhere
<1> QED BY <1>1, <1>2, <1>3, <1>4, <1>5, <1>6, <1>7 DEF Next

\* The invariant holds of every state.
THEOREM StoreInvariant == Spec => []Inv
BY InitInv, NextKeeps, PTL DEF Spec

\* The variables have the values they should have, and entries name packfiles
\* there are.
THEOREM StoreTypes == Spec => []TypeOK
<1>1. Inv => TypeOK
  <2> SUFFICES ASSUME Inv PROVE TypeOK
    OBVIOUS
  <2>1. {highest, lastNum, ended} \subseteq Nat
    BY DEF Inv, ManagerInv, PackingInv
  <2>2. Idle \/ Len(index) \in {lastNum, lastNum + 1}
    BY DEF Inv, TasksInv, IndexInv, Idle, Resting
  <2>3. \A f \in Files : pc[f] \in {"idle", "check", "queue", "trigger", "write", "save",
                                    "finalize", "seal", "done", "failed"}
    BY DEF Inv, TasksInv, FileStates, Busy
  <2>4. \A i \in DOMAIN packfiles : /\ \A b \in packfiles[i].blobs : IsBlob(b)
                                    /\ packfiles[i].whole \in BOOLEAN
    BY DEF Inv, DiskInv
  <2>5. \A k \in DOMAIN index : \A e \in index[k].entries : IsEntry(e)
    BY DEF Inv, DiskInv
  <2>6. \A q \in Peers : received[q] \subseteq DOMAIN index
    BY DEF Inv, DiskInv
  <2>7. /\ \A e \in items \cup buf : IsEntry(e)
        /\ writer \in Packers \cup {None} /\ Len(batch) <= MaxBlobs
    BY DEF Inv, ManagerInv
  <2>8. content \in Contents /\ aborting \in BOOLEAN
    BY DEF Inv, PackingInv
  <2> QED BY <2>1, <2>2, <2>3, <2>4, <2>5, <2>6, <2>7, <2>8 DEF TypeOK
<1> QED BY <1>1, StoreInvariant, PTL

\* What deduplication takes for known has an entry, or is about to get one, or was
\* in the hands of a write that failed.
THEOREM NothingIsForgotten == Spec => []KnownIsKept
<1>1. Inv => KnownIsKept
  <2> SUFFICES ASSUME Inv, ~Idle
               PROVE  Known \subseteq Names(Kept) \cup ToSet(batch) \cup lost
    BY DEF KnownIsKept, Known, Kept, Names
  <2>1. ~Resting
    BY DEF Inv, TasksInv, Idle
  <2> QED BY <2>1 DEF Inv, KnownInv
<1> QED BY <1>1, StoreInvariant, PTL

\* The index has one entry for a blob.
THEOREM BlobsHaveOneEntry == Spec => []IndexUnambiguous
<1>1. Inv => IndexUnambiguous
  <2> SUFFICES ASSUME Inv, NEW e1 \in Kept, NEW e2 \in Kept, e1[1] = e2[1] PROVE e1 = e2
    BY DEF IndexUnambiguous, Kept
  <2>1. ~Resting
    BY DEF Inv, IndexInv, Kept, Entries
  <2> QED BY <2>1, AllKept DEF Inv, KnownInv
<1> QED BY <1>1, StoreInvariant, PTL

\* The complete index files stay when a new one is begun ...
LEMMA CompleteStaysAtCreate ==
  ASSUME Inv, ~Resting, NEW E, CreateIndexFile(E), NEW k \in DOMAIN index, index[k].whole
  PROVE  k \in DOMAIN index' /\ index'[k] = index[k]
<1> DEFINE new == [entries |-> E, whole |-> FALSE]
<1>1. /\ lastNum \in Nat /\ lastNum <= Len(index) /\ IsSeq(index)
      /\ DOMAIN index = 1..Len(index) /\ Len(index) \in {lastNum, lastNum + 1}
  BY AllKept DEF Inv, DiskInv
<1>2. index' = SubSeq(index, 1, lastNum) \o <<new>>
  BY DEF CreateIndexFile
<1> HIDE DEF new
<1>3. IsCut(index, lastNum, new, index')
  BY <1>1, <1>2, CutSeq
<1>4. k \in 1..lastNum /\ k \in 1..(lastNum + 1)
  <2>1. Len(index) = lastNum + 1 => k # Len(index)
    BY DEF Inv, IndexInv
  <2>2. Len(index) \in Nat /\ k \in 1..Len(index) /\ (Len(index) = lastNum \/ Len(index) = lastNum + 1)
    BY <1>1, AllKept
  <2>3. \A m, n \in Nat : \A j \in 1..n :
          (n = m \/ n = m + 1) /\ (n = m + 1 => j # n) => j \in 1..m /\ j \in 1..(m + 1)
    OBVIOUS
  <2> HIDE DEF new
  <2> QED BY <1>1, <2>1, <2>2, <2>3, Zenon
<1> QED BY <1>3, <1>4 DEF IsCut

\* ... and when it is written.
LEMMA CompleteStaysAtSeal ==
  ASSUME Inv, NEW p \in Packers, SealIndexFile(p), NEW k \in DOMAIN index, index[k].whole
  PROVE  k \in DOMAIN index' /\ index'[k] = index[k]
<1>1. PICK whole \in BOOLEAN : index' = [index EXCEPT ![Len(index)].whole = whole]
  BY DEF SealIndexFile, Landed
<1>2. ~Resting
  BY DEF Inv, TasksInv, SealIndexFile
<1>3. Len(index) = lastNum + 1
  BY DEF Inv, IndexInv, SealIndexFile
<1>4. ~index[Len(index)].whole
  BY <1>2, <1>3 DEF Inv, IndexInv
<1>5. k # Len(index)
  BY <1>4
<1> QED BY <1>1, <1>5

\* No step changes an index file that is complete, whatever has become of the
\* backup that wrote it.
THEOREM CompleteIndexStays == Spec => CompleteIndexKept
<1> DEFINE Stays == \A k \in DOMAIN index :
                      index[k].whole => k \in DOMAIN index' /\ index'[k] = index[k]
<1>1. Inv /\ [Next]_vars => [Stays]_vars
  <2> SUFFICES ASSUME Inv, Next, NEW k \in DOMAIN index, index[k].whole
               PROVE  k \in DOMAIN index' /\ index'[k] = index[k]
    OBVIOUS
  <2>1. CASE index' = index
    BY <2>1
  <2>2. ASSUME NEW p \in Packers, PushEntry(p) PROVE k \in DOMAIN index' /\ index'[k] = index[k]
    <3>1. ~Resting
      BY <2>2 DEF PushEntry, Inv, TasksInv
    <3>2. CreateIndexFile(buf') \/ index' = index
      BY <2>2 DEF PushEntry
    <3> QED BY <3>1, <3>2, <2>1, CompleteStaysAtCreate
  <2>3. ASSUME NEW p \in Packers, SealIndexFile(p) PROVE k \in DOMAIN index' /\ index'[k] = index[k]
    BY <2>3, CompleteStaysAtSeal
  <2>4. CASE FlushIndex
    <3>1. ~Resting
      BY <2>4 DEF FlushIndex, Resting
    <3> QED BY <2>4, <3>1, CompleteStaysAtCreate DEF FlushIndex
  <2>5. \/ index' = index \/ FlushIndex
        \/ \E p \in Packers : PushEntry(p) \/ SealIndexFile(p)
    <3>1. CASE Start \/ Crash \/ Errors
      BY <3>1 DEF Start, Crash, Errors, WriteFails, ReadFails, SendIndexFails, FlushFails, StartFails, disk
    <3>2. CASE WalkerStep
      BY <3>2 DEF WalkerStep, SpawnTasks, JoinTasks, DirectoryDone, Packed, BackupDone, EndBackup, disk
    <3>3. CASE SenderStep
      BY <3>3 DEF SenderStep, SkipIndexFile, SendIndexFile, disk
    <3>4. ASSUME NEW p \in Packers, PackerStep(p)
          PROVE  index' = index \/ PushEntry(p) \/ SealIndexFile(p)
      BY <3>4 DEF PackerStep, CheckDuplicate, QueueBlob, TriggerWrite, TakeBlob, WriteDone,
                  SavePackfile, PackfileDone, disk
    <3> QED BY <3>1, <3>2, <3>3, <3>4 DEF Next
  <2> QED BY <2>1, <2>2, <2>3, <2>4, <2>5
<1> QED BY <1>1, StoreInvariant, PTL DEF Spec, CompleteIndexKept

=============================================================================
