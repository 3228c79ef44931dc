------------------------- MODULE PackfileTrees_proofs -------------------------
(***************************************************************************)
(* Lemmas about the trees of PackfileStore, for any directories, contents  *)
(* and limits: how they are made, what the functions that follow them      *)
(* compute, and in which order the walker comes to the directories.        *)
(*                                                                         *)
(* A blob names others, so what follows them is defined by recursion, and  *)
(* whether such a function exists depends on that no chain of names goes   *)
(* on for ever.  Sound(b) says that none does that begins at b: some set   *)
(* of blobs has b and all they name (Closed), and a number for each that   *)
(* falls along names (Descent).  Rank is the least such number of a blob.  *)
(* With it come induction (BlobInduction) and recursion (BlobRecursion)    *)
(* over sound blobs, and the equations of FullTree, Unpacks, Restored and  *)
(* Complete.  What is read depends only on what is below a blob            *)
(* (Agreement), so KidsOf and FilesUnder can speak of it without a set to  *)
(* read from.                                                              *)
(*                                                                         *)
(* SplitTree gives its children back, in order, when it is read            *)
(* (SplitTreeIsRight): hence a file's blobs are the file (FilesAreRight)   *)
(* and a directory's tree has what its children have (DirectoryTree).      *)
(* The walker comes to every directory once, and before the one it is in   *)
(* (QueueOrder).                                                           *)
(***************************************************************************)
EXTENDS PackfileStore_proofs, SequenceTheorems

\* A set of blobs that has what they name.
Closed(C) == \A b \in C : Below(b) \subseteq C

-----------------------------------------------------------------------------
(* Trees.                                                                  *)

\* after names, of each blob of a split tree, the one after it.
Siblings(kind, name, part, n, after) ==
  after = [i \in 1..n |-> IF i = n THEN <<>> ELSE <<Blob(kind, name, part[i + 1], after[i + 1])>>]

\* The siblings exist, from the last one down.
LEMMA SiblingsExist ==
  ASSUME NEW kind, NEW name, NEW part, NEW n \in Nat \ {0}
  PROVE  \E g : Siblings(kind, name, part, n, g)
<1> DEFINE Back(m, g) ==
             /\ DOMAIN g = (n - m)..n
             /\ g = [i \in (n - m)..n |-> g[i]]
             /\ \A i \in (n - m)..n :
                  g[i] = IF i = n THEN <<>> ELSE <<Blob(kind, name, part[i + 1], g[i + 1])>>
      T == {m \in Nat : \E g : Back(m, g)}
<1>1. 0 \in T
  <2> DEFINE g == [i \in (n - 0)..n |-> <<>>]
  <2>1. (n - 0)..n = {n}
    OBVIOUS
  <2>2. Back(0, g)
    BY <2>1
  <2> QED BY <2>2
<1>2. ASSUME NEW m \in Nat, m \in T PROVE m + 1 \in T
  <2>1. PICK g : Back(m, g)
    BY <1>2
  <2> DEFINE l == n - (m + 1)
        h == [i \in l..n |-> IF i = l THEN <<Blob(kind, name, part[i + 1], g[i + 1])>> ELSE g[i]]
  <2>2. l \in Int /\ l + 1 = n - m /\ l < n
    OBVIOUS
  <2>3. \A i \in l..n : i # l => i \in (n - m)..n
    BY <2>2
  <2>4. \A i \in l..n : i # n => i + 1 \in (n - m)..n /\ i + 1 # l /\ i + 1 \in l..n
    BY <2>2
  <2> HIDE DEF l
  <2>5. \A i \in l..n : i # n => h[i + 1] = g[i + 1]
    BY <2>4
  <2>6. h[l] = <<Blob(kind, name, part[l + 1], g[l + 1])>>
    BY <2>2
  <2>7. \A i \in l..n : i # l => h[i] = g[i]
    OBVIOUS
  <2>8. DOMAIN h = l..n /\ h = [i \in l..n |-> h[i]]
    OBVIOUS
  <2> HIDE DEF h
  <2>9. ASSUME NEW i \in l..n
        PROVE  h[i] = IF i = n THEN <<>> ELSE <<Blob(kind, name, part[i + 1], h[i + 1])>>
    <3>1. CASE i = l
      <4>1. i # n
        BY <3>1, <2>2
      <4> QED BY <4>1, <3>1, <2>5, <2>6
    <3>2. CASE i # l
      <4>1. g[i] = IF i = n THEN <<>> ELSE <<Blob(kind, name, part[i + 1], g[i + 1])>>
        BY <3>2, <2>1, <2>3
      <4> QED BY <4>1, <3>2, <2>5, <2>7
    <3> QED BY <3>1, <3>2
  <2>10. Back(m + 1, h)
    BY <2>8, <2>9 DEF l
  <2> HIDE DEF Back
  <2>11. m + 1 \in Nat
    OBVIOUS
  <2> QED BY <2>10, <2>11
<1>3. Nat \subseteq T
  <2> HIDE DEF T
  <2> QED BY <1>1, <1>2, Induction
<1>4. n - 1 \in T /\ n - (n - 1) = 1
  BY <1>3
<1>5. PICK g : Back(n - 1, g)
  BY <1>4
<1>6. Siblings(kind, name, part, n, g)
  BY <1>4, <1>5 DEF Siblings
<1> QED BY <1>6

\* How many blobs a tree is split into, and the children of each.
Pieces(kids) == IF kids = <<>> THEN 1 ELSE (Len(kids) + MaxChildren - 1) \div MaxChildren
Piece(kids, i) == SubSeq(kids, (i - 1) * MaxChildren + 1,
                         IF i = Pieces(kids) THEN Len(kids) ELSE i * MaxChildren)

LEMMA PieceBounds ==
  ASSUME NEW kids, IsSeq(kids)
  PROVE  /\ Pieces(kids) \in Nat \ {0} /\ Len(kids) \in Nat /\ MaxChildren \in Nat \ {0}
         /\ \A i \in 1..Pieces(kids) :
              /\ (i - 1) * MaxChildren \in Nat /\ i * MaxChildren = (i - 1) * MaxChildren + MaxChildren
              /\ (i - 1) * MaxChildren <= Len(kids)
              /\ i # Pieces(kids) => i * MaxChildren <= Len(kids)
<1>1. Len(kids) \in Nat /\ (kids # <<>> => Len(kids) # 0) /\ MaxChildren \in Nat \ {0}
  BY LimitsAssumption DEF IsSeq
<1>2. Pieces(kids) \in Nat \ {0}
  <2>1. \A x, y \in Nat \ {0} : (x + y - 1) \div y \in Nat \ {0}
    OBVIOUS
  <2> QED BY <1>1, <2>1 DEF Pieces
<1>3. \A L, M, k, j \in Nat : M # 0 /\ k = (L + M - 1) \div M /\ j # 0 /\ j < k => j * M <= L
  <2>1. SUFFICES ASSUME NEW L \in Nat, NEW M \in Nat, NEW k \in Nat, NEW j \in Nat,
                        M # 0, k = (L + M - 1) \div M, j # 0, j < k
                 PROVE  j * M <= L
    OBVIOUS
  <2>2. k * M <= L + M - 1
    BY <2>1
  <2>3. j * M <= (k - 1) * M
    BY <2>1
  <2>4. (k - 1) * M = k * M - M
    BY <2>1
  <2>5. k * M \in Int /\ j * M \in Int
    BY <2>1
  <2> QED BY <2>1, <2>2, <2>3, <2>4, <2>5
<1>4. ASSUME NEW j \in Nat, j < Pieces(kids) PROVE j * MaxChildren <= Len(kids)
  <2>1. CASE j = 0
    <3>1. 0 * MaxChildren = 0
      BY <1>1
    <3> QED BY <1>1, <2>1, <3>1
  <2>2. CASE j # 0
    <3>1. kids # <<>> /\ Pieces(kids) = (Len(kids) + MaxChildren - 1) \div MaxChildren
      BY <1>4, <2>2 DEF Pieces
    <3> HIDE DEF Pieces
    <3> QED BY <1>1, <1>2, <1>3, <1>4, <2>2, <3>1
  <2> QED BY <2>1, <2>2
<1>5. \A M \in Nat, j \in Nat \ {0} : (j - 1) * M \in Nat /\ j * M = (j - 1) * M + M
  <2>1. ASSUME NEW M \in Nat, NEW j \in Nat \ {0} PROVE (j - 1) * M \in Nat /\ j * M = (j - 1) * M + M
    <3>1. j - 1 \in Nat /\ (j - 1) * M = j * M - M /\ j * M \in Nat
      OBVIOUS
    <3>2. (j - 1) * M \in Nat
      BY <3>1
    <3> QED BY <3>1, <3>2
  <2> QED BY <2>1
<1>6. ASSUME NEW i \in 1..Pieces(kids)
      PROVE  /\ (i - 1) * MaxChildren \in Nat /\ i * MaxChildren = (i - 1) * MaxChildren + MaxChildren
             /\ (i - 1) * MaxChildren <= Len(kids)
             /\ i # Pieces(kids) => i * MaxChildren <= Len(kids)
  <2>1. i \in Nat \ {0} /\ i - 1 \in Nat /\ i - 1 < Pieces(kids) /\ (i # Pieces(kids) => i < Pieces(kids))
    BY <1>2, <1>6
  <2> QED BY <1>1, <1>4, <1>5, <2>1
<1> QED BY <1>1, <1>2, <1>6

\* The children of a piece are children of the tree.
LEMMA PieceIsPart ==
  ASSUME NEW kids, IsSeq(kids), NEW i \in 1..Pieces(kids)
  PROVE  IsSeq(Piece(kids, i)) /\ ToSet(Piece(kids, i)) \subseteq ToSet(kids)
<1> DEFINE from == (i - 1) * MaxChildren + 1
      to == IF i = Pieces(kids) THEN Len(kids) ELSE i * MaxChildren
      s == SubSeq(kids, from, to)
<1>1. from \in Nat \ {0} /\ to \in Nat /\ to <= Len(kids)
  BY PieceBounds
<1> HIDE DEF from, to
<1>2. kids \in Seq(ToSet(kids))
  BY DEF IsSeq
<1>3. s \in Seq(ToSet(kids))
  BY <1>1, <1>2
<1>4. IsSeq(s) /\ ToSet(s) \subseteq ToSet(kids)
  BY <1>3, SeqOwn
<1> QED BY <1>4 DEF Piece, from, to

LEMMA ToSetSmall == ToSet(<<>>) = {} /\ \A x : ToSet(<<x>>) = {x}
<1>1. DOMAIN <<>> = {}
  OBVIOUS
<1>2. ASSUME NEW x PROVE DOMAIN <<x>> = {1} /\ <<x>>[1] = x
  <2>1. DOMAIN <<x>> = 1..1
    OBVIOUS
  <2> QED BY <2>1
<1> QED BY <1>1, <1>2 DEF ToSet

\* The blobs of a split tree: each has its piece, and names the next one.
IsSplit(kind, name, kids, s) ==
  /\ DOMAIN s = 1..Pieces(kids)
  /\ \A i \in 1..Pieces(kids) :
       s[i] = Blob(kind, name, Piece(kids, i), IF i = Pieces(kids) THEN <<>> ELSE <<s[i + 1]>>)

LEMMA SplitTreeParts ==
  ASSUME NEW kind, NEW name, NEW kids, IsSeq(kids)
  PROVE  IsSplit(kind, name, kids, SplitTree(kind, name, kids))
<1> DEFINE n == IF kids = <<>> THEN 1 ELSE (Len(kids) + MaxChildren - 1) \div MaxChildren
      part(i) == SubSeq(kids, (i - 1) * MaxChildren + 1,
                        IF i = n THEN Len(kids) ELSE i * MaxChildren)
      after[i \in 1..n] ==
        IF i = n THEN <<>> ELSE <<Blob(kind, name, part(i + 1), after[i + 1])>>
      parts == [i \in 1..n |-> part(i)]
      s == SplitTree(kind, name, kids)
<1>1. n = Pieces(kids) /\ n \in Nat \ {0}
  BY PieceBounds DEF Pieces
<1>2. s = [i \in 1..n |-> Blob(kind, name, part(i), after[i])]
  BY DEF SplitTree
<1>3. \A i : part(i) = Piece(kids, i)
  BY DEF Piece, Pieces
<1>4. \A i \in 1..n : parts[i] = part(i)
  OBVIOUS
<1> HIDE DEF n, part, parts, s
<1>5. PICK g : Siblings(kind, name, parts, n, g)
  BY <1>1, SiblingsExist
<1>6. \A i \in 1..n : i # n => i + 1 \in 1..n
  BY <1>1
<1>7. g = [i \in 1..n |-> IF i = n THEN <<>>
                          ELSE <<Blob(kind, name, part(i + 1), g[i + 1])>>]
  BY <1>4, <1>5, <1>6 DEF Siblings
<1>8. after = [i \in 1..n |-> IF i = n THEN <<>>
                              ELSE <<Blob(kind, name, part(i + 1), after[i + 1])>>]
  BY <1>7, Zenon DEF after
<1> HIDE DEF after
<1>9. \A i \in 1..n : after[i] = IF i = n THEN <<>> ELSE <<s[i + 1]>>
  BY <1>2, <1>6, <1>8
<1>10. DOMAIN s = 1..n /\ \A i \in 1..n : s[i] = Blob(kind, name, part(i), after[i])
  BY <1>2
<1> QED BY <1>1, <1>3, <1>9, <1>10 DEF IsSplit, s

\* The blobs of a split tree name children of it and each other.
LEMMA SplitTreeBelow ==
  ASSUME NEW kind, NEW name, NEW kids, IsSeq(kids), NEW b \in ToSet(SplitTree(kind, name, kids))
  PROVE  Below(b) \subseteq ToSet(kids) \cup ToSet(SplitTree(kind, name, kids))
<1> DEFINE s == SplitTree(kind, name, kids)
      n == Pieces(kids)
<1>1. IsSplit(kind, name, kids, s)
  BY SplitTreeParts
<1> HIDE DEF s
<1>2. PICK i \in 1..n : b = s[i]
  BY <1>1 DEF IsSplit, ToSet, s
<1>3. b.children = Piece(kids, i) /\ b.next = IF i = n THEN <<>> ELSE <<s[i + 1]>>
  BY <1>1, <1>2 DEF IsSplit, Blob
<1>4. ToSet(b.children) \subseteq ToSet(kids)
  BY <1>3, PieceIsPart
<1>5. ToSet(b.next) \subseteq ToSet(s)
  <2>1. CASE i = n
    BY <1>3, <2>1, ToSetSmall
  <2>2. CASE i # n
    <3>1. i + 1 \in DOMAIN s
      BY <1>1, <1>2, <2>2, PieceBounds DEF IsSplit
    <3> QED BY <1>3, <2>2, <3>1, ToSetSmall DEF ToSet
  <2> QED BY <2>1, <2>2
<1> QED BY <1>4, <1>5 DEF Below, s

\* What a file is packed as names nothing else, and its tree is part of it.
FileIsWhole(f) ==
  /\ \A b \in ToSet(FileBlobs(f)) : Below(b) \subseteq ToSet(FileBlobs(f))
  /\ FileTree(f) \in ToSet(FileBlobs(f))

LEMMA FilesAreWhole == content \in Contents => \A f \in Files : FileIsWhole(f)
<1> SUFFICES ASSUME content \in Contents, NEW f \in Files PROVE FileIsWhole(f)
  OBVIOUS
<1> DEFINE X == {Chunk(content[f][i]) : i \in DOMAIN content[f]}
      chunks == [i \in DOMAIN content[f] |-> Chunk(content[f][i])]
      tree == SplitTree("file", f, chunks)
      all == chunks \o tree
<1>1. IsSeq(content[f])
  BY TreeAssumption
<1>2. DOMAIN content[f] = 1..Len(content[f]) /\ Len(content[f]) \in Nat
  BY <1>1 DEF IsSeq
<1>3. chunks \in Seq(X) /\ ToSet(chunks) = X
  <2>1. \A i \in DOMAIN content[f] : Chunk(content[f][i]) \in X
    OBVIOUS
  <2>2. ToSet(chunks) = X
    BY DEF ToSet
  <2> HIDE DEF X
  <2> QED BY <1>2, <2>1, <2>2
<1>4. \A b \in X : b.children = <<>> /\ b.next = <<>>
  BY DEF Blob, Chunk
<1>5. \A b \in X : Below(b) = {}
  BY <1>4, ToSetSmall DEF Below
<1>6. all = FileBlobs(f) /\ FileTree(f) = tree[1]
  BY DEF FileBlobs, FileTree
<1> HIDE DEF X, chunks
<1>7. IsSeq(chunks)
  BY <1>3, SeqOwn
<1>8. IsBlobSeq(tree) /\ tree # <<>>
  BY <1>7, SplitTreeTypes
<1>9. \A b \in ToSet(tree) : Below(b) \subseteq ToSet(chunks) \cup ToSet(tree)
  BY <1>7, SplitTreeBelow
<1> HIDE DEF tree
<1>10. ToSet(all) = ToSet(chunks) \cup ToSet(tree) /\ tree[1] \in ToSet(tree)
  <2> DEFINE Y == ToSet(chunks) \cup ToSet(tree)
  <2>1. /\ chunks \in Seq(Y) /\ tree \in Seq(Y) /\ Len(chunks) \in Nat /\ Len(tree) \in Nat \ {0}
        /\ DOMAIN chunks = 1..Len(chunks) /\ DOMAIN tree = 1..Len(tree)
    BY <1>7, <1>8 DEF IsSeq, IsBlobSeq
  <2>2. tree[1] \in ToSet(tree)
    BY <2>1 DEF ToSet
  <2>3. all \in Seq(Y) /\ Len(all) = Len(chunks) + Len(tree) /\ DOMAIN all = 1..(Len(chunks) + Len(tree))
    BY <2>1
  <2>4. /\ \A i \in 1..Len(chunks) : all[i] = chunks[i]
        /\ \A i \in 1..Len(tree) : all[Len(chunks) + i] = tree[i]
    BY <2>1
  <2>5. ToSet(all) \subseteq Y
    <3> HIDE DEF Y, all
    <3> QED BY <2>3, SeqOwn
  <2> HIDE DEF all
  <2>6. ToSet(chunks) \subseteq ToSet(all)
    <3>1. \A i \in 1..Len(chunks) : i \in DOMAIN all
      BY <2>1, <2>3
    <3> QED BY <3>1, <2>1, <2>4 DEF ToSet
  <2>7. ToSet(tree) \subseteq ToSet(all)
    <3>1. \A i \in 1..Len(tree) : Len(chunks) + i \in DOMAIN all
      BY <2>1, <2>3
    <3> QED BY <3>1, <2>1, <2>4 DEF ToSet
  <2> QED BY <2>2, <2>5, <2>6, <2>7
<1> HIDE DEF all
<1>11. \A b \in ToSet(all) : Below(b) \subseteq ToSet(all)
  BY <1>3, <1>5, <1>9, <1>10
<1> QED BY <1>6, <1>10, <1>11 DEF FileIsWhole

-----------------------------------------------------------------------------
(* Blobs from which one gets down to chunks.                               *)

\* What a blob is like: chunks name nothing, files chunks, directories trees, and a
\* tree has at most one sibling, of its kind.
Tidy(b) ==
  /\ IsSeq(b.children)
  /\ b.kind \in {"chunk", "file", "dir"}
  /\ b.next = <<>> \/ \E x : b.next = <<x>> /\ x.kind = b.kind
  /\ b.kind = "chunk" => b.children = <<>> /\ b.next = <<>>
  /\ b.kind = "file" => \A c \in ToSet(b.children) : c.kind = "chunk"
  /\ b.kind = "dir" => \A c \in ToSet(b.children) : c.kind # "chunk"

\* r falls on the way down.
Descent(C, r) ==
  /\ Closed(C) /\ r \in [C -> Nat]
  /\ \A b \in C : Tidy(b) /\ \A c \in Below(b) : r[c] < r[b]

Ranked(b, n) == \E C, r : b \in C /\ Descent(C, r) /\ r[b] = n
Sound(b) == \E n \in Nat : Ranked(b, n)
Rank(b) == CHOOSE n \in Nat : Ranked(b, n) /\ \A m \in Nat : Ranked(b, m) => n <= m

LEMMA RankIsLeast ==
  ASSUME NEW b, Sound(b)
  PROVE  Rank(b) \in Nat /\ Ranked(b, Rank(b)) /\ \A m \in Nat : Ranked(b, m) => Rank(b) <= m
<1> DEFINE T == {n \in Nat : Ranked(b, n)}
<1>1. T # {} /\ T \subseteq Nat
  BY DEF Sound
<1>2. \E n \in T : \A m \in T : n <= m
  <2> HIDE DEF T
  <2> QED BY <1>1, Least
<1>3. \E n \in Nat : Ranked(b, n) /\ \A m \in Nat : Ranked(b, m) => n <= m
  BY <1>2
<1> HIDE DEF T
<1> QED BY <1>3, Zenon DEF Rank

\* Below a sound blob there are sound ones, of a lower rank.
LEMMA RankFalls ==
  ASSUME NEW b, Sound(b)
  PROVE  Rank(b) \in Nat /\ Tidy(b) /\ \A c \in Below(b) : Sound(c) /\ Rank(c) \in Nat /\ Rank(c) < Rank(b)
<1>1. Rank(b) \in Nat /\ Ranked(b, Rank(b))
  BY RankIsLeast
<1>2. PICK C, r : b \in C /\ Descent(C, r) /\ r[b] = Rank(b)
  BY <1>1, Zenon DEF Ranked
<1>3. Tidy(b)
  BY <1>2 DEF Descent
<1>4. ASSUME NEW c \in Below(b) PROVE Sound(c) /\ Rank(c) \in Nat /\ Rank(c) < Rank(b)
  <2>1. c \in C /\ r[c] \in Nat /\ r[c] < r[b]
    BY <1>2, <1>4 DEF Descent, Closed
  <2>2. Ranked(c, r[c])
    BY <1>2, <2>1 DEF Ranked
  <2>3. Sound(c)
    BY <2>1, <2>2 DEF Sound
  <2>4. Rank(c) \in Nat /\ Rank(c) <= r[c]
    BY <2>1, <2>2, <2>3, RankIsLeast
  <2> QED BY <1>1, <1>2, <2>1, <2>3, <2>4
<1> QED BY <1>1, <1>3, <1>4

LEMMA RanksAreBounded ==
  ASSUME NEW s, IsSeq(s), \A c \in ToSet(s) : Sound(c)
  PROVE  \E m \in Nat : \A c \in ToSet(s) : Rank(c) <= m
<1> DEFINE T == {n \in Nat : \E m \in Nat : \A i \in DOMAIN s : i <= n => Rank(s[i]) <= m}
<1>1. DOMAIN s = 1..Len(s) /\ Len(s) \in Nat
  BY DEF IsSeq
<1>2. \A i \in DOMAIN s : Rank(s[i]) \in Nat
  BY RankFalls DEF ToSet
<1>3. 0 \in T
  BY <1>1
<1>4. ASSUME NEW n \in Nat, n \in T PROVE n + 1 \in T
  <2>1. PICK m \in Nat : \A i \in DOMAIN s : i <= n => Rank(s[i]) <= m
    BY <1>4
  <2> DEFINE k == IF n + 1 \in DOMAIN s /\ Rank(s[n + 1]) > m THEN Rank(s[n + 1]) ELSE m
  <2>2. k \in Nat
    BY <1>2
  <2>3. ASSUME NEW i \in DOMAIN s, i <= n + 1 PROVE Rank(s[i]) <= k
    <3>1. Rank(s[i]) \in Nat /\ i \in Nat
      BY <1>1, <1>2
    <3>2. CASE i <= n
      BY <2>1, <3>1, <3>2, <1>2
    <3>3. CASE i = n + 1
      BY <3>1, <3>3
    <3> QED BY <2>3, <3>1, <3>2, <3>3
  <2> HIDE DEF k
  <2> QED BY <2>2, <2>3
<1>5. Nat \subseteq T
  <2> HIDE DEF T
  <2> QED BY <1>3, <1>4, Induction
<1>6. PICK m \in Nat : \A i \in DOMAIN s : i <= Len(s) => Rank(s[i]) <= m
  BY <1>1, <1>5
<1> QED BY <1>1, <1>6 DEF ToSet

\* A tidy blob that names sound ones is sound.
LEMMA SoundAbove ==
  ASSUME NEW b, Tidy(b), \A c \in Below(b) : Sound(c)
  PROVE  Sound(b)
<1> SUFFICES ASSUME ~Sound(b) PROVE FALSE
  OBVIOUS
<1> DEFINE W(c) == CHOOSE C : c \in C /\ \E r : Descent(C, r)
      D == {b} \cup UNION {W(c) : c \in Below(b)}
<1>1. ASSUME NEW c \in Below(b) PROVE c \in W(c) /\ \E r : Descent(W(c), r)
  <2>1. \E C : c \in C /\ \E r : Descent(C, r)
    BY <1>1 DEF Sound, Ranked
  <2> QED BY <2>1
<1> HIDE DEF W
<1>2. ASSUME NEW c \in Below(b), NEW x \in W(c) PROVE Sound(x) /\ Below(x) \subseteq W(c)
  <2>1. PICK r : Descent(W(c), r)
    BY <1>1
  <2>2. r[x] \in Nat /\ Ranked(x, r[x])
    BY <2>1 DEF Descent, Ranked
  <2> QED BY <2>1, <2>2 DEF Sound, Descent, Closed
<1>3. PICK k \in Nat : \A c \in Below(b) : Rank(c) <= k
  <2>1. IsSeq(b.next)
    <3>1. \A x : <<x>> \in Seq({x}) /\ <<>> \in Seq({})
      OBVIOUS
    <3> QED BY <3>1, ToSetSmall DEF Tidy, IsSeq
  <2>2. PICK k1 \in Nat : \A c \in ToSet(b.children) : Rank(c) <= k1
    BY RanksAreBounded DEF Tidy, Below
  <2>3. PICK k2 \in Nat : \A c \in ToSet(b.next) : Rank(c) <= k2
    BY <2>1, RanksAreBounded DEF Below
  <2>4. \A c \in Below(b) : Rank(c) \in Nat
    BY RankFalls
  <2>5. \A c \in Below(b) : Rank(c) <= k1 + k2
    BY <2>2, <2>3, <2>4 DEF Below
  <2> QED BY <2>5
<1> DEFINE r == [x \in D |-> IF x = b THEN k + 1 ELSE Rank(x)]
<1>4. \A x \in D : x # b => Sound(x) /\ Below(x) \subseteq D
  BY <1>2
<1>5. Below(b) \subseteq D /\ b \in D /\ b \notin Below(b)
  BY <1>1
<1>6. Closed(D)
  BY <1>4, <1>5 DEF Closed
<1> HIDE DEF D
<1>7. ASSUME NEW x \in D, x # b
      PROVE  Rank(x) \in Nat /\ Tidy(x) /\ \A c \in Below(x) : c # b /\ Rank(c) < Rank(x)
  BY <1>4, <1>7, RankFalls
<1>8. r \in [D -> Nat]
  BY <1>7
<1>9. ASSUME NEW x \in D PROVE Tidy(x) /\ \A c \in Below(x) : r[c] < r[x]
  <2>1. CASE x = b
    <3>1. \A c \in Below(b) : c # b /\ c \in D /\ Rank(c) <= k /\ Rank(c) \in Nat
      BY <1>3, <1>5, <1>7
    <3> QED BY <2>1, <3>1
  <2>2. CASE x # b
    BY <1>6, <1>7, <2>2 DEF Closed
  <2> QED BY <2>1, <2>2
<1>10. r[b] \in Nat
  BY <1>5, <1>8
<1> HIDE DEF r
<1>11. Descent(D, r)
  BY <1>6, <1>8, <1>9 DEF Descent
<1>12. Ranked(b, r[b])
  BY <1>5, <1>11 DEF Ranked
<1> QED BY <1>10, <1>12 DEF Sound

\* What is true of a blob when it is of those below it is true of all.
LEMMA BlobInduction ==
  ASSUME NEW S, \A b \in S : Sound(b), NEW P,
         \A b \in S : (\A c \in Below(b) : c \in S => c \in P) => b \in P
  PROVE  S \subseteq P
<1> DEFINE T == {Rank(b) : b \in S \ P}
<1> SUFFICES ASSUME T # {} PROVE FALSE
  OBVIOUS
<1>1. T \subseteq Nat
  BY RankFalls
<1>2. PICK n \in T : \A m \in T : n <= m
  <2> HIDE DEF T
  <2> QED BY <1>1, Least
<1>3. PICK b \in S \ P : n = Rank(b)
  OBVIOUS
<1>4. ASSUME NEW c \in Below(b), c \in S PROVE c \in P
  <2>1. Rank(c) \in Nat /\ Rank(b) \in Nat /\ Rank(c) < Rank(b)
    BY <1>3, RankFalls
  <2> QED BY <1>2, <1>3, <1>4, <2>1
<1> QED BY <1>3, <1>4

\* step takes a function of blobs, and only looks at what it is of those below.
LooksBelow(S, T, step) ==
  /\ step \in [S \X [S -> T] -> T]
  /\ \A b \in S, f, g \in [S -> T] :
       (\A c \in Below(b) : c \in S => f[c] = g[c]) => step[<<b, f>>] = step[<<b, g>>]

Computes(S, T, step, f) == f \in [S -> T] /\ \A b \in S : f[b] = step[<<b, f>>]

\* A function of blobs can be defined by what it is of those below.
LEMMA BlobRecursion ==
  ASSUME NEW S, \A b \in S : Sound(b), NEW T, NEW t \in T, NEW step, LooksBelow(S, T, step)
  PROVE  \E f : Computes(S, T, step, f)
<1> DEFINE F == [S -> T]
      base == [b \in S |-> t]
      all(f) == [b \in S |-> step[<<b, f>>]]
      next == [u \in Nat \X F |-> all(u[2])]
<1> USE DEF LooksBelow
<1>1. base \in F
  OBVIOUS
<1>2. \A f \in F : all(f) \in F /\ \A b \in S : all(f)[b] = step[<<b, f>>]
  OBVIOUS
<1> HIDE DEF base, all
<1>3. next \in [Nat \X F -> F]
  BY <1>2
<1>4. \A n \in Nat, f \in F : next[<<n, f>>] = all(f)
  OBVIOUS
<1> HIDE DEF next
<1>5. PICK g : Recursive(F, base, next, g)
  <2> HIDE DEF F
  <2> QED BY <1>1, <1>3, Recursion
<1>6. g \in [Nat -> F]
  BY <1>5 DEF Recursive
<1>7. ASSUME NEW n \in Nat PROVE g[n + 1] = all(g[n])
  <2>1. n + 1 \in Nat \ {0} /\ (n + 1) - 1 = n /\ g[n] \in F
    BY <1>6
  <2>2. g[n + 1] = next[<<n + 1, g[n]>>]
    BY <1>5, <2>1 DEF Recursive
  <2> QED BY <1>4, <2>1, <2>2
<1> DEFINE h == [b \in S |-> g[Rank(b) + 1][b]]
      P == {n \in Nat : \A b \in S : Rank(b) < n => g[n][b] = h[b]}
<1>8. \A b \in S : Rank(b) \in Nat /\ \A c \in Below(b) : Rank(c) \in Nat /\ Rank(c) < Rank(b)
  BY RankFalls
<1>9. ASSUME NEW n \in Nat, \A m \in Nat : m < n => m \in P PROVE n \in P
  <2> SUFFICES ASSUME NEW b \in S, Rank(b) < n PROVE g[n][b] = h[b]
    OBVIOUS
  <2> DEFINE r == Rank(b)
  <2>1. r \in Nat /\ n - 1 \in Nat /\ (n - 1) + 1 = n /\ r \in P /\ n - 1 \in P /\ r <= n - 1
    BY <1>8, <1>9
  <2>2. g[n][b] = step[<<b, g[n - 1]>>] /\ h[b] = step[<<b, g[r]>>]
    <3>1. g[n] = all(g[n - 1]) /\ g[r + 1] = all(g[r]) /\ g[n - 1] \in F /\ g[r] \in F
      BY <1>6, <1>7, <2>1
    <3> QED BY <1>2, <3>1
  <2>3. \A c \in Below(b) : c \in S => g[n - 1][c] = h[c] /\ g[r][c] = h[c]
    BY <1>8, <2>1
  <2>4. g[n - 1] \in F /\ g[r] \in F
    BY <1>6, <2>1
  <2>5. \A c \in Below(b) : c \in S => g[n - 1][c] = g[r][c]
    BY <2>3
  <2> HIDE DEF h, r
  <2>6. step[<<b, g[n - 1]>>] = step[<<b, g[r]>>]
    BY <2>4, <2>5
  <2> QED BY <2>2, <2>6
<1>10. \A n \in Nat : n \in P
  <2> DEFINE Q == {n \in Nat : \A m \in Nat : m <= n => m \in P}
  <2> HIDE DEF P
  <2>1. 0 \in Q
    BY <1>9
  <2>2. ASSUME NEW n \in Nat, n \in Q PROVE n + 1 \in Q
    BY <1>9, <2>2
  <2>3. Nat \subseteq Q
    <3> HIDE DEF Q
    <3> QED BY <2>1, <2>2, Induction
  <2> QED BY <2>3
<1>11. h \in F
  <2>1. \A b \in S : g[Rank(b) + 1] \in F
    BY <1>6, <1>8
  <2> QED BY <2>1
<1>12. ASSUME NEW b \in S PROVE h[b] = step[<<b, h>>]
  <2> DEFINE r == Rank(b)
  <2>1. r \in Nat /\ g[r] \in F /\ g[r + 1] = all(g[r]) /\ r + 1 \in Nat
    <3>1. r \in Nat /\ r + 1 \in Nat
      BY <1>8
    <3> HIDE DEF P, r
    <3> QED BY <1>6, <1>7, <1>10, <3>1
  <2>2. h[b] = step[<<b, g[r]>>]
    BY <1>2, <2>1
  <2>3. \A c \in Below(b) : c \in S => g[r][c] = h[c]
    <3>1. r \in P
      <4> HIDE DEF P
      <4> QED BY <1>10, <2>1
    <3> QED BY <1>8, <3>1
  <2> HIDE DEF h
  <2> QED BY <1>11, <2>1, <2>2, <2>3
<1> HIDE DEF h
<1>13. Computes(S, T, step, h)
  BY <1>11, <1>12 DEF Computes
<1> QED BY <1>13

-----------------------------------------------------------------------------
(* What unpack finds.                                                      *)

LEMMA NextIsBelow ==
  ASSUME NEW b, Tidy(b), b.next # <<>>
  PROVE  b.next = <<b.next[1]>> /\ b.next[1] \in Below(b) /\ b.next[1].kind = b.kind
<1>1. PICK x : b.next = <<x>> /\ x.kind = b.kind
  BY DEF Tidy
<1>2. b.next[1] = x
  BY <1>1
<1> QED BY <1>1, <1>2, ToSetSmall DEF Below

\* f is the function that fetch_full_tree computes.
IsFullTree(S, f) ==
  f = [b \in Trees(S) |-> b.children \o (IF b.next # <<>> /\ b.next[1] \in Trees(S)
                                         THEN f[b.next[1]] ELSE <<>>)]

LEMMA FullTreeIs ==
  ASSUME NEW S, \A b \in S : Sound(b)
  PROVE  IsFullTree(S, FullTree(S)) /\ \A b \in Trees(S) : IsSeq(FullTree(S)[b])
<1> DEFINE R == Trees(S)
      V == UNION {ToSet(b.children) : b \in R}
      T == Seq(V)
      new(b, f) == b.children \o (IF b.next # <<>> /\ b.next[1] \in R THEN f[b.next[1]] ELSE <<>>)
      step == [u \in R \X [R -> T] |-> new(u[1], u[2])]
      full[b \in Trees(S)] == b.children \o (IF b.next # <<>> /\ b.next[1] \in Trees(S)
                                             THEN full[b.next[1]] ELSE <<>>)
<1>1. \A b \in R : Sound(b)
  BY DEF Trees
<1>2. ASSUME NEW b \in R PROVE b.children \in T
  <2>1. IsSeq(b.children) /\ ToSet(b.children) \subseteq V
    BY <1>1, RankFalls DEF Tidy
  <2> HIDE DEF V
  <2> QED BY <2>1 DEF IsSeq
<1> HIDE DEF V, R
<1>3. ASSUME NEW b \in R, NEW f \in [R -> T] PROVE new(b, f) \in T
  BY <1>2, <1>3
<1>4. step \in [R \X [R -> T] -> T]
  BY <1>3
<1>5. \A b \in R, f \in [R -> T] : step[<<b, f>>] = new(b, f)
  OBVIOUS
<1>6. \A b \in R, f, g \in [R -> T] :
        (\A c \in Below(b) : c \in R => f[c] = g[c]) => step[<<b, f>>] = step[<<b, g>>]
  <2>1. \A b \in R : b.next # <<>> => b.next[1] \in Below(b)
    BY <1>1, RankFalls, NextIsBelow
  <2> QED BY <1>5, <2>1
<1>7. <<>> \in T
  OBVIOUS
<1> HIDE DEF step, T
<1>8. PICK f : Computes(R, T, step, f)
  <2>1. LooksBelow(R, T, step)
    BY <1>4, <1>6 DEF LooksBelow
  <2> QED BY <1>1, <1>7, <2>1, BlobRecursion
<1>9. f = [b \in R |-> new(b, f)]
  BY <1>5, <1>8 DEF Computes
<1>10. IsFullTree(S, f)
  BY <1>9 DEF IsFullTree, R
<1>11. IsFullTree(S, full)
  BY <1>10, Zenon DEF IsFullTree, full
<1>12. FullTree(S) = full
  BY DEF FullTree
<1> HIDE DEF full
<1>13. IsFullTree(S, FullTree(S))
  BY <1>11, <1>12
<1> DEFINE P == {b \in R : FullTree(S)[b] \in T}
<1>14. ASSUME NEW b \in R, \A c \in Below(b) : c \in R => c \in P PROVE b \in P
  <2> DEFINE rest == IF b.next # <<>> /\ b.next[1] \in R THEN FullTree(S)[b.next[1]] ELSE <<>>
  <2>1. FullTree(S)[b] = b.children \o rest
    BY <1>13 DEF IsFullTree, R
  <2>2. b.next # <<>> /\ b.next[1] \in R => FullTree(S)[b.next[1]] \in T
    BY <1>1, <1>14, RankFalls, NextIsBelow
  <2>3. rest \in T
    BY <1>7, <2>2
  <2> HIDE DEF rest
  <2>4. b.children \o rest \in T
    BY <1>2, <2>3 DEF T
  <2> QED BY <2>1, <2>4
<1>15. R \subseteq P
  <2> HIDE DEF P
  <2> QED BY <1>1, <1>14, BlobInduction
<1>16. \A b \in R : IsSeq(FullTree(S)[b])
  BY <1>15, SeqOwn DEF T
<1> QED BY <1>13, <1>16 DEF R

\* f says of the blobs in S that everything below and beside them is in S.
IsComplete(S, f) == f = [b \in S |-> \A c \in Below(b) : c \in S /\ f[c]]

LEMMA CompleteIs ==
  ASSUME NEW S, \A b \in S : Sound(b)
  PROVE  IsComplete(S, Complete(S))
<1> DEFINE T == BOOLEAN
      new(b, f) == \A c \in Below(b) : c \in S /\ f[c]
      step == [u \in S \X [S -> T] |-> new(u[1], u[2])]
      complete[b \in S] == \A c \in Below(b) : c \in S /\ complete[c]
<1>1. step \in [S \X [S -> T] -> T]
  OBVIOUS
<1>2. \A b \in S, f \in [S -> T] : step[<<b, f>>] = new(b, f)
  OBVIOUS
<1>3. \A b \in S, f, g \in [S -> T] :
        (\A c \in Below(b) : c \in S => f[c] = g[c]) => step[<<b, f>>] = step[<<b, g>>]
  <2>1. \A b \in S, f, g \in [S -> T] :
          (\A c \in Below(b) : c \in S => f[c] = g[c]) => (new(b, f) <=> new(b, g))
    OBVIOUS
  <2> QED BY <1>2, <2>1
<1> HIDE DEF step
<1>4. PICK f : Computes(S, T, step, f)
  <2>1. LooksBelow(S, T, step)
    BY <1>1, <1>3 DEF LooksBelow
  <2> QED BY <2>1, BlobRecursion
<1>5. f = [b \in S |-> new(b, f)]
  BY <1>2, <1>4 DEF Computes
<1>6. IsComplete(S, f)
  BY <1>5, Zenon DEF IsComplete
<1>7. IsComplete(S, complete)
  BY <1>6, Zenon DEF IsComplete, complete
<1> QED BY <1>7, Zenon DEF Complete

\* f says of the trees in S that unpack comes across none that is missing.
IsUnpacks(S, f) ==
  f = [b \in Trees(S) |->
        /\ b.next = <<>> \/ (b.next[1] \in Trees(S) /\ f[b.next[1]])
        /\ b.kind = "dir" => \A c \in ToSet(b.children) : c \in Trees(S) /\ f[c]]

LEMMA UnpacksIs ==
  ASSUME NEW S, \A b \in S : Sound(b)
  PROVE  IsUnpacks(S, Unpacks(S))
<1> DEFINE R == Trees(S)
      T == BOOLEAN
      new(b, f) == /\ b.next = <<>> \/ (b.next[1] \in R /\ f[b.next[1]])
                   /\ b.kind = "dir" => \A c \in ToSet(b.children) : c \in R /\ f[c]
      step == [u \in R \X [R -> T] |-> new(u[1], u[2])]
      ok[b \in Trees(S)] ==
        /\ b.next = <<>> \/ (b.next[1] \in Trees(S) /\ ok[b.next[1]])
        /\ b.kind = "dir" => \A c \in ToSet(b.children) : c \in Trees(S) /\ ok[c]
<1>1. \A b \in R : Sound(b)
  BY DEF Trees
<1> HIDE DEF R
<1>2. step \in [R \X [R -> T] -> T]
  OBVIOUS
<1>3. \A b \in R, f \in [R -> T] : step[<<b, f>>] = new(b, f)
  OBVIOUS
<1>4. \A b \in R, f, g \in [R -> T] :
        (\A c \in Below(b) : c \in R => f[c] = g[c]) => step[<<b, f>>] = step[<<b, g>>]
  <2>1. \A b \in R : (b.next # <<>> => b.next[1] \in Below(b)) /\ ToSet(b.children) \subseteq Below(b)
    BY <1>1, RankFalls, NextIsBelow DEF Below
  <2>2. \A b \in R, f, g \in [R -> T] :
          (\A c \in Below(b) : c \in R => f[c] = g[c]) => (new(b, f) <=> new(b, g))
    BY <2>1
  <2>3. \A b \in R, f \in [R -> T] : new(b, f) \in BOOLEAN
    OBVIOUS
  <2> HIDE DEF new
  <2> QED BY <1>3, <2>2, <2>3
<1> HIDE DEF step
<1>5. PICK f : Computes(R, T, step, f)
  <2>1. LooksBelow(R, T, step)
    BY <1>2, <1>4 DEF LooksBelow
  <2> QED BY <1>1, <2>1, BlobRecursion
<1>6. f = [b \in R |-> new(b, f)]
  BY <1>3, <1>5 DEF Computes
<1>7. IsUnpacks(S, f)
  BY <1>6, Zenon DEF IsUnpacks, R
<1>8. IsUnpacks(S, ok)
  BY <1>7, Zenon DEF IsUnpacks, ok
<1> QED BY <1>8, Zenon DEF Unpacks

\* f has the files that unpack leaves of the trees in S.
FileOf(b, full) == <<b.name, [i \in DOMAIN full |-> full[i].name]>>
IsRestored(S, f) ==
  f = [b \in Trees(S) |->
        IF b.kind = "dir" THEN UNION {f[c] : c \in Below(b) \cap Trees(S)}
        ELSE IF ToSet(FullTree(S)[b]) \subseteq S THEN {FileOf(b, FullTree(S)[b])} ELSE {}]

LEMMA RestoredIs ==
  ASSUME NEW S, \A b \in S : Sound(b)
  PROVE  IsRestored(S, Restored(S))
<1> DEFINE R == Trees(S)
      F == FullTree(S)
      V == {FileOf(b, F[b]) : b \in R}
      T == SUBSET V
      new(b, f) == IF b.kind = "dir" THEN UNION {f[c] : c \in Below(b) \cap R}
                   ELSE IF ToSet(F[b]) \subseteq S THEN {FileOf(b, F[b])} ELSE {}
      step == [u \in R \X [R -> T] |-> new(u[1], u[2])]
      files[b \in Trees(S)] ==
        IF b.kind = "dir" THEN UNION {files[c] : c \in Below(b) \cap Trees(S)}
        ELSE LET full == FullTree(S)[b]
             IN IF ToSet(full) \subseteq S
                  THEN {<<b.name, [i \in DOMAIN full |-> full[i].name]>>} ELSE {}
<1>1. \A b \in R : Sound(b)
  BY DEF Trees
<1> HIDE DEF R, F
<1>2. ASSUME NEW b \in R, NEW f \in [R -> T] PROVE new(b, f) \in T
  OBVIOUS
<1> HIDE DEF V
<1>3. step \in [R \X [R -> T] -> T]
  BY <1>2
<1>4. \A b \in R, f \in [R -> T] : step[<<b, f>>] = new(b, f)
  OBVIOUS
<1>5. ASSUME NEW b \in R, NEW f \in [R -> T], NEW g \in [R -> T],
             \A c \in Below(b) : c \in R => f[c] = g[c]
      PROVE  step[<<b, f>>] = step[<<b, g>>]
  <2>1. {f[c] : c \in Below(b) \cap R} = {g[c] : c \in Below(b) \cap R}
    BY <1>5
  <2>2. new(b, f) = new(b, g)
    BY <2>1
  <2> HIDE DEF new
  <2> QED BY <1>4, <1>5, <2>2
<1> HIDE DEF step
<1>6. PICK f : Computes(R, T, step, f)
  <2>1. LooksBelow(R, T, step)
    BY <1>3, <1>5 DEF LooksBelow
  <2>2. {} \in T
    OBVIOUS
  <2> HIDE DEF T
  <2> QED BY <1>1, <2>1, <2>2, BlobRecursion
<1>7. f = [b \in R |-> new(b, f)]
  BY <1>4, <1>6 DEF Computes
<1>8. IsRestored(S, f)
  BY <1>7, Zenon DEF IsRestored, R, F
<1>9. IsRestored(S, files)
  BY <1>8, Zenon DEF IsRestored, FileOf, files
<1> QED BY <1>9, Zenon DEF Restored

-----------------------------------------------------------------------------
(* What a tree stands for, wherever it is read.                            *)

LEMMA ConcatSet ==
  ASSUME NEW s, NEW t, IsSeq(s), IsSeq(t)
  PROVE  IsSeq(s \o t) /\ ToSet(s \o t) = ToSet(s) \cup ToSet(t)
<1> DEFINE Y == ToSet(s) \cup ToSet(t)
      all == s \o t
<1>1. /\ s \in Seq(Y) /\ t \in Seq(Y) /\ Len(s) \in Nat /\ Len(t) \in Nat
      /\ DOMAIN s = 1..Len(s) /\ DOMAIN t = 1..Len(t)
  BY DEF IsSeq
<1>2. all \in Seq(Y) /\ DOMAIN all = 1..(Len(s) + Len(t))
  BY <1>1
<1>3. /\ \A i \in 1..Len(s) : all[i] = s[i]
      /\ \A i \in 1..Len(t) : all[Len(s) + i] = t[i]
  BY <1>1
<1>4. IsSeq(all) /\ ToSet(all) \subseteq Y
  <2> HIDE DEF Y, all
  <2> QED BY <1>2, SeqOwn
<1> HIDE DEF all
<1>5. ToSet(s) \subseteq ToSet(all)
  <2>1. \A i \in 1..Len(s) : i \in DOMAIN all
    BY <1>1, <1>2
  <2> QED BY <2>1, <1>1, <1>3 DEF ToSet
<1>6. ToSet(t) \subseteq ToSet(all)
  <2>1. \A i \in 1..Len(t) : Len(s) + i \in DOMAIN all
    BY <1>1, <1>2
  <2> QED BY <2>1, <1>1, <1>3 DEF ToSet
<1> QED BY <1>4, <1>5, <1>6 DEF all

\* From a blob of a closed set one does not get out of it.
LEMMA FullStays ==
  ASSUME NEW S, \A b \in S : Sound(b), NEW C, C \subseteq S, Closed(C)
  PROVE  \A b \in Trees(C) : ToSet(FullTree(S)[b]) \subseteq C
<1> DEFINE F == FullTree(S)
      R == Trees(C)
      P == {b \in R : ToSet(F[b]) \subseteq C}
<1>1. IsFullTree(S, F) /\ \A b \in Trees(S) : IsSeq(F[b])
  BY FullTreeIs
<1> HIDE DEF F
<1>2. ASSUME NEW b \in R, \A c \in Below(b) : c \in R => c \in P PROVE b \in P
  <2>1. b \in Trees(S) /\ Tidy(b) /\ Below(b) \subseteq C
    BY RankFalls DEF Trees, Closed
  <2>2. CASE b.next = <<>>
    <3>1. F[b] = b.children \o <<>>
      BY <1>1, <2>1, <2>2 DEF IsFullTree
    <3>2. IsSeq(<<>>)
      BY EmptyIsBlobSeq DEF IsBlobSeq
    <3>3. ToSet(F[b]) = ToSet(b.children) \cup {}
      BY <2>1, <3>1, <3>2, ConcatSet, ToSetSmall DEF Tidy
    <3> QED BY <2>1, <3>3 DEF Below
  <2>3. CASE b.next # <<>>
    <3> DEFINE x == b.next[1]
    <3>1. x \in Below(b) /\ x.kind = b.kind
      BY <2>1, <2>3, NextIsBelow
    <3>2. x \in R /\ x \in Trees(S) /\ x \in P
      BY <1>2, <2>1, <3>1 DEF Trees
    <3>3. F[b] = b.children \o F[x]
      BY <1>1, <2>1, <2>3, <3>2 DEF IsFullTree
    <3> HIDE DEF x
    <3>4. ToSet(F[b]) = ToSet(b.children) \cup ToSet(F[x])
      BY <1>1, <2>1, <3>2, <3>3, ConcatSet DEF Tidy
    <3> QED BY <2>1, <3>2, <3>4 DEF Below
  <2> QED BY <2>2, <2>3
<1>3. R \subseteq P
  <2>1. \A b \in R : Sound(b)
    BY DEF Trees
  <2> HIDE DEF P, R
  <2> QED BY <1>2, <2>1, BlobInduction
<1> QED BY <1>3 DEF F

\* Two sets of blobs that have all of a tree agree on it.
Agree(S, D, b) == FullTree(S)[b] = FullTree(D)[b] /\ Restored(S)[b] = Restored(D)[b]

LEMMA Agreement ==
  ASSUME NEW S, NEW D, \A b \in S \cup D : Sound(b),
         NEW C, C \subseteq S, C \subseteq D, Closed(C)
  PROVE  \A b \in Trees(C) : Agree(S, D, b)
<1> DEFINE F == FullTree(S)
      G == FullTree(D)
      L == Restored(S)
      M == Restored(D)
      R == Trees(C)
      P == {b \in R : F[b] = G[b]}
      Q == {b \in R : L[b] = M[b]}
<1>1. IsFullTree(S, F) /\ IsFullTree(D, G) /\ IsRestored(S, L) /\ IsRestored(D, M)
  BY FullTreeIs, RestoredIs
<1>2. \A b \in R : ToSet(F[b]) \subseteq C /\ ToSet(G[b]) \subseteq C
  BY FullStays
<1>3. \A b \in R : /\ b \in Trees(S) /\ b \in Trees(D) /\ Sound(b) /\ Tidy(b) /\ Below(b) \subseteq C
                   /\ Below(b) \cap R = Below(b) \cap Trees(S)
                   /\ Below(b) \cap R = Below(b) \cap Trees(D)
  BY RankFalls DEF Trees, Closed
<1>4. ASSUME NEW b \in R, b.next # <<>> PROVE b.next[1] \in Below(b) /\ b.next[1] \in R
  BY <1>3, <1>4, NextIsBelow DEF Trees
<1> HIDE DEF R
<1>5. R \subseteq P
  <2>1. ASSUME NEW b \in R, \A c \in Below(b) : c \in R => c \in P PROVE b \in P
    <3> HIDE DEF F, G
    <3>1. CASE b.next = <<>>
      BY <1>1, <1>3, <3>1 DEF IsFullTree
    <3>2. CASE b.next # <<>>
      <4> DEFINE x == b.next[1]
      <4>1. x \in R /\ x \in Trees(S) /\ x \in Trees(D) /\ F[x] = G[x]
        BY <1>3, <1>4, <2>1, <3>2
      <4> HIDE DEF x
      <4>2. F[b] = b.children \o F[x] /\ G[b] = b.children \o G[x]
        BY <1>1, <1>3, <3>2, <4>1 DEF IsFullTree, x
      <4> QED BY <4>1, <4>2
    <3> QED BY <3>1, <3>2
  <2> HIDE DEF P
  <2> QED BY <1>3, <2>1, BlobInduction
<1>6. R \subseteq Q
  <2>1. ASSUME NEW b \in R, \A c \in Below(b) : c \in R => c \in Q PROVE b \in Q
    <3> HIDE DEF L, M, F, G
    <3>1. CASE b.kind = "dir"
      <4>1. /\ L[b] = UNION {L[c] : c \in Below(b) \cap R}
            /\ M[b] = UNION {M[c] : c \in Below(b) \cap R}
        BY <1>1, <1>3, <3>1 DEF IsRestored, F, G
      <4>2. \A c \in Below(b) \cap R : L[c] = M[c]
        BY <2>1
      <4>3. {L[c] : c \in Below(b) \cap R} = {M[c] : c \in Below(b) \cap R}
        BY <4>2
      <4> QED BY <4>1, <4>3
    <3>2. CASE b.kind # "dir"
      <4>1. /\ L[b] = IF ToSet(F[b]) \subseteq S THEN {FileOf(b, F[b])} ELSE {}
            /\ M[b] = IF ToSet(G[b]) \subseteq D THEN {FileOf(b, G[b])} ELSE {}
        BY <1>1, <1>3, <3>2 DEF IsRestored, F, G
      <4>2. F[b] = G[b]
        BY <1>5
      <4> QED BY <1>2, <4>1, <4>2
    <3> QED BY <3>1, <3>2
  <2> HIDE DEF Q
  <2> QED BY <1>3, <2>1, BlobInduction
<1> QED BY <1>5, <1>6 DEF Agree, R

\* A set of blobs that has all of b.
Down(b) == CHOOSE C : b \in C /\ Closed(C) /\ \A x \in C : Sound(x)

LEMMA DownIs ==
  ASSUME NEW b, Sound(b)
  PROVE  b \in Down(b) /\ Closed(Down(b)) /\ \A x \in Down(b) : Sound(x)
<1>1. PICK C, r : b \in C /\ Descent(C, r)
  BY Zenon DEF Sound, Ranked
<1>2. \A x \in C : Sound(x)
  <2>1. ASSUME NEW x \in C PROVE Sound(x)
    <3>1. r[x] \in Nat /\ Ranked(x, r[x])
      BY <1>1 DEF Descent, Ranked
    <3> QED BY <3>1 DEF Sound
  <2> QED BY <2>1
<1>3. \E D : b \in D /\ Closed(D) /\ \A x \in D : Sound(x)
  BY <1>1, <1>2 DEF Descent
<1> QED BY <1>3, Zenon DEF Down

\* The children of a tree with all its siblings, and the files of a tree.
KidsOf(b) == FullTree(Down(b))[b]
FilesUnder(b) == Restored(Down(b))[b]

\* A set of blobs that has all of b leads to them.
LEMMA ReadAnywhere ==
  ASSUME NEW S, \A b \in S : Sound(b), NEW C, C \subseteq S, Closed(C), NEW b \in Trees(C)
  PROVE  FullTree(S)[b] = KidsOf(b) /\ Restored(S)[b] = FilesUnder(b)
<1> DEFINE D == Down(b)
      B == C \cap D
<1>1. Sound(b) /\ b \in C /\ b.kind # "chunk"
  BY DEF Trees
<1>2. b \in D /\ Closed(D) /\ \A x \in D : Sound(x)
  BY <1>1, DownIs
<1> HIDE DEF D
<1>3. Closed(B) /\ b \in Trees(B)
  BY <1>1, <1>2 DEF Closed, Trees
<1>4. B \subseteq S /\ B \subseteq D /\ \A x \in S \cup D : Sound(x)
  BY <1>2
<1> HIDE DEF B
<1>5. Agree(S, D, b)
  BY <1>3, <1>4, Agreement
<1> QED BY <1>5 DEF Agree, KidsOf, FilesUnder, D

\* Where one finds everything below a tree.
LEMMA DownBelow ==
  ASSUME NEW b, Sound(b), b.kind # "chunk"
  PROVE  /\ b \in Trees(Down(b)) /\ \A x \in Down(b) : Sound(x)
         /\ IsFullTree(Down(b), FullTree(Down(b))) /\ IsRestored(Down(b), Restored(Down(b)))
         /\ IsSeq(KidsOf(b)) /\ ToSet(KidsOf(b)) \subseteq Down(b)
         /\ \A c \in Below(b) : /\ c \in Down(b)
                                /\ c.kind # "chunk" => /\ c \in Trees(Down(b))
                                                       /\ FullTree(Down(b))[c] = KidsOf(c)
                                                       /\ Restored(Down(b))[c] = FilesUnder(c)
<1> DEFINE D == Down(b)
<1>1. b \in D /\ Closed(D) /\ \A x \in D : Sound(x)
  BY DownIs
<1>2. b \in Trees(D) /\ \A c \in Below(b) : c \in D /\ (c.kind # "chunk" => c \in Trees(D))
  BY <1>1 DEF Closed, Trees
<1>3. IsFullTree(D, FullTree(D)) /\ IsRestored(D, Restored(D)) /\ IsSeq(FullTree(D)[b])
  BY <1>1, <1>2, FullTreeIs, RestoredIs
<1>4. ToSet(FullTree(D)[b]) \subseteq D
  BY <1>1, <1>2, FullStays
<1>5. ASSUME NEW c \in Below(b), c.kind # "chunk"
      PROVE  FullTree(D)[c] = KidsOf(c) /\ Restored(D)[c] = FilesUnder(c)
  <2>1. c \in Trees(D)
    BY <1>2, <1>5
  <2> HIDE DEF D
  <2> QED BY <1>1, <2>1, ReadAnywhere
<1> QED BY <1>1, <1>2, <1>3, <1>4, <1>5 DEF KidsOf

\* The children of a tree are its own and those of its sibling.
LEMMA KidsAre ==
  ASSUME NEW b, Sound(b), b.kind # "chunk"
  PROVE  /\ IsSeq(KidsOf(b))
         /\ b.next = <<>> => KidsOf(b) = b.children
         /\ b.next # <<>> => KidsOf(b) = b.children \o KidsOf(b.next[1])
<1> DEFINE D == Down(b)
      F == FullTree(D)
<1>1. /\ b \in Trees(D) /\ IsFullTree(D, F) /\ IsSeq(KidsOf(b)) /\ Tidy(b)
      /\ \A c \in Below(b) : c.kind # "chunk" => c \in Trees(D) /\ F[c] = KidsOf(c)
  BY DownBelow, RankFalls
<1>2. KidsOf(b) = F[b]
  BY DEF KidsOf
<1> HIDE DEF D, F
<1>3. CASE b.next = <<>>
  <2>1. F[b] = b.children \o <<>>
    BY <1>1, <1>3 DEF IsFullTree
  <2>2. b.children \o <<>> = b.children
    BY <1>1 DEF Tidy, IsSeq
  <2> QED BY <1>1, <1>2, <1>3, <2>1, <2>2
<1>4. CASE b.next # <<>>
  <2> DEFINE x == b.next[1]
  <2>1. x \in Trees(D) /\ F[x] = KidsOf(x)
    BY <1>1, <1>4, NextIsBelow
  <2> HIDE DEF x
  <2>2. F[b] = b.children \o F[x]
    BY <1>1, <1>4, <2>1 DEF IsFullTree, x
  <2> QED BY <1>1, <1>2, <1>4, <2>1, <2>2 DEF x
<1> QED BY <1>3, <1>4

\* The files of a directory are those of what is below it, and a file's are itself.
LEMMA FilesAre ==
  ASSUME NEW b, Sound(b), b.kind # "chunk"
  PROVE  /\ b.kind = "dir" => FilesUnder(b) = UNION {FilesUnder(c) : c \in Below(b)}
         /\ b.kind = "file" => FilesUnder(b) = {FileOf(b, KidsOf(b))}
<1> DEFINE D == Down(b)
      L == Restored(D)
<1>1. /\ b \in Trees(D) /\ IsRestored(D, L) /\ ToSet(KidsOf(b)) \subseteq D /\ Tidy(b)
      /\ \A c \in Below(b) : c.kind # "chunk" => c \in Trees(D) /\ L[c] = FilesUnder(c)
  BY DownBelow, RankFalls
<1>2. FilesUnder(b) = L[b] /\ KidsOf(b) = FullTree(D)[b]
  BY DEF FilesUnder, KidsOf
<1> HIDE DEF D, L
<1>3. CASE b.kind = "dir"
  <2>1. \A c \in Below(b) : c.kind # "chunk"
    <3>1. \A c \in ToSet(b.next) : c.kind = b.kind
      <4>1. CASE b.next = <<>>
        BY <4>1, ToSetSmall
      <4>2. ASSUME NEW x, b.next = <<x>>, x.kind = b.kind PROVE \A c \in ToSet(b.next) : c.kind = b.kind
        BY <4>2, ToSetSmall
      <4> QED BY <1>1, <4>1, <4>2 DEF Tidy
    <3> QED BY <1>1, <1>3, <3>1 DEF Tidy, Below
  <2>2. L[b] = UNION {L[c] : c \in Below(b) \cap Trees(D)}
    BY <1>1, <1>3 DEF IsRestored
  <2>3. {L[c] : c \in Below(b) \cap Trees(D)} = {FilesUnder(c) : c \in Below(b)}
    BY <1>1, <2>1
  <2> QED BY <1>2, <1>3, <2>2, <2>3
<1>4. CASE b.kind = "file"
  <2>1. L[b] = IF ToSet(FullTree(D)[b]) \subseteq D THEN {FileOf(b, FullTree(D)[b])} ELSE {}
    BY <1>1, <1>4 DEF IsRestored
  <2> QED BY <1>1, <1>2, <1>4, <2>1
<1> QED BY <1>3, <1>4

\* The files of a directory, sibling for sibling.
LEMMA FilesOfKids ==
  ASSUME NEW b, Sound(b), b.kind = "dir"
  PROVE  FilesUnder(b) = UNION {FilesUnder(c) : c \in ToSet(KidsOf(b))}
<1> DEFINE D == {x \in Down(b) : x.kind = "dir"}
      P == {x \in D : FilesUnder(x) = UNION {FilesUnder(c) : c \in ToSet(KidsOf(x))}}
<1>1. b \in D /\ \A x \in D : Sound(x) /\ Below(x) \subseteq Down(b)
  BY DownIs DEF Closed
<1>2. ASSUME NEW x \in D, \A c \in Below(x) : c \in D => c \in P PROVE x \in P
  <2>1. Sound(x) /\ x.kind = "dir" /\ Tidy(x)
    BY <1>1, RankFalls
  <2>2. FilesUnder(x) = UNION {FilesUnder(c) : c \in Below(x)}
    BY <2>1, FilesAre
  <2>3. CASE x.next = <<>>
    <3>1. Below(x) = ToSet(KidsOf(x))
      BY <2>1, <2>3, KidsAre, ToSetSmall DEF Below
    <3> QED BY <2>2, <3>1
  <2>4. CASE x.next # <<>>
    <3> DEFINE y == x.next[1]
    <3>1. y \in Below(x) /\ y.kind = "dir" /\ x.next = <<y>>
      BY <2>1, <2>4, NextIsBelow
    <3>2. y \in P /\ Sound(y)
      BY <1>1, <1>2, <3>1
    <3>3. KidsOf(x) = x.children \o KidsOf(y) /\ IsSeq(KidsOf(y))
      BY <2>1, <2>4, <3>1, <3>2, KidsAre
    <3> HIDE DEF y
    <3>4. ToSet(KidsOf(x)) = ToSet(x.children) \cup ToSet(KidsOf(y))
      BY <2>1, <3>3, ConcatSet DEF Tidy
    <3>5. Below(x) = ToSet(x.children) \cup {y}
      BY <3>1, ToSetSmall DEF Below
    <3>6. FilesUnder(y) = UNION {FilesUnder(c) : c \in ToSet(KidsOf(y))}
      BY <3>2
    <3> QED BY <2>2, <3>4, <3>5, <3>6
  <2> QED BY <2>3, <2>4
<1>3. D \subseteq P
  <2> HIDE DEF D, P
  <2> QED BY <1>1, <1>2, BlobInduction
<1> QED BY <1>1, <1>3

\* Where everything below a blob can be found it is complete ...
LEMMA ClosedIsComplete ==
  ASSUME NEW S, \A b \in S : Sound(b), NEW C, C \subseteq S, Closed(C)
  PROVE  \A b \in C : Complete(S)[b]
<1> DEFINE P == {b \in C : Complete(S)[b]}
<1>1. IsComplete(S, Complete(S))
  BY CompleteIs
<1>2. ASSUME NEW b \in C, \A c \in Below(b) : c \in C => c \in P PROVE b \in P
  <2>1. b \in S /\ \A c \in Below(b) : c \in S /\ Complete(S)[c]
    BY <1>2 DEF Closed
  <2>2. Complete(S)[b] = \A c \in Below(b) : c \in S /\ Complete(S)[c]
    BY <1>1, <2>1, Zenon DEF IsComplete
  <2> QED BY <2>1, <2>2
<1>3. C \subseteq P
  <2> HIDE DEF P
  <2> QED BY <1>2, BlobInduction
<1> QED BY <1>3

\* ... and unpack leaves what the tree stands for.
LEMMA ClosedUnpacks ==
  ASSUME NEW S, \A b \in S : Sound(b), NEW C, C \subseteq S, Closed(C), NEW root \in Trees(C)
  PROVE  Unpack(root, S) = [ok |-> TRUE, files |-> FilesUnder(root)]
<1> DEFINE R == Trees(C)
      P == {b \in R : Unpacks(S)[b]}
<1>1. IsUnpacks(S, Unpacks(S))
  BY UnpacksIs
<1>2. ASSUME NEW b \in R, \A c \in Below(b) : c \in R => c \in P PROVE b \in P
  <2>1. b \in Trees(S) /\ Tidy(b) /\ Below(b) \subseteq C
    BY RankFalls DEF Trees, Closed
  <2>2. b.next = <<>> \/ (b.next[1] \in Trees(S) /\ Unpacks(S)[b.next[1]])
    <3>1. SUFFICES ASSUME b.next # <<>> PROVE b.next[1] \in Trees(S) /\ Unpacks(S)[b.next[1]]
      OBVIOUS
    <3>2. b.next[1] \in Below(b) /\ b.next[1].kind = b.kind
      BY <2>1, <3>1, NextIsBelow
    <3>3. b.next[1] \in R /\ b.next[1] \in Trees(S)
      BY <2>1, <3>2 DEF Trees
    <3> QED BY <1>2, <3>2, <3>3
  <2>3. b.kind = "dir" => \A c \in ToSet(b.children) : c \in Trees(S) /\ Unpacks(S)[c]
    <3>1. ASSUME b.kind = "dir", NEW c \in ToSet(b.children) PROVE c \in Trees(S) /\ Unpacks(S)[c]
      <4>1. c \in R /\ c \in Trees(S) /\ c \in Below(b)
        BY <2>1, <3>1 DEF Tidy, Trees, Below
      <4> QED BY <1>2, <4>1
    <3> QED BY <3>1
  <2>4. Unpacks(S)[b] =
          (/\ b.next = <<>> \/ (b.next[1] \in Trees(S) /\ Unpacks(S)[b.next[1]])
           /\ b.kind = "dir" => \A c \in ToSet(b.children) : c \in Trees(S) /\ Unpacks(S)[c])
    BY <1>1, <2>1, Zenon DEF IsUnpacks
  <2> QED BY <2>2, <2>3, <2>4
<1>3. R \subseteq P
  <2>1. \A b \in R : Sound(b)
    BY DEF Trees
  <2> HIDE DEF P, R
  <2> QED BY <1>2, <2>1, BlobInduction
<1>4. root \in Trees(S) /\ Unpacks(S)[root]
  BY <1>3 DEF Trees
<1>5. Restored(S)[root] = FilesUnder(root)
  BY ReadAnywhere
<1> QED BY <1>4, <1>5 DEF Unpack

\* What a tree is made of.
Fits(kind, kids) ==
  /\ IsSeq(kids) /\ \A c \in ToSet(kids) : Sound(c)
  /\ \/ kind = "file" /\ \A c \in ToSet(kids) : c.kind = "chunk"
     \/ kind = "dir" /\ \A c \in ToSet(kids) : c.kind # "chunk"

\* A split tree is one again when it is read.
SplitRight(kind, name, kids, s) ==
  /\ IsSeq(s) /\ s # <<>> /\ s[1] \in ToSet(s)
  /\ \A b \in ToSet(s) : Sound(b) /\ b.kind = kind /\ b.name = name
  /\ KidsOf(s[1]) = kids

LEMMA SplitTreeIsRight ==
  ASSUME NEW kind, NEW name, NEW kids, Fits(kind, kids)
  PROVE  SplitRight(kind, name, kids, SplitTree(kind, name, kids))
<1> DEFINE s == SplitTree(kind, name, kids)
      n == Pieces(kids)
      M == MaxChildren
      Good(i) == Sound(s[i]) /\ KidsOf(s[i]) = SubSeq(kids, (i - 1) * M + 1, Len(kids))
      T == {m \in Nat : m < n => Good(n - m)}
<1>1. IsSeq(kids) /\ \A c \in ToSet(kids) : Sound(c)
  BY DEF Fits
<1>2. IsSplit(kind, name, kids, s)
  BY <1>1, SplitTreeParts
<1>3. IsSeq(s) /\ s # <<>>
  BY <1>1, SplitTreeTypes DEF IsBlobSeq
<1> HIDE DEF s
<1>4. n \in Nat \ {0} /\ M \in Nat \ {0} /\ Len(kids) \in Nat /\ DOMAIN s = 1..n
  BY <1>1, <1>2, PieceBounds DEF IsSplit
<1>5. ASSUME NEW i \in 1..n
      PROVE  /\ s[i].kind = kind /\ s[i].name = name /\ s[i].children = Piece(kids, i)
             /\ s[i].next = IF i = n THEN <<>> ELSE <<s[i + 1]>>
  BY <1>2 DEF IsSplit, Blob
<1>6. ASSUME NEW i \in 1..n, i # n => Sound(s[i + 1])
      PROVE  Sound(s[i])
  <2>1. IsSeq(s[i].children) /\ ToSet(s[i].children) \subseteq ToSet(kids)
    BY <1>1, <1>5, PieceIsPart
  <2>2. s[i].next = <<>> \/ (s[i].next = <<s[i + 1]>> /\ s[i + 1].kind = s[i].kind)
    <3>1. i # n => i + 1 \in 1..n
      BY <1>4
    <3> QED BY <1>5, <3>1
  <2>3. Tidy(s[i])
    <3>1. s[i].next = <<>> \/ \E x : s[i].next = <<x>> /\ x.kind = s[i].kind
      BY <2>2
    <3> QED BY <1>5, <2>1, <3>1 DEF Tidy, Fits
  <2>4. \A c \in Below(s[i]) : Sound(c)
    <3>1. \A c \in ToSet(s[i].next) : Sound(c)
      BY <1>5, <1>6, ToSetSmall
    <3> QED BY <1>1, <2>1, <3>1 DEF Below
  <2> QED BY <2>3, <2>4, SoundAbove
<1>7. kind # "chunk"
  BY DEF Fits
<1>8. 0 \in T
  <2>1. n - 0 = n /\ n \in 1..n
    BY <1>4
  <2>2. Sound(s[n]) /\ s[n].kind # "chunk" /\ s[n].next = <<>>
    BY <1>5, <1>6, <1>7, <2>1
  <2>3. KidsOf(s[n]) = Piece(kids, n)
    BY <1>5, <2>1, <2>2, KidsAre
  <2> QED BY <2>1, <2>2, <2>3 DEF Piece
<1>9. ASSUME NEW m \in Nat, m \in T PROVE m + 1 \in T
  <2> SUFFICES ASSUME m + 1 < n PROVE Good(n - (m + 1))
    OBVIOUS
  <2> DEFINE i == n - (m + 1)
      a == (i - 1) * M
      b == i * M
  <2>1. i \in 1..n /\ i # n /\ i + 1 = n - m /\ m < n /\ (i + 1) - 1 = i
    BY <1>4
  <2>2. a \in Nat /\ b = a + M /\ b <= Len(kids)
    BY <1>1, <2>1, PieceBounds
  <2>3. Sound(s[i + 1]) /\ KidsOf(s[i + 1]) = SubSeq(kids, b + 1, Len(kids))
    BY <1>9, <2>1
  <2>4. Sound(s[i]) /\ s[i].kind # "chunk" /\ s[i].next = <<s[i + 1]>> /\ s[i].children = Piece(kids, i)
    BY <1>5, <1>6, <1>7, <2>1, <2>3
  <2>5. s[i].next # <<>> /\ s[i].next[1] = s[i + 1]
    BY <2>4
  <2>6. KidsOf(s[i]) = Piece(kids, i) \o KidsOf(s[i + 1])
    BY <2>4, <2>5, KidsAre
  <2>7. Piece(kids, i) = SubSeq(kids, a + 1, b)
    BY <2>1 DEF Piece
  <2> HIDE DEF i, a, b
  <2>8. SubSeq(kids, a + 1, b) \o SubSeq(kids, b + 1, Len(kids)) = SubSeq(kids, a + 1, Len(kids))
    <3>1. /\ kids \in Seq(ToSet(kids)) /\ b \in Nat /\ a <= b
          /\ a + 1 \in 1..(Len(kids) + 1) /\ b \in ((a + 1) - 1)..Len(kids)
          /\ Len(kids) \in b..Len(kids)
      BY <1>1, <1>4, <2>2 DEF IsSeq
    <3> QED BY <3>1, ConcatAdjacentSubSeq
  <2> QED BY <2>3, <2>4, <2>6, <2>7, <2>8 DEF i, a
<1>10. Nat \subseteq T
  <2> HIDE DEF T
  <2> QED BY <1>8, <1>9, Induction
<1>11. ASSUME NEW i \in 1..n PROVE Good(i)
  <2>1. n - i \in Nat /\ n - i < n /\ n - (n - i) = i
    BY <1>4
  <2> HIDE DEF Good
  <2> QED BY <1>10, <2>1
<1>12. KidsOf(s[1]) = kids
  <2>1. 1 \in 1..n /\ (1 - 1) * M = 0
    BY <1>4
  <2>2. KidsOf(s[1]) = SubSeq(kids, (1 - 1) * M + 1, Len(kids))
    BY <1>11, <2>1
  <2>3. KidsOf(s[1]) = SubSeq(kids, 1, Len(kids))
    BY <2>1, <2>2
  <2>4. SubSeq(kids, 1, Len(kids)) = kids
    BY <1>1 DEF IsSeq
  <2> QED BY <2>3, <2>4
<1>13. \A x \in ToSet(s) : Sound(x) /\ x.kind = kind /\ x.name = name
  BY <1>4, <1>5, <1>11 DEF ToSet
<1>14. s[1] \in ToSet(s)
  BY <1>4 DEF ToSet
<1> QED BY <1>3, <1>12, <1>13, <1>14 DEF SplitRight, s

\* The tree of a directory stands for the files of its children.
LEMMA DirectoryTree ==
  ASSUME NEW name, NEW kids, Fits("dir", kids)
  PROVE  LET tree == SplitTree("dir", name, kids)[1]
         IN /\ Sound(tree) /\ tree.kind = "dir"
            /\ FilesUnder(tree) = UNION {FilesUnder(c) : c \in ToSet(kids)}
<1> DEFINE s == SplitTree("dir", name, kids)
<1>1. SplitRight("dir", name, kids, s)
  BY SplitTreeIsRight
<1> HIDE DEF s
<1>2. Sound(s[1]) /\ s[1].kind = "dir" /\ KidsOf(s[1]) = kids
  BY <1>1 DEF SplitRight
<1>3. FilesUnder(s[1]) = UNION {FilesUnder(c) : c \in ToSet(kids)}
  BY <1>2, FilesOfKids
<1> QED BY <1>2, <1>3 DEF s

\* What a file is packed as can be read, and is the file.
FileIsRight(f) ==
  /\ \A b \in ToSet(FileBlobs(f)) : Sound(b)
  /\ Sound(FileTree(f)) /\ FileTree(f).kind = "file"
  /\ FilesUnder(FileTree(f)) = {<<f, content[f]>>}

LEMMA FilesAreRight == content \in Contents => \A f \in Files : FileIsRight(f)
<1> SUFFICES ASSUME content \in Contents, NEW f \in Files PROVE FileIsRight(f)
  OBVIOUS
<1> DEFINE X == {Chunk(content[f][i]) : i \in DOMAIN content[f]}
      chunks == [i \in DOMAIN content[f] |-> Chunk(content[f][i])]
      tree == SplitTree("file", f, chunks)
<1>1. /\ DOMAIN content[f] = 1..Len(content[f]) /\ Len(content[f]) \in Nat
      /\ content[f] = [i \in DOMAIN content[f] |-> content[f][i]]
  BY TreeAssumption DEF IsSeq
<1>2. IsSeq(chunks) /\ ToSet(chunks) \subseteq X
  <2>1. \A i \in DOMAIN content[f] : Chunk(content[f][i]) \in X
    OBVIOUS
  <2> HIDE DEF X
  <2>2. chunks \in Seq(X)
    BY <1>1, <2>1
  <2> HIDE DEF chunks
  <2> QED BY <2>2, SeqOwn
<1>3. ASSUME NEW b \in X PROVE Sound(b) /\ b.kind = "chunk"
  <2>1. b.kind = "chunk" /\ b.children = <<>> /\ b.next = <<>>
    BY DEF Chunk, Blob
  <2> HIDE DEF X
  <2>2. Tidy(b)
    BY <2>1, EmptyIsBlobSeq DEF Tidy, IsBlobSeq
  <2>3. Below(b) = {}
    BY <2>1, ToSetSmall DEF Below
  <2> QED BY <2>1, <2>2, <2>3, SoundAbove
<1>4. /\ DOMAIN chunks = DOMAIN content[f]
      /\ \A i \in DOMAIN content[f] : chunks[i].name = content[f][i]
  BY DEF Chunk, Blob
<1>5. FileBlobs(f) = chunks \o tree /\ FileTree(f) = tree[1]
  BY DEF FileBlobs, FileTree
<1> HIDE DEF X, chunks
<1>6. SplitRight("file", f, chunks, tree)
  <2>1. Fits("file", chunks)
    BY <1>2, <1>3 DEF Fits
  <2> QED BY <2>1, SplitTreeIsRight
<1> HIDE DEF tree
<1>7. \A b \in ToSet(FileBlobs(f)) : Sound(b)
  BY <1>2, <1>3, <1>5, <1>6, ConcatSet DEF SplitRight
<1>8. Sound(tree[1]) /\ tree[1].kind = "file" /\ tree[1].name = f /\ KidsOf(tree[1]) = chunks
  BY <1>6 DEF SplitRight
<1>9. FileOf(tree[1], chunks) = <<f, content[f]>>
  <2>1. [i \in DOMAIN chunks |-> chunks[i].name] = content[f]
    BY <1>1, <1>4
  <2> QED BY <1>8, <2>1 DEF FileOf
<1>10. FilesUnder(tree[1]) = {<<f, content[f]>>}
  BY <1>8, <1>9, FilesAre
<1> QED BY <1>5, <1>7, <1>8, <1>10 DEF FileIsRight

-----------------------------------------------------------------------------
(* The order in which directories are packed.                              *)

\* Every directory but the root is packed before the one it is in.
ParentsFollow(s) ==
  \A i \in 1..Len(s) :
    i = Len(s) \/ \E j \in 1..Len(s) : i < j /\ s[i] \in ToSet(Subdirs[s[j]])

Orderly(q) ==
  /\ IsInjective(q.browsing) /\ IsInjective(q.processing)
  /\ ToSet(q.browsing) \subseteq ToSet(q.processing)
  /\ \A d \in ToSet(q.browsing) : ToSet(Subdirs[d]) \cap ToSet(q.processing) = {}
  /\ ParentsFollow(q.processing)

LEMMA ConcatInjective ==
  ASSUME NEW s, NEW t, IsSeq(s), IsSeq(t), IsInjective(s), IsInjective(t),
         ToSet(s) \cap ToSet(t) = {}
  PROVE  IsInjective(s \o t)
<1> DEFINE Y == ToSet(s) \cup ToSet(t)
      all == s \o t
<1>1. /\ s \in Seq(Y) /\ t \in Seq(Y) /\ Len(s) \in Nat /\ Len(t) \in Nat
      /\ DOMAIN s = 1..Len(s) /\ DOMAIN t = 1..Len(t)
  BY DEF IsSeq
<1>2. DOMAIN all = 1..(Len(s) + Len(t))
  BY <1>1
<1>3. /\ \A i \in 1..Len(s) : all[i] = s[i]
      /\ \A i \in 1..(Len(s) + Len(t)) : i > Len(s) => all[i] = t[i - Len(s)]
  BY <1>1
<1> HIDE DEF all
<1>4. ASSUME NEW i \in DOMAIN all, NEW j \in DOMAIN all, all[i] = all[j] PROVE i = j
  <2>1. \A k \in DOMAIN all : k > Len(s) => k - Len(s) \in DOMAIN t /\ all[k] \in ToSet(t)
    BY <1>1, <1>2, <1>3 DEF ToSet
  <2>2. \A k \in DOMAIN all : k <= Len(s) => k \in DOMAIN s /\ all[k] \in ToSet(s)
    BY <1>1, <1>2, <1>3 DEF ToSet
  <2>3. CASE i <= Len(s) /\ j <= Len(s)
    BY <1>2, <1>3, <1>4, <2>2, <2>3 DEF IsInjective
  <2>4. CASE i > Len(s) /\ j > Len(s)
    <3>1. t[i - Len(s)] = t[j - Len(s)] /\ i - Len(s) \in DOMAIN t /\ j - Len(s) \in DOMAIN t
      BY <1>2, <1>3, <1>4, <2>1, <2>4
    <3>2. i - Len(s) = j - Len(s)
      BY <3>1 DEF IsInjective
    <3> QED BY <1>1, <1>2, <3>2
  <2>5. CASE (i <= Len(s)) # (j <= Len(s))
    BY <1>1, <1>2, <1>4, <2>1, <2>2, <2>5
  <2> QED BY <2>3, <2>4, <2>5, <1>1, <1>2
<1> QED BY <1>4 DEF IsInjective, all

LEMMA ReverseSame ==
  ASSUME NEW s, IsSeq(s), IsInjective(s)
  PROVE  IsSeq(Reverse(s)) /\ IsInjective(Reverse(s)) /\ ToSet(Reverse(s)) = ToSet(s)
<1> DEFINE r == Reverse(s)
      X == ToSet(s)
<1>1. s \in Seq(X) /\ Len(s) \in Nat /\ DOMAIN s = 1..Len(s) /\ \A i \in 1..Len(s) : s[i] \in X
  BY DEF IsSeq
<1>2. r = [i \in 1..Len(s) |-> s[(Len(s) - i) + 1]]
  BY DEF Reverse
<1>3. \A i \in 1..Len(s) : (Len(s) - i) + 1 \in 1..Len(s) /\ (Len(s) - ((Len(s) - i) + 1)) + 1 = i
  BY <1>1
<1> HIDE DEF X
<1>4. r \in Seq(X)
  BY <1>1, <1>2, <1>3
<1>5. DOMAIN r = 1..Len(s) /\ \A i \in 1..Len(s) : r[i] = s[(Len(s) - i) + 1]
  BY <1>2
<1> HIDE DEF r
<1>6. IsSeq(r) /\ ToSet(r) \subseteq X
  BY <1>4, SeqOwn
<1>7. X \subseteq ToSet(r)
  <2>1. ASSUME NEW i \in 1..Len(s) PROVE s[i] \in ToSet(r)
    <3>1. r[(Len(s) - i) + 1] = s[i]
      BY <1>3, <1>5
    <3> QED BY <1>3, <1>5, <3>1 DEF ToSet
  <2> QED BY <1>1, <2>1 DEF ToSet, X
<1>8. IsInjective(r)
  <2>1. ASSUME NEW i \in DOMAIN r, NEW j \in DOMAIN r, r[i] = r[j] PROVE i = j
    <3>1. (Len(s) - i) + 1 = (Len(s) - j) + 1
      BY <1>1, <1>3, <1>5, <2>1 DEF IsInjective
    <3> QED BY <1>1, <1>5, <3>1
  <2> QED BY <2>1 DEF IsInjective
<1> QED BY <1>6, <1>7, <1>8 DEF r, X

LEMMA BrowseNextOrders ==
  ASSUME NEW q \in Queues, Orderly(q)
  PROVE  Orderly(BrowseNext(q))
<1>1. CASE q.browsing = <<>>
  BY <1>1 DEF BrowseNext
<1>2. CASE q.browsing # <<>>
  <2> DEFINE x == Head(q.browsing)
        found == Reverse(Subdirs[x])
        left == Tail(q.browsing)
        done == q.processing
        new == found \o done
        more == found \o left
  <2>1. /\ q.browsing \in Seq(Dirs) /\ done \in Seq(Dirs) /\ done # <<>> /\ done[Len(done)] = Root
        /\ IsSeq(q.browsing) /\ IsSeq(done)
    <3>1. q.browsing \in Seq(Dirs) /\ done \in Seq(Dirs) /\ done # <<>> /\ done[Len(done)] = Root
      BY DEF Queues
    <3> HIDE DEF done
    <3> QED BY <3>1, SeqOwn
  <2>2. /\ x \in Dirs /\ x \in ToSet(q.browsing) /\ IsSeq(left)
        /\ ToSet(q.browsing) = {x} \cup ToSet(left)
        /\ \A i \in DOMAIN left : i + 1 \in DOMAIN q.browsing /\ left[i] = q.browsing[i + 1]
    BY <1>2, <2>1, TailSeq
  <2>3. IsInjective(left) /\ x \notin ToSet(left)
    <3>1. DOMAIN left \subseteq Nat \ {0} /\ x = q.browsing[1] /\ 1 \in DOMAIN q.browsing
      BY <1>2, <2>1, <2>2 DEF IsSeq
    <3>2. \A i, j \in DOMAIN q.browsing : q.browsing[i] = q.browsing[j] => i = j
      BY DEF Orderly, IsInjective
    <3> HIDE DEF left, x
    <3>3. ASSUME NEW i \in DOMAIN left, NEW j \in DOMAIN left, left[i] = left[j] PROVE i = j
      <4>1. i + 1 = j + 1 /\ i \in Nat /\ j \in Nat
        BY <2>2, <3>1, <3>2, <3>3
      <4> QED BY <4>1
    <3>4. ASSUME NEW i \in DOMAIN left, left[i] = x PROVE FALSE
      BY <2>2, <3>1, <3>2, <3>4
    <3> QED BY <3>3, <3>4 DEF IsInjective, ToSet
  <2>4. /\ IsSeq(found) /\ IsInjective(found) /\ ToSet(found) = ToSet(Subdirs[x])
        /\ ToSet(Subdirs[x]) \subseteq Dirs \ {Root}
    <3>1. IsSeq(Subdirs[x]) /\ IsInjective(Subdirs[x]) /\ ToSet(Subdirs[x]) \subseteq Dirs \ {Root}
      BY <2>2, TreeAssumption, SeqOwn
    <3> QED BY <3>1, ReverseSame
  <2>5. /\ ToSet(q.browsing) \subseteq ToSet(done) /\ IsInjective(done)
        /\ \A d \in ToSet(q.browsing) : ToSet(Subdirs[d]) \cap ToSet(done) = {}
        /\ ParentsFollow(done)
    BY DEF Orderly
  <2>6. BrowseNext(q) = [browsing |-> more, processing |-> new]
    BY <1>2 DEF BrowseNext
  <2> HIDE DEF x, found, left, done
  <2>7. ToSet(found) \cap ToSet(done) = {} /\ ToSet(left) \subseteq ToSet(done)
    BY <2>2, <2>4, <2>5
  <2>8. /\ IsSeq(new) /\ ToSet(new) = ToSet(found) \cup ToSet(done)
        /\ IsSeq(more) /\ ToSet(more) = ToSet(found) \cup ToSet(left)
    BY <2>1, <2>2, <2>4, ConcatSet
  <2>9. IsInjective(new) /\ IsInjective(more)
    BY <2>1, <2>2, <2>3, <2>4, <2>5, <2>7, ConcatInjective
  <2>10. /\ Len(new) = Len(found) + Len(done) /\ Len(found) \in Nat /\ Len(done) \in Nat \ {0}
         /\ DOMAIN found = 1..Len(found) /\ DOMAIN done = 1..Len(done)
         /\ \A i \in 1..Len(found) : new[i] = found[i]
         /\ \A i \in 1..Len(done) : new[Len(found) + i] = done[i]
    <3> DEFINE Y == ToSet(found) \cup ToSet(done)
    <3>1. found \in Seq(Y) /\ done \in Seq(Y) /\ Len(done) # 0
      BY <2>1, <2>4 DEF IsSeq
    <3> QED BY <3>1
  <2> HIDE DEF new, more
  <2>11. ASSUME NEW e \in ToSet(done), e # Root
         PROVE  \E d \in ToSet(done) : e \in ToSet(Subdirs[d])
    <3>1. PICK i \in 1..Len(done) : e = done[i]
      BY <2>10, <2>11 DEF ToSet
    <3>2. i # Len(done)
      BY <2>1, <2>11, <3>1
    <3>3. PICK j \in 1..Len(done) : done[i] \in ToSet(Subdirs[done[j]])
      BY <2>5, <3>2 DEF ParentsFollow
    <3> QED BY <2>10, <3>1, <3>3 DEF ToSet
  <2>12. ASSUME NEW d \in ToSet(more) PROVE ToSet(Subdirs[d]) \cap ToSet(new) = {}
    <3>1. d \in Dirs /\ ToSet(done) \subseteq Dirs
      <4>1. ToSet(done) \subseteq Dirs
        BY <2>1, SeqOwn
      <4> QED BY <2>4, <2>7, <2>8, <2>12, <4>1
    <3>2. d # x
      BY <2>2, <2>3, <2>5, <2>7, <2>8, <2>12
    <3>3. ToSet(Subdirs[d]) \cap ToSet(found) = {}
      BY <2>2, <2>4, <3>1, <3>2, TreeAssumption
    <3>4. ToSet(Subdirs[d]) \cap ToSet(done) = {}
      <4>1. CASE d \in ToSet(left)
        BY <2>2, <2>5, <4>1
      <4>2. ASSUME d \notin ToSet(done), NEW e \in ToSet(Subdirs[d]), e \in ToSet(done) PROVE FALSE
        <5>1. e # Root
          <6>1. Subdirs[d] \in Seq(Dirs \ {Root})
            BY <3>1, TreeAssumption
          <6> QED BY <4>2, <6>1 DEF ToSet
        <5>2. PICK c \in ToSet(done) : e \in ToSet(Subdirs[c])
          BY <2>11, <4>2, <5>1
        <5>3. c # d /\ c \in Dirs
          BY <3>1, <4>2, <5>2
        <5> QED BY <3>1, <4>2, <5>2, <5>3, TreeAssumption
      <4>3. d \in ToSet(left) \/ d \notin ToSet(done)
        BY <2>7, <2>8, <2>12
      <4> QED BY <4>1, <4>2, <4>3
    <3> QED BY <2>8, <3>3, <3>4
  <2>13. ParentsFollow(new)
    <3>1. ASSUME NEW i \in 1..Len(new), i # Len(new)
          PROVE  \E j \in 1..Len(new) : i < j /\ new[i] \in ToSet(Subdirs[new[j]])
      <4>1. CASE i <= Len(found)
        <5>1. new[i] \in ToSet(Subdirs[x])
          BY <2>4, <2>10, <3>1, <4>1 DEF ToSet
        <5>2. PICK k \in 1..Len(done) : x = done[k]
          <6>1. x \in ToSet(done)
            BY <2>2, <2>5
          <6> QED BY <2>10, <6>1 DEF ToSet
        <5>3. Len(found) + k \in 1..Len(new) /\ i < Len(found) + k /\ new[Len(found) + k] = x
          BY <2>10, <3>1, <4>1, <5>2
        <5> QED BY <5>1, <5>3
      <4>2. CASE i > Len(found)
        <5> DEFINE k == i - Len(found)
        <5>1. k \in 1..Len(done) /\ k # Len(done) /\ i = Len(found) + k
          BY <2>10, <3>1, <4>2
        <5> HIDE DEF k
        <5>2. PICK j \in 1..Len(done) : k < j /\ done[k] \in ToSet(Subdirs[done[j]])
          BY <2>5, <5>1 DEF ParentsFollow
        <5>3. Len(found) + j \in 1..Len(new) /\ i < Len(found) + j
          BY <2>10, <5>1, <5>2
        <5>4. new[i] = done[k] /\ new[Len(found) + j] = done[j]
          BY <2>10, <5>1
        <5> QED BY <5>2, <5>3, <5>4
      <4> QED BY <2>10, <3>1, <4>1, <4>2
    <3> QED BY <3>1 DEF ParentsFollow
  <2>14. ToSet(more) \subseteq ToSet(new)
    BY <2>7, <2>8
  <2> QED BY <2>6, <2>9, <2>12, <2>13, <2>14 DEF Orderly
<1> QED BY <1>1, <1>2

\* Every directory is in the queue of the walker once, before the one it is in.
LEMMA QueueOrder == IsInjective(ProcessingQueue) /\ ParentsFollow(ProcessingQueue)
<1> DEFINE T == {n \in Nat : Orderly(Browse[n])}
<1>1. 0 \in T
  <2> DEFINE s == <<Root>>
  <2>1. DOMAIN s = {1} /\ Len(s) = 1 /\ s[1] = Root
    <3>1. DOMAIN s = 1..1
      OBVIOUS
    <3> QED BY <3>1
  <2>2. ToSet(s) = {Root}
    BY ToSetSmall
  <2> HIDE DEF s
  <2>3. IsInjective(s) /\ ParentsFollow(s)
    BY <2>1 DEF IsInjective, ParentsFollow
  <2>4. ToSet(Subdirs[Root]) \cap ToSet(s) = {}
    <3>1. Subdirs[Root] \in Seq(Dirs \ {Root})
      BY TreeAssumption
    <3> QED BY <2>2, <3>1 DEF ToSet
  <2>5. Browse[0].browsing = s /\ Browse[0].processing = s
    BY BrowseSteps DEF s
  <2> QED BY <2>2, <2>3, <2>4, <2>5 DEF Orderly
<1>2. ASSUME NEW n \in Nat, n \in T PROVE n + 1 \in T
  BY <1>2, BrowseSteps, BrowseTypes, BrowseNextOrders DEF BrowseStep
<1>3. Nat \subseteq T
  <2> HIDE DEF T
  <2> QED BY <1>1, <1>2, Induction
<1>4. Cardinality(Dirs) \in Nat
  BY TreeAssumption, FS_CardinalityType
<1> QED BY <1>3, <1>4 DEF ProcessingQueue, Orderly

=============================================================================
