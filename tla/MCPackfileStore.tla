--------------------------- MODULE MCPackfileStore ---------------------------
(* An instance of PackfileStore for TLC: a directory that holds nothing but  *)
(* a directory of two files, which share a chunk.                            *)
EXTENDS PackfileStore

CONSTANTS f1, f2, dir, sub, a, b, p1, p2

MCSubdirs == dir :> <<sub>> @@ sub :> <<>>
MCFilesOf == dir :> <<>> @@ sub :> <<f1, f2>>
MCContents == {f1 :> <<a, b>> @@ f2 :> <<a>>, f1 :> <<a, b>> @@ f2 :> <<b>>}
MCPeers == {p1, p2}
Alike == Permutations(MCPeers)
=============================================================================
