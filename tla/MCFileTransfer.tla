--------------------------- MODULE MCFileTransfer ---------------------------
(* Small instances of FileTransfer for TLC.                                *)
EXTENDS FileTransfer, TLC

CONSTANTS f1, f2, f3, p1, p2, s1, s2

\* Room for one packfile, or for two, with every peer.
One == [p \in Peers |-> 1]
Two == [p \in Peers |-> 2]

\* Nothing distinguishes two packfiles, two peers or two slots.
Symmetry == Permutations(Files) \cup Permutations(Peers) \cup Permutations(Slots)
=============================================================================
