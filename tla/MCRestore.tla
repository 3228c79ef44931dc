------------------------------- MODULE MCRestore -------------------------------
(* An instance of Restore for TLC.                                           *)
EXTENDS Restore, TLC

CONSTANTS p1, p2

\* Both peers are fit to restore from, in a program that has made backups; or one
\* has nothing and one is a stranger, in a program that was just started.
MCWorlds == {<<{p1, p2}, p1 :> 2 @@ p2 :> 1, TRUE>>, <<{p1}, p1 :> 0 @@ p2 :> 1, FALSE>>}
=============================================================================
