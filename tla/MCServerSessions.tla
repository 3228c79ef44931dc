--------------------------- MODULE MCServerSessions ---------------------------
(* An instance of ServerSessions for TLC.                                    *)
EXTENDS ServerSessions, TLC

CONSTANTS a, b, setupA, wsA, callA, callB

MCOwner == setupA :> a @@ wsA :> a @@ callA :> a @@ callB :> b
=============================================================================
