--------------------------- MODULE StorageLedger ---------------------------
(***************************************************************************)
(* What the matching of storage requests promises (the comments of         *)
(* backup_request.rs): two requests of different clients are matched in    *)
(* one step, both get the same amount, the smaller of what the two still   *)
(* look for.  A request may lose what is left of it, never gain.           *)
(***************************************************************************)
EXTENDS Naturals

CONSTANTS Requests, Clients, RequestSizes, MaxRequestSize

VARIABLES
  client,     \* who posts a request
  asked,      \* its size
  opened,     \* the requests that have arrived
  remaining,  \* remaining[r]: what r still looks for
  granted     \* granted[r]: what r has been given

vars == <<client, asked, opened, remaining, granted>>

Smaller(m, n) == IF m <= n THEN m ELSE n

Init ==
  /\ client \in [Requests -> Clients]
  /\ asked \in [Requests -> RequestSizes]
  /\ opened = {}
  /\ remaining = [r \in Requests |-> 0]
  /\ granted = [r \in Requests |-> 0]

\* A request arrives; one of an inadmissible size looks for nothing.
Open(r) ==
  /\ r \notin opened
  /\ opened' = opened \cup {r}
  /\ remaining' = [remaining EXCEPT
                     ![r] = IF asked[r] <= MaxRequestSize THEN asked[r] ELSE 0]
  /\ UNCHANGED <<client, asked, granted>>

Match(a, b) ==
  LET n == Smaller(remaining[a], remaining[b])
  IN /\ client[a] # client[b]
     /\ n > 0
     /\ remaining' = [q \in Requests |->
                       IF q \in {a, b} THEN remaining[q] - n ELSE remaining[q]]
     /\ granted' = [q \in Requests |->
                     IF q \in {a, b} THEN granted[q] + n ELSE granted[q]]
     /\ UNCHANGED <<client, asked, opened>>

\* The remainders of some requests are forgotten.
Forget ==
  /\ \E R \in SUBSET opened :
       remaining' = [r \in Requests |-> IF r \in R THEN 0 ELSE remaining[r]]
  /\ UNCHANGED <<client, asked, opened, granted>>

Next ==
  \/ \E r \in Requests : Open(r)
  \/ \E a, b \in Requests : Match(a, b)
  \/ Forget

Spec == Init /\ [][Next]_vars
=============================================================================
