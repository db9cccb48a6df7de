------------------------------ MODULE GateClaims ------------------------------
(* What the source says of the token gate, and the code does not do.             *)
EXTENDS TokenGate

Init == GateInit(TRUE)
Spec == Init /\ [][GateNext]_gateVars

\* A page that says it is loading waits for an answer that is still to come.
\* (useOnchainToken.ts:92-93, onchainToken.ts:35-41; resolveOnchainToken asks for the
\* graduated flag, which only the second round brings, before it asks whether the pool
\* lookup failed.)
NeverWaitsInVain ==
    Status = "loading" => round1.data = UNREAD \/ (Round2Enabled /\ round2.data = UNREAD)
==============================================================================
