----------------------------- MODULE ProbeClaims -----------------------------
(* What rpc-probe.mjs says of its verdicts. *)
EXTENDS MCRpc

(* "this endpoint WORKS, we are just not allowed to talk to it this fast.    *)
(* Reporting it as unusable would discard a viable candidate"               *)
(* (rpc-probe.mjs, probeIdentity).  One lost reply is within the retries of  *)
(* every call, so an endpoint whose pace the probe can meet is never FATAL.  *)
NeverFatalWhenThrottled == (Usable /\ flakes <= 1) => found.identity # "FATAL"
==============================================================================
