-------------------------------- MODULE MCRpc --------------------------------
(***************************************************************************)
(* Instances of RpcProbe: candidates that differ in how often they may be   *)
(* called, and candidates that differ in what they serve.  The chains are   *)
(* quiet, busy, and too busy for a cap.                                     *)
(***************************************************************************)
EXTENDS RpcProbe

Chains == {[logs |-> 1, blocks |-> 1000], [logs |-> 2, blocks |-> 1], [logs |-> 60, blocks |-> 1]}

Paced == [rpc : BOOLEAN, window : {0, 3, 20, 40, 60}, head : {50000}, rangeCap : {10},
          density : {[logs |-> 2, blocks |-> 1]}, horizon : {0}, switch : {1000},
          allKeep : {2}, someKeep : {4}]
Serving == [rpc : {TRUE}, window : {0}, head : {50000, 90000000}, rangeCap : {2, 10, 500, NoCap},
            density : Chains, horizon : {0, 50000}, switch : {900, 1000, 3000},
            allKeep : {2}, someKeep : {4}]
MCCandidates == Paced \cup Serving
==============================================================================
