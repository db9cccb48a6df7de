--------------------------- MODULE IndexerClaims ----------------------------
(* What the subgraph's schema says of its entities.                        *)
EXTENDS MCIndexer

\* subgraph/schema.graphql:170 of CurvePosition.balance: "Net tokens acquired from the
\* curve (bought - sold). Never negative."
BalanceIsBoughtMinusSold ==
    \A i \in DOMAIN indexed :
        LET positions == indexed[i].store.positions
        IN \A id \in DOMAIN positions :
             LET p == positions[id] IN p.balance = LessOrZero(p.bought, p.sold)
=============================================================================
