------------------------------ MODULE MCFrontend ------------------------------
(* The five parts of the frontend, of which a visitor looks at one: the indexer's   *)
(* health (or the operator's script), a list, the chart, the token gate, a form.    *)
EXTENDS Feeds, PriceChart, TokenGate, Forms

MCBorn == <<1, 1, 2>>

Init ==
    \E part \in {"health", "list", "chart", "gate", "form"} :
        /\ \E who \in IF part = "health" THEN {"page", "script"} ELSE {UNREAD} : HealthInit(who)
        /\ \E which \in IF part = "list" THEN {"board", "ticker", "rail", "token"} ELSE {UNREAD} :
               FeedsInit(which)
        /\ ChartInit(part = "chart")
        /\ GateInit(part = "gate")
        /\ \E f \in IF part = "form" THEN {"trade", "swap by quoter", "swap by spot", "create"}
                    ELSE {UNREAD} : FormsInit(f)

Next ==
    \/ HealthNext /\ UNCHANGED <<feedVars, chartVars, gateVars, formVars>>
    \/ FeedsNext /\ UNCHANGED <<healthVars, chartVars, gateVars, formVars>>
    \/ ChartNext /\ UNCHANGED <<healthVars, feedVars, gateVars, formVars>>
    \/ GateNext /\ UNCHANGED <<healthVars, feedVars, chartVars, formVars>>
    \/ FormsNext /\ UNCHANGED <<healthVars, feedVars, chartVars, gateVars>>

Spec == Init /\ [][Next]_<<healthVars, feedVars, chartVars, gateVars, formVars>>
==============================================================================
