----------------------------- MODULE MCAgentMarket -----------------------------
(* A demo dataset, the week before a release, the week of the release, and *)
(* a revision of it.  The instants lie before the release, in its grace,   *)
(* after it, and where the week after is due.                              *)
EXTENDS AgentMarket, TLC

CONSTANTS production, refinery, stocks

MCOverrides == 3 :> (3 * 7 * Day + 6 * Day + 12 * 60)

MCInstants == {ReleaseAt(2) - 30, ReleaseAt(2) + 10, ReleaseAt(2) + Grace,
               ReleaseAt(3) + Grace}

Observed(last, revision) ==
    production :> [w \in 0..last |-> 10 + w + revision] @@
    refinery   :> [w \in 0..last |-> 7 + w * w] @@
    stocks     :> [w \in 0..last |-> 100 - 3 * w * w]

MCFeed == <<[live |-> FALSE, obs |-> production :> (0 :> 9) @@ refinery :> << >> @@ stocks :> << >>],
            [live |-> TRUE,  obs |-> Observed(1, 0)],
            [live |-> TRUE,  obs |-> Observed(2, 0)],
            [live |-> TRUE,  obs |-> Observed(2, 5)]>>

Product(kind, series) == [kind |-> kind, series |-> series]

DeltaOfTwo == Product("delta", {production, stocks})
CrudeFlows == Product("balance", {})
StockFact  == Product("fact", {stocks})
MCProducts == {DeltaOfTwo, CrudeFlows, StockFact}

(* With a gateway: the fallback, a price of its own, and none. *)
MCTerms ==
    {[gateway |-> TRUE,  fallback |-> 5,    override |-> StockFact :> 1 @@ CrudeFlows :> None],
     [gateway |-> FALSE, fallback |-> None, override |-> StockFact :> 1]}
================================================================================
