--------------------------- MODULE MCSourcePipeline ----------------------------
(* Weeks 0 and 1 are out at the start; 2 is released on a Wednesday, 3 on  *)
(* a Thursday.  The instants are the start, and the last minute of the     *)
(* grace after each release and the first one that is over.                *)
EXTENDS SourcePipeline, TLC

CONSTANTS production, refinery, stocks, jet

MCOverrides == 3 :> (3 * 7 * Day + 6 * Day + 12 * 60)
MCInstants ==
    {2 * 7 * Day}
    \cup UNION {{ReleaseAt(w) + Grace - 1, ReleaseAt(w) + Grace} : w \in {2, 3}}

MCPolicies ==
    {[mode |-> "all", conditions |->
        {[series |-> stocks, field |-> "week_over_week", operator |-> "lte", threshold |-> -9],
         [series |-> production, field |-> "current", operator |-> "gt", threshold |-> 11]}],
     [mode |-> "any", conditions |->
        {[series |-> jet, field |-> "current", operator |-> "lt", threshold |-> 60],
         [series |-> refinery, field |-> "week_over_week", operator |-> "gte", threshold |-> 3],
         [series |-> stocks, field |-> "year_over_year", operator |-> "lt", threshold |-> 0]}]}

(* Steps of their own size for every series. *)
MCValue(s, w) == CASE s = production -> 10 + w
                   [] s = refinery   -> 7 + w * w
                   [] s = stocks     -> 100 - 3 * w * w
                   [] OTHER          -> 50

MCAnomalies ==
    {[series |-> production, week |-> 2, kind |-> k] : k \in {"missing", "revised", "repeated"}}
    \cup {[series |-> stocks, week |-> 2, kind |-> k] : k \in {"absent", "half missing"}}
    \cup {[series |-> refinery, week |-> 1, kind |-> k] : k \in {"text", "half missing", "truncated"}}
================================================================================
