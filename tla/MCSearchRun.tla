----------------------------- MODULE MCSearchRun -----------------------------
(* Constants for the runs of SearchRun. *)
EXTENDS SearchRun

CONSTANTS t1, t2, e1, f1, x1

Pool == {t1, t2, e1, f1, x1}

PoolVendor ==
  [k \in Pool |-> CASE k \in {t1, t2} -> "tavily"
                    [] k = e1 -> "exa"
                    [] k = f1 -> "firecrawl"
                    [] k = x1 -> "xai"]

\* One plan of each kind.
SomePlans == {[kind |-> "single", primary |-> "tavily"],
              [kind |-> "deep", primary |-> "exa"],
              [kind |-> "hybrid", primary |-> "tavily"],
              [kind |-> "blend", primary |-> "firecrawl"],
              [kind |-> "verify", primary |-> "tavily"]}

\* Every text at a 401 and a 403, one ban text at every other status, and what
\* never is a status.
BanText == [thing |-> "account", long |-> FALSE, order |-> "forward",
            mood |-> "states", gap |-> 2, live |-> TRUE, aside |-> FALSE]

SomeReplies ==
  UpstreamReplies({401, 403}, Clauses({0, 2, 7, 8}))
    \cup UpstreamReplies({400, 402, 404, 429, 432, 433, 500, 503}, {BanText})
    \cup LocalReplies
=============================================================================
