---------------------------- MODULE VendorRequest ----------------------------
(***************************************************************************)
(* What the vendors of a search are sent: the legs of a plan, the          *)
(* parameters a leg hands its vendors, and each client's dialect - what it *)
(* refuses before any connection and what its request says.                *)
(***************************************************************************)
EXTENDS SearchRoute

-----------------------------------------------------------------------------
(* Legs.                                                                    *)

FallbackChain(provider) ==
  CASE provider = "firecrawl" -> <<"firecrawl", "exa", "tavily">>
    [] provider = "exa"       -> <<"exa", "firecrawl", "tavily">>
    [] provider = "xai"       -> <<"xai">>
    [] OTHER                  -> <<"tavily", "exa", "firecrawl">>

\* The sources of a route: {} where it leaves them open.
RouteSources(q) ==
  CASE Gate(q) \in {1, 5} -> SourcesOf(q)
    [] Gate(q) = 2        -> {"web", "x"}
    [] Gate(q) = 3        -> {"x"}
    [] Gate(q) = 4        -> {}

\* A leg: its vendors in order, the sources it is held to, and whether it is
\* the social half of a hybrid.
Leg(chain, sources, social) == [chain |-> chain, sources |-> sources, social |-> social]

LegsOf(q, plan) ==
  LET Lone(v) == Leg(<<v>>, RouteSources(q), FALSE)
      other  == IF plan.primary = "firecrawl" THEN "tavily" ELSE "firecrawl"
      third  == IF Route(q).strategy = "verify" THEN <<Lone("exa")>> ELSE <<>>
  IN CASE plan.kind = "deep"   -> <<Leg(<<"exa-deep">>, {}, FALSE)>>
       [] plan.kind = "hybrid" -> <<Leg(FallbackChain("tavily"), {"web"}, FALSE),
                                    Leg(<<"xai">>, {"x"}, TRUE)>>
       [] plan.kind = "blend"  -> <<Lone(plan.primary), Lone(other)>> \o third
       [] plan.kind = "single" -> <<Leg(FallbackChain(plan.primary), RouteSources(q), FALSE)>>

-----------------------------------------------------------------------------
(* Parameters.                                                              *)

\* What a leg hands each of its vendors: only a web vendor can say domains, so
\* the social half goes without, and a deep mode goes to the deep call alone.
LegParams(q, leg, vendor) ==
  [sources |-> leg.sources,
   domains |-> IF leg.social THEN <<>> ELSE q.domains,
   handles |-> q.handles,
   content |-> q.content = "yes" /\ ~leg.social,
   raw     |-> q.raw,
   depth   |-> IF Word(q.depth) \in DeepModes /\ vendor # "exa-deep" THEN "none" ELSE Word(q.depth),
   from    |-> q.from,
   range   |-> Word(q.range),
   country |-> q.country]

\* Mutant: the social half is handed the flag the web half needs.
ParamsUnstripped(q, leg, vendor) == LegParams(q, leg, vendor)

\* run_provider: and no raw content is asked of xAI in a hybrid.
Params(q, leg, vendor) ==
  [LegParams(q, leg, vendor) EXCEPT !.raw = @ /\ ~(vendor = "xai" /\ Route(q).hybrid)]

-----------------------------------------------------------------------------
(* What the clients have in common.  A window is the dates, or the range (as *)
(* it is, or as the day it began), or none.                                 *)

NoWindow    == [form |-> "none", word |-> "none"]
Dates(p)    == [form |-> "dates", word |-> p.from.word]
RangeOf(p)  == IF p.range = "none" THEN NoWindow ELSE [form |-> "range", word |-> p.range]

\* Mutant: both forms are tried and the relative one is written last.
DatesFirstRangeLast(p) ==
  IF p.range # "none" THEN RangeOf(p) ELSE IF p.from.how # "absent" THEN Dates(p) ELSE NoWindow

\* Dates, any text given for one included, before a range.
DatesFirst(p) == IF p.from.how # "absent" THEN Dates(p) ELSE RangeOf(p)

\* Names and codes of the table; "everyday" spellings of the first only.
Listed(country) == country.how \in {"code", "name"}

-----------------------------------------------------------------------------
(* Tavily.                                                                  *)

TavilyRefuses(p) == Mistyped(p.domains) \/ p.country.how = "unlisted"

TavilyCountry(country) == IF country = NoCountry THEN country ELSE [country EXCEPT !.how = "name"]

TavilySends(p) ==
  [about |-> {"web"}, domains |-> p.domains, handles |-> <<>>, window |-> DatesFirst(p),
   country |-> TavilyCountry(p.country), content |-> p.content \/ p.raw,
   depth |-> IF p.depth = "none" THEN "basic" ELSE p.depth]

-----------------------------------------------------------------------------
(* Firecrawl: its window is one text that holds civil dates only, and what  *)
(* is no place of the table goes out as it came.                            *)

CivilDates == {"march"}

FirecrawlWindow(p) == IF p.from.how = "exact" /\ p.from.word \in CivilDates THEN Dates(p) ELSE RangeOf(p)

FirecrawlCountry(country) == IF Listed(country) THEN [country EXCEPT !.how = "code"] ELSE country

FirecrawlSends(p) ==
  [about |-> IF p.sources = {} THEN {"web"} ELSE p.sources, domains |-> p.domains,
   handles |-> <<>>, window |-> FirecrawlWindow(p), country |-> FirecrawlCountry(p.country),
   content |-> p.content, depth |-> "none"]

-----------------------------------------------------------------------------
(* Exa, plain and deep.                                                     *)

ExaSends(p) ==
  [about |-> {"web"}, domains |-> p.domains, handles |-> <<>>, window |-> DatesFirst(p),
   country |-> NoCountry, content |-> p.content, depth |-> "none"]

DeepRefuses(p) == p.content \/ p.range # "none" \/ p.country # NoCountry \/ Mistyped(p.domains)

DeepSends(p) ==
  [ExaSends(p) EXCEPT !.content = TRUE,
                      !.depth = IF p.depth \in DeepModes THEN p.depth ELSE "deep-lite"]

-----------------------------------------------------------------------------
(* xAI: X or the web, never both, and no page content.                      *)

MAX_DOMAIN_FILTERS == 5

XaiRefuses(p) ==
  \/ {"web", "x"} \subseteq p.sources
  \/ p.content \/ p.raw
  \/ "x" \in p.sources /\ p.domains # <<>>
  \/ "x" \notin p.sources /\ Len(p.domains) > MAX_DOMAIN_FILTERS

XaiSends(p) ==
  LET social == "x" \in p.sources
  IN [about |-> IF social THEN {"x"} ELSE {"web"}, domains |-> p.domains,
      handles |-> IF social THEN p.handles ELSE <<>>, window |-> DatesFirst(p),
      country |-> NoCountry, content |-> FALSE, depth |-> "none"]

-----------------------------------------------------------------------------
(* The calls a search may lead to.                                          *)

Refuses(vendor, p) ==
  CASE vendor = "tavily"               -> TavilyRefuses(p)
    [] vendor \in {"firecrawl", "exa"} -> Mistyped(p.domains)
    [] vendor = "exa-deep"             -> DeepRefuses(p)
    [] vendor = "xai"                  -> XaiRefuses(p)

Sends(vendor, p) ==
  CASE vendor = "tavily"    -> TavilySends(p)
    [] vendor = "firecrawl" -> FirecrawlSends(p)
    [] vendor = "exa"       -> ExaSends(p)
    [] vendor = "exa-deep"  -> DeepSends(p)
    [] vendor = "xai"       -> XaiSends(p)

\* For each leg, the vendors it may call and what it would hand them.
CallsOfLegs(q, legs) ==
  [l \in DOMAIN legs |->
     LET leg == legs[l]
     IN {[vendor |-> leg.chain[i], leg |-> leg, params |-> Params(q, leg, leg.chain[i])] :
           i \in DOMAIN leg.chain}]

CallsOf(q) == CallsOfLegs(q, LegsOf(q, PlanOf(q)))

=============================================================================
