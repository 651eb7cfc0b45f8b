----------------------------- MODULE SearchRoute -----------------------------
(***************************************************************************)
(* route_search and execution_plan: the five gates from a canonical        *)
(* search to the vendors it is dialled at, in their order, with the route  *)
(* table as data.                                                          *)
(***************************************************************************)
EXTENDS SearchRequest, Integers

-----------------------------------------------------------------------------
(* Intent and strategy.                                                     *)

\* The first of a list of conditions that holds; one past the list if none does.
FirstTrue(conditions) ==
  CHOOSE i \in 1..(Len(conditions) + 1) :
    /\ i <= Len(conditions) => conditions[i]
    /\ \A j \in 1..(i - 1) : ~conditions[j]

\* What a text may speak of, in the order resolve_intent looks for it.
\* "version" stands for the phrases that veto the news keywords.
Groups == <<"comparison", "tutorial", "news", "resource", "status", "exploratory">>

Heard(text) ==
  LET heard == [i \in DOMAIN Groups |->
                  Groups[i] \in text /\ ~(Groups[i] = "news" /\ "version" \in text)]
  IN Append(Groups, "factual")[FirstTrue(heard)]

\* Some(word), or None.
Word(raw)  == IF raw.how = "absent" THEN "none" ELSE raw.word
Pinned(raw) == Word(raw) \notin {"none", "auto"}

IntentOf(q) ==
  IF Pinned(q.intent) THEN q.intent.word
  ELSE CASE Word(q.mode) = "news"                    -> "news"
         [] Word(q.mode) \in {"docs", "github", "pdf"} -> "resource"
         [] Word(q.mode) = "research"                -> "exploratory"
         [] OTHER                                    -> Heard(q.text)

\* sources_list: mode web overrides every list.
SourcesOf(q) ==
  IF Word(q.mode) = "web" THEN {"web"} ELSE {q.sources[i].word : i \in DOMAIN q.sources}

HybridAsked(q) == {"web", "x"} \subseteq SourcesOf(q)

\* resolve_strategy: a pin, or the first heuristic that applies.
StrategyOf(q) ==
  IF Pinned(q.strategy)
  THEN IF q.strategy.word \in VALID_STRATEGIES THEN q.strategy.word ELSE "fast"
  ELSE <<"balanced", "deep", "verify", "balanced", "fast">>[FirstTrue(
         <<HybridAsked(q),
           Word(q.mode) = "research",
           IntentOf(q) \in {"comparison", "exploratory"},
           \/ Word(q.mode) \in {"docs", "github", "pdf"}
           \/ IntentOf(q) \in {"resource", "tutorial"}>>)]

-----------------------------------------------------------------------------
(* The route table: a rule asks for one source, one mode or one intent.     *)

Rule(priority, provider, by, value, topic) ==
  [priority |-> priority, provider |-> provider, by |-> by, value |-> value, topic |-> topic]

RULES == <<
  Rule(95, "tavily",    "source", "news",        "news"),
  Rule(95, "firecrawl", "source", "images",      "images"),
  Rule(90, "tavily",    "mode",   "news",        "news"),
  Rule(85, "tavily",    "mode",   "docs",        "none"),
  Rule(85, "tavily",    "mode",   "github",      "none"),
  Rule(85, "tavily",    "mode",   "pdf",         "none"),
  Rule(85, "tavily",    "intent", "news",        "news"),
  Rule(85, "tavily",    "intent", "status",      "news"),
  Rule(80, "tavily",    "intent", "comparison",  "none"),
  Rule(80, "tavily",    "intent", "tutorial",    "none"),
  Rule(75, "tavily",    "intent", "exploratory", "none"),
  Rule(70, "tavily",    "intent", "resource",    "none"),
  Rule(60, "tavily",    "intent", "factual",     "none")>>

RuleMatches(rule, q) ==
  CASE rule.by = "source" -> rule.value \in SourcesOf(q)
    [] rule.by = "mode"   -> rule.value = Word(q.mode)
    [] rule.by = "intent" -> rule.value = IntentOf(q)

Matching(q) == {i \in DOMAIN RULES : RuleMatches(RULES[i], q)}

\* The first that matches in a stable sort by falling priority.
TopRule(q) ==
  CHOOSE i \in Matching(q) :
    \A j \in Matching(q) :
      \/ RULES[i].priority > RULES[j].priority
      \/ RULES[i].priority = RULES[j].priority /\ i <= j

-----------------------------------------------------------------------------
(* The gates.                                                               *)

OwnModes == {"news", "social", "docs", "github", "pdf"}

XAsked(q) ==
  \/ SourcesOf(q) \cap {"x", "social"} # {}
  \/ Word(q.mode) = "social"
  \/ q.handles # <<>> /\ SourcesOf(q) = {}

\* Mutant: the deep heuristic comes before what the caller named.
ContentAskedAnyway(q) == StrategyOf(q) = "deep" \/ q.content = "yes"

ContentAsked(q) ==
  /\ StrategyOf(q) = "deep" \/ q.content = "yes"
  /\ Word(q.mode) \notin OwnModes
  /\ SourcesOf(q) \cap {"news", "images"} = {}

Gate(q) == FirstTrue(<<Pinned(q.provider), HybridAsked(q), XAsked(q), ContentAsked(q)>>)

Route(q) ==
  LET to(provider, topic, blend) ==
        [provider |-> provider, topic |-> topic, blend |-> blend,
         hybrid |-> provider = "hybrid", strategy |-> StrategyOf(q)]
      gate == Gate(q)
  IN CASE gate = 1 -> to(IF q.provider.word = "social" THEN "xai" ELSE q.provider.word,
                         "none", FALSE)
       [] gate = 2 -> to("hybrid", "none", FALSE)
       [] gate = 3 -> to("xai", "none", FALSE)
       [] gate = 4 -> to("firecrawl", "research", FALSE)
       [] gate = 5 -> IF Matching(q) = {} THEN to("unreachable", "none", FALSE)
                      ELSE LET rule == RULES[TopRule(q)]
                           IN to(rule.provider, rule.topic,
                                 /\ StrategyOf(q) \in {"balanced", "verify"}
                                 /\ rule.provider \in {"tavily", "firecrawl"})

DeepCall(q) ==
  /\ Word(q.provider) = "exa"
  /\ q.schema \/ Word(q.depth) \in DeepModes \/ Word(q.strategy) = "deep"

PlanKind(q, route) ==
  <<"deep", "hybrid", "blend", "single">>[FirstTrue(<<DeepCall(q), route.hybrid, route.blend>>)]

Planned(kind, route) ==
  [kind    |-> kind,
   primary |-> CASE kind = "deep"   -> "exa"
                 [] kind = "hybrid" -> "tavily"
                 [] OTHER           -> route.provider]

\* execution_plan.
PlanOf(q) == Planned(PlanKind(q, Route(q)), Route(q))

=============================================================================
