---------------------------- MODULE SearchRequest ----------------------------
(***************************************************************************)
(* One request before it is routed: the spellings a client may use, what   *)
(* the boundary refuses, and the canonical form that search_inner and      *)
(* research_inner work on.                                                 *)
(*                                                                         *)
(* A knob as the client spelled it is [how, word]: left out, blank, the    *)
(* word itself, the word in other case or separators ("folded"), or the    *)
(* word with its separators lost or made up ("joined").  A word need not   *)
(* be a member of the knob's set.                                          *)
(***************************************************************************)
EXTENDS Naturals, Sequences, SequencesExt, Picks

Spellings == {"absent", "blank", "exact", "folded", "joined"}

Absent   == [how |-> "absent", word |-> ""]
Exact(w) == [how |-> "exact", word |-> w]
Said(raw) == raw.how \notin {"absent", "blank"}

KnobTexts == {raw \in [how : Spellings, word : STRING] : Said(raw) <=> raw.word # ""}

-----------------------------------------------------------------------------
(* The closed sets.                                                         *)

VALID_MODES      == {"auto", "web", "news", "social", "docs", "research", "github", "pdf"}
VALID_INTENTS    == {"auto", "factual", "status", "comparison", "tutorial",
                     "exploratory", "news", "resource"}
VALID_STRATEGIES == {"auto", "fast", "balanced", "verify", "deep"}
VALID_PROVIDERS  == {"auto", "tavily", "firecrawl", "exa", "xai", "social", "hybrid"}
VALID_SOURCES    == {"web", "x", "social", "news", "images"}
DeepModes        == {"deep-lite", "deep", "deep-reasoning"}
VALID_DEPTHS     == {"basic", "advanced", "fast", "ultra-fast"} \cup DeepModes
VALID_BACKENDS   == {"serpotter", "tavily"}
VALID_FORMATS    == {"numbered", "mla", "apa", "chicago"}

-----------------------------------------------------------------------------
(* The verdict on one knob: a member, unset or refused.                     *)

\* match_member: both of its steps accept any spelling of a member, and of
\* nothing else.
Choice(raw, valid) ==
  IF ~Said(raw) THEN "unset" ELSE IF raw.word \in valid THEN raw.word ELSE "refused"

\* The windows by their long and short names. A window has no step that joins
\* what a separator split.
Window == [day |-> "day", d |-> "day", week |-> "week", w |-> "week",
           month |-> "month", m |-> "month", year |-> "year", y |-> "year"]

TimeRange(raw) ==
  IF ~Said(raw) THEN "unset"
  ELSE IF raw.how # "joined" /\ raw.word \in DOMAIN Window THEN Window[raw.word]
  ELSE "refused"

\* A depth of Tavily's or a deep mode of Exa's, from one set.
Depth(raw) == Choice(raw, VALID_DEPTHS)

\* Mutant: a blank knob is left as it came.
SettledKeepsBlank(raw, verdict) ==
  IF verdict \in {"unset", "refused"} THEN raw ELSE Exact(verdict)

\* What fold_member and fold_verdict leave of a knob.
Settled(raw, verdict) ==
  CASE verdict = "unset"   -> Absent
    [] verdict = "refused" -> raw
    [] OTHER               -> Exact(verdict)

\* canonical_choice alone, as research applies it to its own two knobs.
FoldLocally(raw) ==
  IF ~Said(raw) THEN Absent ELSE IF raw.how = "folded" THEN Exact(raw.word) ELSE raw

-----------------------------------------------------------------------------
(* Lists.                                                                   *)

SourceTexts == {raw \in KnobTexts : raw.how # "absent"}

SourceRefused(sources) == \E i \in DOMAIN sources : Choice(sources[i], VALID_SOURCES) = "refused"

\* normalize_sources of a list it does not refuse: the first of each name.
SourceName(raw) == IF raw.word = "social" THEN "x" ELSE raw.word

SourceNames(sources) ==
  Picked([i \in DOMAIN sources |-> SourceName(sources[i])],
         {i \in DOMAIN sources :
            /\ Said(sources[i])
            /\ \A j \in 1..(i - 1) :
                 Said(sources[j]) => SourceName(sources[j]) # SourceName(sources[i])})

\* fold_sources: a list of blanks, and one that is refused, stay as they came.
FoldSources(sources) ==
  IF SourceRefused(sources) \/ SourceNames(sources) = <<>> THEN sources
  ELSE [i \in DOMAIN SourceNames(sources) |-> Exact(SourceNames(sources)[i])]

\* A filter entry is [how, names]: the names it holds, plain or in other dress
\* (case, scheme, path, a leading "*." or "@"), several in one text, or text
\* that is no name at all ("mistyped": the one "name" is that text).
SplitEntry(e) ==
  [i \in DOMAIN e.names |-> [how |-> IF e.how = "mistyped" THEN "mistyped" ELSE "exact",
                             names |-> <<e.names[i]>>]]

FoldList(entries) == Flat([i \in DOMAIN entries |-> SplitEntry(entries[i])])

FilterEntries ==
  {e \in [how : {"exact", "dressed", "mistyped"}, names : Seq(STRING)] :
     e.how = "mistyped" => Len(e.names) = 1}

Mistyped(entries) == \E i \in DOMAIN entries : entries[i].how = "mistyped"

\* A date the fold recognises is padded, any other text stays.
DateTexts == {raw \in KnobTexts : raw.how # "joined"}

FoldDate(raw) == IF raw.how = "folded" THEN Exact(raw.word) ELSE raw

-----------------------------------------------------------------------------
(* Searches.                                                                *)

\* A country is [how, place]: left out, a code or a name of the table, a common
\* spelling of one, or a word the table does not hold.  It is never folded.
NoCountry == [how |-> "unset", place |-> "none"]

Countries ==
  {c \in [how : {"unset", "code", "name", "everyday", "unlisted"}, place : STRING] :
     c.how = "unset" => c = NoCountry}

\* A search: whether its text is "tidy", "spaced" out or "blank", what the text
\* speaks of, the knobs (chunks is how many snippets of a page: "unset", "zero" or
\* "some"), and "rest" for the fields that are keyed and forwarded
\* as they are.
Plain ==
  [text |-> {}, query |-> "tidy", mode |-> Absent, intent |-> Absent,
   strategy |-> Absent, provider |-> Absent, depth |-> Absent, range |-> Absent,
   from |-> Absent, sources |-> <<>>, domains |-> <<>>, handles |-> <<>>,
   content |-> "unset", raw |-> FALSE, country |-> NoCountry, chunks |-> "unset",
   schema |-> FALSE, rest |-> 0]

\* What a SearchQuery can hold.
SearchBodies ==
  [text : SUBSET STRING, query : {"tidy", "spaced", "blank"}, mode : KnobTexts, intent : KnobTexts,
   strategy : KnobTexts, provider : KnobTexts, depth : KnobTexts, range : KnobTexts,
   from : DateTexts, sources : Seq(SourceTexts), domains : Seq(FilterEntries),
   handles : Seq(FilterEntries), content : {"unset", "yes", "no"}, raw : BOOLEAN,
   country : Countries, chunks : {"unset", "zero", "some"}, schema : BOOLEAN, rest : Nat]

\* SearchQuery::canonicalize.
Canonicalize(q) ==
  [q EXCEPT
     !.query    = IF @ = "spaced" THEN "tidy" ELSE @,
     !.mode     = Settled(@, Choice(@, VALID_MODES)),
     !.intent   = Settled(@, Choice(@, VALID_INTENTS)),
     !.strategy = Settled(@, Choice(@, VALID_STRATEGIES)),
     !.provider = Settled(@, Choice(@, VALID_PROVIDERS)),
     !.depth    = Settled(@, Depth(@)),
     !.range    = Settled(@, TimeRange(@)),
     !.from     = FoldDate(@),
     !.sources  = FoldSources(@),
     !.domains  = FoldList(@),
     !.handles  = FoldList(@)]

\* validate_search_query, and what validate_search_params has in common with it.
SearchAccepted(q) ==
  /\ q.query # "blank"
  /\ Choice(q.mode, VALID_MODES) # "refused"
  /\ Choice(q.intent, VALID_INTENTS) # "refused"
  /\ Choice(q.strategy, VALID_STRATEGIES) # "refused"
  /\ Choice(q.provider, VALID_PROVIDERS) # "refused"
  /\ Depth(q.depth) # "refused"
  /\ TimeRange(q.range) # "refused"
  /\ ~SourceRefused(q.sources)

\* validate_search_params: a density of zero is refused over MCP alone.
McpSearchAccepted(q) == SearchAccepted(q) /\ q.chunks # "zero"

-----------------------------------------------------------------------------
(* Research.                                                                *)

PlainResearch ==
  [text |-> {}, query |-> "tidy", deep |-> FALSE, backend |-> Absent, format |-> Absent,
   range |-> Absent, from |-> Absent, domains |-> <<>>, handles |-> <<>>,
   content |-> "unset", country |-> NoCountry, social |-> 0, schema |-> FALSE, rest |-> 0]

\* What a ResearchRequest can hold.
ResearchBodies ==
  [text : SUBSET STRING, query : {"tidy", "spaced", "blank"}, deep : BOOLEAN,
   backend : KnobTexts, format : KnobTexts, range : KnobTexts, from : DateTexts,
   domains : Seq(FilterEntries), handles : Seq(FilterEntries),
   content : {"unset", "yes", "no"}, country : Countries, social : Nat,
   schema : BOOLEAN, rest : Nat]

\* The start of research_inner: what a search has in common is folded by its
\* rules, the two knobs of research's own locally.
CanonicalizeResearch(r) ==
  [r EXCEPT
     !.query   = IF @ = "spaced" THEN "tidy" ELSE @,
     !.range   = Settled(@, TimeRange(@)),
     !.from    = FoldDate(@),
     !.domains = FoldList(@),
     !.handles = FoldList(@),
     !.backend = FoldLocally(@),
     !.format  = FoldLocally(@)]

\* What the deep loop would drop is refused with it: a blank text knob and an
\* explicit 0 are as good as absent, page content is refused for either value.
DeepKnobs(r) ==
  r.deep => /\ ~Said(r.backend) /\ ~Said(r.format)
            /\ r.social = 0
            /\ r.content = "unset"

\* validate_research_body.
ResearchAccepted(r) ==
  /\ r.query # "blank"
  /\ Choice(r.backend, VALID_BACKENDS) # "refused"
  /\ Choice(r.format, VALID_FORMATS) # "refused"
  /\ TimeRange(r.range) # "refused"
  /\ DeepKnobs(r)

TavilyJob(r) == r.backend = Exact("tavily")

\* The search a research asks for its web leg: no handles, no routing knobs.
WebLeg(r) ==
  [Plain EXCEPT
     !.text = r.text, !.query = r.query, !.range = r.range, !.from = r.from,
     !.domains = r.domains, !.country = r.country, !.rest = r.rest,
     !.content = IF r.deep \/ r.content = "unset" THEN "no" ELSE r.content]

=============================================================================
