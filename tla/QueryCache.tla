------------------------------ MODULE QueryCache ------------------------------
(***************************************************************************)
(* Searches and researches from the boundary to the answer, over the       *)
(* response cache: what a call looks up, dials, stores and is served while *)
(* the clock runs, rows expire and are purged, statements fail and calls   *)
(* are dropped at their deadline or by their client.                       *)
(*                                                                         *)
(* Routing and canonical forms are SearchRoute's.  A row is keyed by a     *)
(* digest of the service and the canonical text of an ask; here it names   *)
(* the ask it was written for, and two asks have one digest when their     *)
(* keys are equal.                                                         *)
(***************************************************************************)
EXTENDS AnswerFusion

CONSTANTS Calls,     \* slots for calls in flight
          Requests,  \* the bodies a client may send: sequence of [research, body]
          Alone,     \* bound: the Requests that come with no other in a behaviour
          MaxRequests, \* bound: how many of the others may come
          Finds,     \* what a vendor may find, as [rows, answers]; bound: Requests
                     \* that come with others find nothing
          MaxResults, \* the clamped max_results of every search
          TTL,       \* lifetime of a row
          Deadline,  \* request_timeout
          MaxTime    \* bound: the last instant

ASSUME CacheAssumption ==
  /\ MaxRequests \in Nat /\ TTL \in Nat /\ Deadline \in Nat \ {0} /\ MaxTime \in Nat
  /\ Alone \subseteq DOMAIN Requests /\ MaxResults \in 1..20
  /\ Finds \subseteq [rows : Seq(Rows), answers : BOOLEAN]
  /\ \A find \in Finds : Len(find.rows) <= Places
  /\ \A i \in DOMAIN Requests :
       /\ Requests[i].research \in BOOLEAN
       /\ Requests[i].body \in IF Requests[i].research THEN ResearchBodies ELSE SearchBodies

\* Whether a text is a name does not depend on the request it comes in.
NoClash(es, fs) ==
  \A k \in DOMAIN es, l \in DOMAIN fs :
    es[k].how = "mistyped" /\ fs[l].how # "mistyped"
      => \A n \in DOMAIN fs[l].names : fs[l].names[n] # es[k].names[1]

ASSUME NamesAssumption ==
  \A i, j \in DOMAIN Requests :
    /\ NoClash(Requests[i].body.domains, Requests[j].body.domains)
    /\ NoClash(Requests[i].body.handles, Requests[j].body.handles)

VARIABLES now,
          cache,  \* the table: at most one row for a key
          call,   \* what each slot is doing
          left    \* how many requests may still come

vars == <<now, cache, call, left>>

-----------------------------------------------------------------------------
(* Asks: a search, a research, or the search a research asks for its web    *)
(* leg.                                                                     *)

Body(i)       == Requests[i].body
IsResearch(i) == Requests[i].research

\* What each boundary lets in: a research by one set of rules, a search over MCP
\* by one rule more than over REST.
Accepted(i, surface) ==
  IF IsResearch(i) THEN ResearchAccepted(Body(i))
  ELSE IF surface = "mcp" THEN McpSearchAccepted(Body(i)) ELSE SearchAccepted(Body(i))

Asks ==
  UNION {{[surface |-> s, of |-> i] : s \in IF IsResearch(i) THEN {"research", "web"} ELSE {"search"}} :
           i \in DOMAIN Requests}

\* The search that search_inner works on.
Query == [ask \in {a \in Asks : a.surface # "research"} |->
            IF ask.surface = "search" THEN Canonicalize(Body(ask.of))
            ELSE Canonicalize(WebLeg(CanonicalizeResearch(Body(ask.of))))]

Research == [ask \in {a \in Asks : a.surface = "research"} |-> CanonicalizeResearch(Body(ask.of))]

AutoNone(raw) == IF raw = Exact("auto") THEN Absent ELSE raw

\* canonical_query.
SearchKey(q) ==
  [q EXCEPT !.mode = AutoNone(@), !.intent = AutoNone(@),
            !.strategy = AutoNone(@), !.provider = AutoNone(@)]

\* Mutant: the number of posts asked of X is left out of the canonical text.
ResearchKeyNoSocial(r) == [r EXCEPT !.social = 0]

\* canonical_research: every field.
ResearchKey(r) == r

\* key_hash of canonical_query or canonical_research, as an injective digest.
KeyOf == [ask \in Asks |->
            IF ask.surface = "research" THEN <<"research", ResearchKey(Research[ask])>>
            ELSE <<"search", SearchKey(Query[ask])>>]

PlanFor == [ask \in DOMAIN Query |-> PlanOf(Query[ask])]

CallsFor == [ask \in DOMAIN Query |-> CallsOf(Query[ask])]

-----------------------------------------------------------------------------
(* The table.                                                               *)

\* Mutant: expiry is left to the purge.
FoundLate(ask) == {row \in cache : KeyOf[row.by] = KeyOf[ask]}

\* Db::cache_get.
Found(ask) == {row \in cache : KeyOf[row.by] = KeyOf[ask] /\ row.expires > now}

\* Mutant: the insert adds a row beside the one that is there.
PutBeside(ask, heard) ==
  cache \cup {[by |-> ask, heard |-> heard, expires |-> now + (IF TTL > 1 THEN TTL ELSE 1)]}

\* Db::cache_put: the row of that key, if there is one, is overwritten.
Put(ask, heard) ==
  {row \in cache : KeyOf[row.by] # KeyOf[ask]}
  \cup {[by |-> ask, heard |-> heard, expires |-> now + (IF TTL > 1 THEN TTL ELSE 1)]}

-----------------------------------------------------------------------------
(* Calls.                                                                   *)

\* A call looks its ask up, dials, stores, and a research then goes on from its
\* web leg: "idle", "look", "dial", "store", "leg", "answered".
Idle == [stage |-> "idle", ask |-> [surface |-> "search", of |-> 0], since |-> 0,
         heard |-> 0, served |-> {}, pass |-> 1, found |-> <<>>]

Running(c) == call[c].stage \in {"look", "dial", "store", "leg"}

\* Mutant: both passes share the request's own context.
CacheOnAlways(c) == TRUE

\* A deep research passes search_inner a context without the cache.
CacheOn(c) == LET i == call[c].ask.of IN ~(IsResearch(i) /\ Body(i).deep)

\* An answered call keeps its ask, the row it was served and how old the oldest
\* answer in it is; one that is refused, fails or is dropped keeps nothing.
Answered(c, heard) ==
  [call[c] EXCEPT !.stage = "answered", !.since = 0, !.pass = 1, !.found = <<>>, !.heard = now - heard]

Init ==
  /\ now = 0
  /\ cache = {}
  /\ call = [c \in Calls |-> Idle]
  /\ left = MaxRequests

\* The boundary, then the start of search_inner or research_inner: a deep
\* research goes straight to its first web search.
Start(c, i) ==
  /\ ~Running(c)
  /\ left > 0 /\ (i \in Alone => left = MaxRequests)
  /\ left' = IF i \in Alone THEN 0 ELSE left - 1
  /\ \E surface \in {"rest", "mcp"} : call' = [call EXCEPT ![c] =
       IF ~Accepted(i, surface) THEN Idle
       ELSE [Idle EXCEPT
               !.stage = "look", !.since = now,
               !.ask   = [surface |-> CASE ~IsResearch(i) -> "search"
                                        [] IsResearch(i) /\ Body(i).deep -> "web"
                                        [] OTHER -> "research",
                          of |-> i]]]
  /\ UNCHANGED <<now, cache>>

\* A hit answers with nothing dialled; a web leg's hit goes on as its result.
Hit(c) ==
  /\ call[c].stage = "look" /\ CacheOn(c)
  /\ \E row \in Found(call[c].ask) :
       call' = [call EXCEPT ![c] =
         IF @.ask.surface = "web" THEN [@ EXCEPT !.stage = "leg", !.heard = row.heard, !.served = {row.by}]
         ELSE [Answered(c, row.heard) EXCEPT !.served = {row.by}]]
  /\ UNCHANGED <<now, cache, left>>

\* No live row, no cache, or a lookup that failed: a search is routed, refused
\* if a domain filter is no host name, and dialled; a research asks its job or
\* its web leg.
Miss(c) ==
  /\ call[c].stage = "look"
  /\ call' = [call EXCEPT ![c] =
       IF @.ask.surface = "research"
       THEN IF TavilyJob(Research[@.ask]) THEN [@ EXCEPT !.stage = "dial"]
            ELSE [@ EXCEPT !.ask.surface = "web"]
       ELSE IF Mistyped(Query[@.ask].domains) THEN Idle
            ELSE [@ EXCEPT !.stage = "dial"]]
  /\ UNCHANGED <<now, cache, left>>

\* What a leg may bring: nothing, or what a vendor that takes its request finds.
NoFind == [rows |-> <<>>, answers |-> FALSE]
NoLeg  == [served |-> FALSE, items |-> <<>>, answers |-> FALSE]

Brought(dialledBy, i) ==
  {NoLeg} \cup
  {[served |-> TRUE, items |-> Items(d, find.rows),
    answers |-> find.answers /\ d.vendor \notin {"firecrawl", "exa"}] :
     d \in {x \in dialledBy : ~Refuses(x.vendor, x.params)},
     find \in IF i \in Alone THEN Finds ELSE {NoFind}}

\* Every way the legs of an ask may end that makes an answer.
Ways(calls, i) ==
  LET B(l) == Brought(calls[l], i)
  IN CASE Len(calls) = 1 -> {<<x>> : x \in B(1)}
       [] Len(calls) = 2 -> B(1) \X B(2)
       [] Len(calls) = 3 -> B(1) \X B(2) \X B(3)

Findings(ask) ==
  {legs \in Ways(CallsFor[ask], ask.of) : Served(PlanFor[ask].kind, legs)}

\* The legs bring what they bring, and the answer is made of it.
DialAnswers(c) ==
  /\ call[c].stage = "dial"
  /\ \E legs \in IF call[c].ask \in DOMAIN Query THEN Findings(call[c].ask) ELSE {<<>>} :
       call' = [call EXCEPT ![c].stage = "store", ![c].found = legs,
                            ![c].heard = IF call[c].pass = 1 THEN now ELSE @]
  /\ UNCHANGED <<now, cache, left>>

\* Only the second pass of a deep research may fail softly.
DialFails(c) ==
  /\ call[c].stage = "dial"
  /\ call' = [call EXCEPT ![c] = IF @.pass = 2 THEN Answered(c, @.heard)
                                 ELSE Idle]
  /\ UNCHANGED <<now, cache, left>>

\* cache_put and the return: a failing statement, like a switched-off cache,
\* stores nothing and fails nothing.
Store(c) ==
  /\ call[c].stage = "store"
  /\ \/ CacheOn(c) /\ cache' = Put(call[c].ask, call[c].heard)
     \/ UNCHANGED cache
  /\ call' = [call EXCEPT ![c] =
       IF @.ask.surface = "web" THEN [@ EXCEPT !.stage = "leg", !.found = <<>>]
       ELSE Answered(c, @.heard)]
  /\ UNCHANGED <<now, left>>

\* After the web leg: a standard research scrapes and asks X, neither of which
\* fails it; a deep one searches again if time is left, or ends.
LegDone(c) ==
  /\ call[c].stage = "leg"
  /\ call' = [call EXCEPT ![c] =
       IF Body(@.ask.of).deep THEN Answered(c, @.heard)
       ELSE [@ EXCEPT !.stage = "store", !.ask.surface = "research"]]
  /\ UNCHANGED <<now, cache, left>>

Refine(c) ==
  /\ call[c].stage = "leg" /\ Body(call[c].ask.of).deep /\ call[c].pass = 1
  /\ call' = [call EXCEPT ![c].stage = "look", ![c].pass = 2]
  /\ UNCHANGED <<now, cache, left>>

\* The deadline, or the client's leaving, drops the call at an await.
Drop(c) ==
  /\ Running(c)
  /\ call' = [call EXCEPT ![c] = Idle]
  /\ UNCHANGED <<now, cache, left>>

\* Db::purge_expired_cache, from the maintenance tick.
Purge ==
  /\ cache' = {row \in cache : row.expires >= now}
  /\ UNCHANGED <<now, call, left>>

Tick ==
  /\ now < MaxTime
  /\ \A c \in Calls : Running(c) => now - call[c].since < Deadline
  /\ now' = now + 1
  /\ UNCHANGED <<cache, call, left>>

Next ==
  \/ \E c \in Calls, i \in DOMAIN Requests : Start(c, i)
  \/ \E c \in Calls : \/ Hit(c) \/ Miss(c) \/ DialAnswers(c) \/ DialFails(c)
                      \/ Store(c) \/ LegDone(c) \/ Refine(c) \/ Drop(c)
  \/ Purge
  \/ Tick

Spec == Init /\ [][Next]_vars

-----------------------------------------------------------------------------
(* What a client means, read off the body it sent.                          *)

Wanted(raw) == IF Said(raw) /\ raw.word # "auto" THEN raw.word ELSE "any"

Names(entries) == Flat([i \in DOMAIN entries |-> entries[i].names])

\* A text that is only known as it was sent, or what is wanted by it.
AsSent(raw) == <<"as sent", raw.word>>
Meant(word) == <<"meant", word>>

\* The fold leaves three spellings as they came, each with a row of its own: a
\* blank date, a source list of blanks, and a backend or format whose
\* separators do not match. They mean what they say here.
Common(b) ==
  [text |-> b.text, range |-> IF Said(b.range) THEN Window[b.range.word] ELSE "any",
   from |-> IF b.from.how = "blank" THEN AsSent(b.from) ELSE Meant(b.from.word),
   domains |-> Names(b.domains), content |-> b.content, country |-> b.country, schema |-> b.schema, rest |-> b.rest]

SearchMeaning(q) ==
  <<Common(q), Wanted(q.mode), Wanted(q.intent), Wanted(q.strategy), Wanted(q.provider),
    Wanted(q.depth), Names(q.handles), q.raw, q.chunks,
    IF \E i \in DOMAIN q.sources : Said(q.sources[i])
      THEN <<"named", SourceNames(q.sources)>> ELSE <<"blanks", Len(q.sources)>>>>

OwnKnob(raw) == IF raw.how = "joined" THEN AsSent(raw) ELSE Meant(Wanted(raw))

Meaning ==
  [ask \in Asks |->
     LET b == Body(ask.of)
     IN CASE ask.surface = "search"   -> <<"search", SearchMeaning(b)>>
          [] ask.surface = "web"      -> <<"search", SearchMeaning(WebLeg(b))>>
          [] ask.surface = "research" -> <<"research", Common(b), Names(b.handles), b.social,
                                           OwnKnob(b.backend), OwnKnob(b.format)>>]

\* The asks a call has made itself.
OwnAsks(c) == {ask \in Asks : ask.of = call[c].ask.of}

-----------------------------------------------------------------------------
(* Properties.                                                              *)

\* A stored answer is served only to a request that means the same as the one
\* it was stored for, across surfaces and web legs: "a wrong key ... serves ONE
\* CALLER ANOTHER CALLER'S response" (cache.rs).
HitIsOwn ==
  \A c \in Calls : \A by \in call[c].served :
    \E own \in OwnAsks(c) : Meaning[by] = Meaning[own]

\* However a client spells it, one request has one row: a slower call's store
\* replaces the row an earlier one left, it does not stand beside it.
OneRowPerMeaning ==
  \A row, other \in cache : Meaning[row.by] = Meaning[other.by] => row = other

\* The rows of the cache and the requests that mean the same are one to one.
RowsKeepMeaning == HitIsOwn /\ OneRowPerMeaning

\* How old an answer may be when it is given. A search's row outlives its vendor
\* answer by less than one TTL and the time the storing call had left. A research
\* may be stored from a web leg that was itself served from a row, which
\* doubles that. A deep research hears its vendors itself.
Lifetime == (IF TTL > 1 THEN TTL ELSE 1) + Deadline - 1

AnswerAge ==
  \A c \in Calls : call[c].stage = "answered" =>
    LET body == Body(call[c].ask.of)
    IN IF ~IsResearch(call[c].ask.of) THEN call[c].heard <= Lifetime
       ELSE IF body.deep THEN call[c].heard <= Deadline /\ call[c].served = {}
       ELSE call[c].heard <= 2 * Lifetime

\* What a search is dialled at honours what its client named, in whatever
\* spelling: a named provider; else both X and web, or X, or nothing but the web
\* for mode web; else named news or images, which no deep or content heuristic
\* may take. A research's web leg stays on the web.
Named(q, w) == \E i \in DOMAIN q.sources : Said(q.sources[i]) /\ q.sources[i].word \in w

OnTheWeb(plan) == plan.primary \in {"tavily", "firecrawl"}

GoesWhereAsked(q, route, plan) ==
  LET wants == Wanted(q.provider)
      mode  == Wanted(q.mode)
      named == [x |-> mode = "social" \/ Named(q, {"x", "social"}),
                web |-> Named(q, {"web"}), news |-> Named(q, {"news"}),
                images |-> Named(q, {"images"})]
  IN CASE wants # "any" ->
            route.provider = (IF wants = "social" THEN "xai" ELSE wants)
       [] wants = "any" /\ mode = "web" -> OnTheWeb(plan) /\ ~route.hybrid
       [] wants = "any" /\ mode # "web" /\ named.x ->
            IF named.web /\ Named(q, {"x", "social"}) THEN route.hybrid
            ELSE route.provider = "xai"
       [] wants = "any" /\ mode # "web" /\ ~named.x /\ (named.news \/ named.images) ->
            <<route.provider, route.topic>> \in
              (IF named.news THEN {<<"tavily", "news">>} ELSE {})
              \cup (IF named.images THEN {<<"firecrawl", "images">>} ELSE {})
       [] OTHER -> route.provider # "unreachable"

RouteHonoursAsk ==
  \A c \in Calls : call[c].stage = "dial" /\ call[c].ask \in DOMAIN Query =>
    LET ask == call[c].ask
    IN IF ask.surface = "web" THEN OnTheWeb(PlanFor[ask])
       ELSE GoesWhereAsked(Body(ask.of), Route(Query[ask]), PlanFor[ask])

\* What a vendor that takes a search is sent is settled by what the client meant,
\* however spelled: the same domains, the dates or else the range and never both,
\* the place, page content if and only if it was asked for, the depth, handles
\* where X is searched. Not every vendor can say all of it. Some refuse; these say
\* nothing to the client, and what they leave out is exactly:
\*   - a place: Exa and xAI; handles: everyone but a search of X
\*   - a depth: everyone but Tavily (its own depths) and Exa's deep call (its own)
\*   - raw content: everyone but Tavily, and xAI outside a hybrid, which refuses it
\*   - domains and content: the social half of a hybrid, which refuses nothing
\*   - a range beside a date, be the date blank or no date at all; but Firecrawl
\*     leaves such a date out and says the range.
UnaskedDepth(vendor) ==
  CASE vendor = "tavily" -> "basic" [] vendor = "exa-deep" -> "deep-lite" [] OTHER -> "none"

TakesDepth(vendor, word) ==
  \/ vendor = "tavily" /\ word \notin DeepModes
  \/ vendor = "exa-deep" /\ word \in DeepModes

MeantWindow(b, vendor) ==
  IF b.from # Absent /\ (vendor = "firecrawl" => b.from.word \in CivilDates)
  THEN [form |-> "dates", word |-> b.from.word]
  ELSE IF Said(b.range) THEN [form |-> "range", word |-> Window[b.range.word]] ELSE NoWindow

SaysWhatIsMeant(b, dialled) ==
  LET wire   == Sends(dialled.vendor, dialled.params)
      vendor == dialled.vendor
      social == dialled.leg.social
  IN /\ Names(wire.domains) = (IF social THEN <<>> ELSE Names(b.domains))
     /\ wire.window = MeantWindow(b, vendor)
     /\ wire.country.place = (IF vendor \in {"exa", "xai"} THEN NoCountry ELSE b.country).place
     /\ vendor = "tavily" => wire.country.how \in {"unset", "name"}
     /\ wire.depth = IF Said(b.depth) /\ TakesDepth(vendor, b.depth.word)
                     THEN b.depth.word ELSE UnaskedDepth(vendor)
     /\ Names(wire.handles) = (IF vendor = "xai" /\ wire.about = {"x"} THEN Names(b.handles) ELSE <<>>)
     /\ wire.content <=> \/ vendor = "exa-deep"
                         \/ b.content = "yes" /\ ~social
                         \/ b.raw /\ vendor = "tavily"
     /\ b.raw => vendor # "xai" \/ social

WireHonoursAsk ==
  \A c \in Calls : call[c].stage = "dial" /\ call[c].ask \in DOMAIN Query =>
    LET ask == call[c].ask
        b   == IF ask.surface = "web" THEN WebLeg(Body(ask.of)) ELSE Body(ask.of)
    IN \A l \in DOMAIN CallsFor[ask] : \A dialled \in CallsFor[ask][l] :
         IF Refuses(dialled.vendor, dialled.params) THEN ~dialled.leg.social
         ELSE SaysWhatIsMeant(b, dialled)

\* The route and every request that leaves on it honour what the client named.
AskIsHonoured == RouteHonoursAsk /\ WireHonoursAsk

\* An answer made of several legs shows no page and no text twice, loses none of
\* what they found but to the cut, never shows a page before one that every leg
\* placed higher or that, unlike it, two legs agree on, and gives the text of a
\* leg none of whose rivals has more items in it: "RRF could never merge them"
\* (pipeline.rs), "the leg whose ORIGINAL items have the most representatives"
\* (execute.rs).
Same(x, y) == (x.page = y.page /\ x.page # "") \/ (x.text = y.text /\ x.text # "")

Within(legs) == UNION {{legs[l].items[i] : i \in DOMAIN legs[l].items} : l \in DOMAIN legs}

PlacesOf(x, items) == {i \in DOMAIN items : items[i].page = x.page}

\* Every leg that has page x has page y before it and no worse; or two legs agree
\* on y, within the twenty a client may ask for at most, and x is one leg's alone.
Ahead(y, x, legs) ==
  \A l \in DOMAIN legs :
    LET items == legs[l].items
    IN /\ Cardinality(PlacesOf(x, items)) <= 1
       /\ \A i \in PlacesOf(x, items) :
            \E j \in PlacesOf(y, items) : j < i /\ Quality(items[j]) >= Quality(items[i])

Agreed(y, legs) ==
  \E k, l \in DOMAIN legs :
    /\ k < l
    /\ \A m \in {k, l} :
         \E j \in PlacesOf(y, legs[m].items) : j <= 20 /\ Quality(legs[m].items[j]) = 4

FoundOnce(x, legs) ==
  Cardinality(UNION {{l} \X PlacesOf(x, legs[l].items) : l \in DOMAIN legs}) = 1

Outranks(y, x, legs) == Ahead(y, x, legs) \/ (Agreed(y, legs) /\ FoundOnce(x, legs))

WellFused(legs, shown) ==
  /\ shown # <<>> /\ Len(shown) <= MaxResults
  /\ \A i, j \in DOMAIN shown :
       i < j => /\ ~Same(shown[i], shown[j])
                /\ "" \notin {shown[i].page, shown[j].page} => ~Outranks(shown[j], shown[i], legs)
  /\ \A x \in Within(legs) :
       Len(shown) = MaxResults
       \/ \E y \in Within(legs), i \in DOMAIN shown :
            (y = x \/ Same(x, y)) /\ (shown[i] = y \/ Same(y, shown[i]))

WellPicked(legs, shown, pick) ==
  \A l \in DOMAIN legs :
    legs[l].answers =>
      /\ pick # 0
      /\ Representatives(legs[l].items, shown) <= Representatives(legs[pick].items, shown)

FusesWell(legs, shown) ==
  WellFused(legs, shown) /\ WellPicked(legs, shown, PickAnswer(legs, shown))

AnswerIsFused ==
  \A c \in Calls : call[c].stage = "store" /\ Len(call[c].found) > 1 =>
    FusesWell(call[c].found, Fused(PlanFor[call[c].ask].kind, call[c].found, MaxResults))
=============================================================================
