------------------------------ MODULE ResearchRun ------------------------------
(***************************************************************************)
(* A request of the extract surface: an extract request or a research job   *)
(* on the Tavily backend (ExtractRun), or a research request that this      *)
(* program orchestrates itself.                                             *)
(*                                                                         *)
(* Standard research searches the web, then scrapes its best hits, a bounded *)
(* number at a time and yielded in rank order, while the social leg asks    *)
(* xAI.  Deep research searches, scrapes one hit after another, asks xAI    *)
(* for a synthesis while it searches again, and refines the synthesis with  *)
(* the pages the second search added.                                      *)
(*                                                                         *)
(* A search is one run of SearchRun and a scrape one plain run of           *)
(* ExtractRun: here each only ends, having called a vendor or not (the      *)
(* cache, or no key), and leaves a meta.  Of the clock the code asks two    *)
(* things, is there time to refine and is there time to scrape, so it has   *)
(* three readings: "ample", "short" and "late".                             *)
(***************************************************************************)
EXTENDS ExtractRun, Picks

CONSTANTS
  Urls,        \* the urls a search may list
  PageOf,      \* normalize_url: the page a url names
  Listings,    \* the lists of hits a search may bring, in rank order
  ScrapeTop,   \* scrape_top_n
  Concurrency, \* SCRAPE_CONCURRENCY
  SocialTries  \* SOCIAL_ATTEMPTS

ASSUME ResearchAssumption ==
  /\ PageOf \in [Urls -> STRING]
  /\ Listings \subseteq Seq(Urls) /\ <<>> \in Listings
  /\ ScrapeTop \in Nat
  /\ Concurrency \in Nat \ {0} /\ SocialTries \in Nat \ {0}

VARIABLES
  kind,    \* "extract", "standard" or "deep"
  schema,  \* deep: the client gave an output schema
  step,    \* where a research request is
  clock,   \* what the deadline leaves time for
  listed,  \* web_items: what the searches listed, in order
  targets, \* the urls the scrape pass under way has yet to start
  scraped, \* the pages of all passes, in order
  busy,    \* standard: the scrapes that run or wait to be yielded
  social,  \* standard: the social leg
  synth,   \* deep: the synthesis: the pass that made it, and its answer
  second,  \* deep: the second search
  meta,    \* the execution meta
  part,    \* the meta of the leg that is not absorbed yet
  result,  \* "none", "served", "failed" or "cut"
  calls,   \* history: vendor calls that ended
  early    \* history: the pages scraped before the second search was read

resVars  == <<step, clock, listed, targets, scraped, busy, social, synth, second,
              meta, part, result, calls, early>>
rvars    == <<kind, schema, resVars, reqVars>>

-----------------------------------------------------------------------------
(* Metas: the calls noted, the leg whose key is billed, whether it answered. *)

NoMeta == [count |-> 0, key |-> "none", won |-> FALSE]

Absorb(m, o) ==
  [count |-> m.count + o.count,
   key   |-> IF o.won \/ (~m.won /\ o.key # "none") THEN o.key ELSE m.key,
   won   |-> m.won \/ o.won]

\* The meta of leg l that ended well or not, after n calls.
LegMeta(l, ok, n) ==
  IF n = 0 THEN NoMeta ELSE [count |-> n, key |-> l, won |-> ok]

Pages(s) == {PageOf[s[i]] : i \in DOMAIN s}

\* What a scrape of url u brings: the text of the page, under the url that the
\* vendor gives it (it may have been redirected), or an error.
Scrapes(u) == [url : {u}, named : Urls, text : {TRUE}] \cup
              {[url |-> u, named |-> u, text |-> FALSE]}

\* has_usable_content
Usable(ps) == \E i \in DOMAIN ps : ps[i].text

\* select_scrape_targets
Top(s) == SubSeq(s, 1, IF Len(s) < ScrapeTop THEN Len(s) ELSE ScrapeTop)

\* Mutant: urls are compared as they were written.
FreshVerbatim(s, ps) ==
  Picked(s, {i \in DOMAIN s : s[i] \notin {ps[j].named : j \in DOMAIN ps}})

\* The pages that were scraped, by the urls their vendors gave them.
Known(ps) == {PageOf[ps[i].named] : i \in DOMAIN ps}

\* The urls of s whose page is not among the scraped ones.
Fresh(s, ps) == Picked(s, {i \in DOMAIN s : PageOf[s[i]] \notin Known(ps)})

\* The places of s at which a page is met that is not in l nor before in s.
NewPlaces(l, s) ==
  {i \in DOMAIN s : /\ PageOf[s[i]] \notin Pages(l)
                    /\ \A j \in 1..(i - 1) : PageOf[s[j]] # PageOf[s[i]]}

\* web_items with what s adds: a page that is listed is not listed again.
Merged(l, s) == l \o Picked(s, NewPlaces(l, s))

-----------------------------------------------------------------------------
Idle == [pc |-> "none", list |-> <<>>, meta |-> NoMeta]

NoSynthesis == [by |-> "none", answer |-> "none"]

ResearchTypeOK ==
  /\ kind = "extract" => ExtractTypeOK
  /\ kind \in {"extract", "standard", "deep"}
  /\ clock \in {"ample", "short", "late"}
  /\ \A i \in DOMAIN scraped : scraped[i] \in Scrapes(scraped[i].url)
  /\ Len(busy) <= Concurrency
  /\ social.pc \in {"off", "run", "ok", "soft"} /\ social.tries \in 1..SocialTries
  /\ synth \in [by : {"none", "first", "refined"}, answer : Texts]
  /\ second.pc \in {"none", "running", "failed", "found"}
  /\ result \in {"none", "served", "failed", "cut"}

\* The social leg is off when socialMaxResults is 0 or the setting is.
Init ==
  /\ kind \in {"extract", "standard", "deep"}
  /\ schema \in (IF kind = "deep" THEN BOOLEAN ELSE {FALSE})
  /\ ExtractStart(IF kind = "extract" THEN ExtractRequests \cup {BackendRequest}
                                      ELSE {BackendRequest})
  /\ step = IF kind = "standard" THEN "cache" ELSE "search"
  /\ clock = "ample"
  /\ listed = <<>> /\ targets = <<>> /\ scraped = <<>> /\ busy = <<>>
  /\ social \in [pc : IF kind = "standard" THEN {"off", "run"} ELSE {"off"},
                  tries : {1}, meta : {NoMeta}]
  /\ synth = NoSynthesis /\ second = Idle
  /\ meta = NoMeta /\ part = NoMeta
  /\ result = "none"
  /\ calls = 0 /\ early = {}

\* No step of an orchestrated request moves the variables of ExtractRun, but for
\* the cache row.
Orchestrated(k) ==
  /\ kind = k /\ result = "none"
  /\ UNCHANGED <<kind, schema, req, pc, hop, attempt, errs, lease, left, answer, page,
                 reqHistory>>

-----------------------------------------------------------------------------
(* Both.                                                                    *)

\* Only the standard path has a cache of its own.
FromCache ==
  /\ Orchestrated("standard") /\ step = "cache"
  /\ step' = IF row THEN "done" ELSE "search"
  /\ result' = IF row THEN "served" ELSE "none"
  /\ UNCHANGED <<clock, listed, targets, scraped, busy, social, synth, second, meta,
                 part, calls, early, row>>

\* The first search; without it there is no research.
Search(k) ==
  /\ Orchestrated(k) /\ step = "search"
  /\ \E n \in 0..1 :
       /\ calls' = calls + n
       /\ \/ /\ listed' \in Listings
             /\ targets' = Top(listed')
             /\ meta' = Absorb(meta, LegMeta("web", TRUE, n))
             /\ step' = "scrape" /\ UNCHANGED result
          \/ /\ meta' = Absorb(meta, LegMeta("web", FALSE, n))
             /\ result' = "failed" /\ step' = "done"
             /\ UNCHANGED <<listed, targets>>
  /\ UNCHANGED <<clock, scraped, busy, social, synth, second, part, early, row>>

\* The deadline of the handler, or a client that goes away.
Drop ==
  /\ kind # "extract" /\ result = "none"
  /\ result' = "cut" /\ step' = "done"
  /\ UNCHANGED <<kind, schema, reqVars, clock, listed, targets, scraped, busy, social, synth,
                 second, meta, part, calls, early>>

-----------------------------------------------------------------------------
(* Standard research.                                                       *)

Gathering == Orchestrated("standard") /\ step = "scrape"

\* buffered: a scrape keeps its place until it and all before it are done.
ScrapeStarts ==
  /\ Gathering
  /\ targets # <<>> /\ Len(busy) < Concurrency
  /\ busy' = Append(busy, [done |-> FALSE, url |-> Head(targets)])
  /\ targets' = Tail(targets)
  /\ UNCHANGED <<step, clock, listed, scraped, social, synth, second, meta, part,
                 result, calls, early, row>>

ScrapeEnds(i) ==
  /\ Gathering
  /\ i \in DOMAIN busy /\ ~busy[i].done
  /\ \E p \in Scrapes(busy[i].url), n \in 0..1 :
       /\ busy' = [busy EXCEPT ![i] = [done |-> TRUE, page |-> p, count |-> n]]
       /\ calls' = calls + n
  /\ UNCHANGED <<step, clock, listed, targets, scraped, social, synth, second, meta,
                 part, result, early, row>>

\* The oldest scrape is yielded once it is done, and its meta absorbed.
ScrapeYields ==
  /\ Gathering
  /\ busy # <<>> /\ Head(busy).done
  /\ LET s == Head(busy)
     IN /\ scraped' = Append(scraped, s.page)
        /\ part' = Absorb(part, LegMeta("scrape", s.page.text, s.count))
  /\ busy' = Tail(busy)
  /\ UNCHANGED <<step, clock, listed, targets, social, synth, second, meta, result,
                 calls, early, row>>

\* An attempt of the social leg ends: with posts, for good, or to be tried again.
SocialEnds ==
  /\ Gathering
  /\ social.pc = "run"
  /\ \E n \in 0..1, end \in {"ok", "soft", "run"} :
       /\ end = "ok" => n = 1
       /\ end = "run" => n = 1 /\ social.tries < SocialTries
       /\ calls' = calls + n
       /\ social' = [pc |-> end,
                     tries |-> IF end = "run" THEN social.tries + 1 ELSE social.tries,
                     meta |-> Absorb(social.meta, LegMeta("social", end = "ok", n))]
  /\ UNCHANGED <<step, clock, listed, targets, scraped, busy, synth, second, meta,
                 part, result, early, row>>

\* Mutant: the social leg's failed attempts are not in the meta.
GatheredAnswers ==
  /\ Gathering
  /\ targets = <<>> /\ busy = <<>> /\ social.pc # "run"
  /\ meta' = IF social.pc = "ok" THEN Absorb(Absorb(meta, part), social.meta)
             ELSE Absorb(meta, part)
  /\ row' \in {row, TRUE}
  /\ result' = "served" /\ step' = "done"
  /\ UNCHANGED <<clock, listed, targets, scraped, busy, social, synth, second, part,
                 calls, early>>

\* Both are done: the scrapes' metas, then the social leg's, whichever ended
\* first.  Failed scrapes and a failed social leg are in the answer, and so in
\* the stored one.
Gathered ==
  /\ Gathering
  /\ targets = <<>> /\ busy = <<>> /\ social.pc # "run"
  /\ meta' = Absorb(Absorb(meta, part), social.meta)
  /\ row' \in {row, TRUE}
  /\ result' = "served" /\ step' = "done"
  /\ UNCHANGED <<clock, listed, targets, scraped, busy, social, synth, second, part,
                 calls, early>>

-----------------------------------------------------------------------------
(* Deep research.                                                           *)

\* Time passes.
Tick ==
  /\ Orchestrated("deep")
  /\ \/ clock = "ample" /\ clock' \in {"short", "late"}
     \/ clock = "short" /\ clock' = "late"
  /\ UNCHANGED <<step, listed, targets, scraped, busy, social, synth, second, meta,
                 part, result, calls, early, row>>

\* One page after another, while there is time, in the first pass and the second.
DeepScrape ==
  /\ Orchestrated("deep") /\ step \in {"scrape", "refine"}
  /\ targets # <<>> /\ clock # "late"
  /\ \E p \in Scrapes(Head(targets)), n \in 0..1 :
       /\ scraped' = Append(scraped, p)
       /\ meta' = Absorb(meta, LegMeta("scrape", p.text, n))
       /\ calls' = calls + n
  /\ targets' = Tail(targets)
  /\ UNCHANGED <<step, clock, listed, busy, social, synth, second, part, result, early,
                 row>>

\* The first pass is over; with ample time the second search starts beside the
\* first synthesis.
Synthesize1 ==
  /\ Orchestrated("deep") /\ step = "scrape"
  /\ targets = <<>> \/ clock = "late"
  /\ step' = "synth1" /\ targets' = <<>>
  /\ second' = [Idle EXCEPT !.pc = IF clock = "ample" THEN "running" ELSE "none"]
  /\ UNCHANGED <<clock, listed, scraped, busy, social, synth, meta, part, result, calls,
                 early, row>>

\* What a call for a synthesis may bring.
Completions == {"none"} \cup {CompleteText(r) : r \in CompleteReplies}

\* Mutant: what comes under the client's schema is parsed as well.
ParsedAnyway(text, own) == {text, "blank"}

\* synthesis_from_text: under the client's schema the text is the answer.  Under
\* the program's it is an object with an answer, which may be blank; what is no
\* such object is the answer as it stands.
Parsed(text, own) == IF own THEN {text} ELSE {text, "blank"}

\* Mutant: a failed refinement discards the first answer.
SynthesisForgets(pass, to) ==
  /\ \E text \in Completions :
       /\ synth' = IF HasText(text) THEN [by |-> pass, answer |-> text] ELSE NoSynthesis
       /\ part' = LegMeta("synth", HasText(text), 1)
  /\ calls' = calls + 1
  /\ step' = to

\* The synthesis at which the request is ends.  No usable page or no key, and xAI
\* is not called; else it makes an answer, unless the call fails, takes too long
\* or brings no text.
Synthesis(pass, to) ==
  /\ \/ UNCHANGED <<synth, calls>> /\ part' = NoMeta
     \/ /\ Usable(scraped)
        /\ \E text \in Completions :
             /\ IF HasText(text)
                  THEN \E said \in Parsed(text, schema) :
                          synth' = [by |-> pass, answer |-> said]
                  ELSE UNCHANGED synth
             /\ part' = LegMeta("synth", HasText(text), 1)
        /\ calls' = calls + 1
  /\ step' = to

Synthesized1 ==
  /\ Orchestrated("deep") /\ step = "synth1"
  /\ Synthesis("first", "join")
  /\ UNCHANGED <<clock, listed, targets, scraped, busy, social, second, meta, result,
                 early, row>>

\* The second search never answers from the cache, which would repeat the first.
SecondEnds ==
  /\ Orchestrated("deep") /\ second.pc = "running"
  /\ \E n \in 0..1, list \in Listings, ok \in BOOLEAN :
       /\ calls' = calls + n
       /\ ok => n = 1
       /\ ~ok => list = <<>>
       /\ second' = [pc |-> IF ok THEN "found" ELSE "failed", list |-> list,
                     meta |-> LegMeta("web", ok, n)]
  /\ UNCHANGED <<step, clock, listed, targets, scraped, busy, social, synth, meta, part,
                 result, early, row>>

\* Both have ended: their metas, the new citations and the new pages to scrape.
\* Without new pages, or without a second list, the first answer stands.
Join ==
  /\ Orchestrated("deep") /\ step = "join" /\ second.pc # "running"
  /\ meta' = Absorb(Absorb(meta, part), second.meta)
  /\ listed' = Merged(listed, second.list)
  /\ targets' = Top(Fresh(second.list, scraped))
  /\ early' = Known(scraped)
  /\ step' = IF targets' = <<>> THEN "end" ELSE "refine"
  /\ part' = NoMeta
  /\ UNCHANGED <<clock, scraped, busy, social, synth, second, result, calls, row>>

\* The refinement runs over all pages, the first pass's and its own.
Synthesized2 ==
  /\ Orchestrated("deep") /\ step = "refine"
  /\ targets = <<>> \/ clock = "late"
  /\ Synthesis("refined", "end")
  /\ targets' = <<>>
  /\ UNCHANGED <<clock, listed, scraped, busy, social, second, meta, result, early, row>>

DeepAnswers ==
  /\ Orchestrated("deep") /\ step = "end"
  /\ meta' = Absorb(meta, part)
  /\ result' = "served" /\ step' = "done"
  /\ UNCHANGED <<clock, listed, targets, scraped, busy, social, synth, second, part,
                 calls, early, row>>

-----------------------------------------------------------------------------
ExtractNext ==
  /\ kind = "extract"
  /\ ExtractStep \/ Cut
  /\ UNCHANGED <<kind, schema, resVars>>

StandardStep ==
  \/ FromCache
  \/ Search("standard")
  \/ ScrapeStarts
  \/ \E i \in 1..Concurrency : ScrapeEnds(i)
  \/ ScrapeYields
  \/ SocialEnds
  \/ Gathered

DeepStep ==
  \/ Search("deep")
  \/ DeepScrape
  \/ Synthesize1
  \/ Synthesized1
  \/ SecondEnds
  \/ Join
  \/ Synthesized2
  \/ DeepAnswers

Next ==
  \/ ExtractNext
  \/ StandardStep
  \/ DeepStep
  \/ Tick
  \/ Drop

Spec == Init /\ [][Next]_rvars

\* Every call has a timeout, every wait of the pool one, so a request that can
\* step does.  Neither the deadline nor the clock is needed for it to end.
FairSpec ==
  /\ Spec
  /\ WF_rvars(kind = "extract" /\ ExtractStep /\ UNCHANGED <<kind, schema, resVars>>)
  /\ WF_rvars(StandardStep)
  /\ WF_rvars(DeepStep)

-----------------------------------------------------------------------------
(* Properties.                                                              *)

\* Every request of the extract surface ends by itself: the polls of a job run
\* into their window, the scrapes of both passes and the attempts run out, and no
\* yield waits for a scrape that was never started.
RequestEnds == <>(answer # "none" \/ result # "none")

\* The second search adds no page that was known: the refinement scrapes none that
\* a vendor gave back in the first pass (it may scrape again a url that the vendor
\* gave back under another), and no page is cited for both searches, however the
\* vendors spell its url.
RefineIsNovel ==
  /\ step' = "refine" => Pages(targets') \cap early' = {}
  /\ listed # <<>> =>
       \A i \in Len(listed) + 1 .. Len(listed') :
         \A j \in 1 .. i - 1 : PageOf[listed'[i]] # PageOf[listed'[j]]

\* The meta of a research that was answered or failed has every call that any of
\* its legs made, failed ones and those of a search that was of no use included.
ResearchMetaExact == result \in {"served", "failed"} => meta.count = calls

\* An answer is there for good once there is one, and none is made without a page
\* that has text.  Only a completion that brought text replaces an answer, and only
\* one of the program's own schema can put a blank answer in the place of a text.
AnswerIsKept ==
  /\ synth.by # "none" => synth'.by # "none"
  /\ synth' # synth => Usable(scraped) /\ part'.won
  /\ HasText(synth.answer) /\ ~HasText(synth'.answer) => ~schema

\* A refinement round scrapes no page that the first pass brought, cites none
\* twice, and leaves the response with an answer where the first round had one:
\* the first, unless a completion with text replaced it.  That one's answer may be
\* blank where the client gave no schema: the code does not look at what it parsed.
RefinementIsSafe == [][RefineIsNovel /\ AnswerIsKept]_rvars

=============================================================================
