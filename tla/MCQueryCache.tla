----------------------------- MODULE MCQueryCache -----------------------------
(* Requests and scripts small enough for TLC: a handful of requests that mean *)
(* the same or nearly the same in every sequence of three, and a wide set of  *)
(* requests that come alone.                                                  *)
EXTENDS QueryCache

Spelt(how, w) == [how |-> how, word |-> w]
Blank         == Spelt("blank", "")
Dressed(names) == [how |-> "dressed", names |-> names]
Host(name)     == [how |-> "exact", names |-> <<name>>]

Search(q)  == [research |-> FALSE, body |-> q]
Asking(r)  == [research |-> TRUE, body |-> r]

Base == [Plain EXCEPT !.from = Exact("march"), !.domains = <<Host("a"), Host("b")>>, !.content = "no"]

RBase == [PlainResearch EXCEPT !.from = Base.from, !.domains = Base.domains]

Near == <<
  Search(Base),
  Search([Base EXCEPT !.query = "spaced", !.mode = Blank, !.provider = Spelt("folded", "auto"),
                      !.from = Spelt("folded", "march"), !.domains = <<Dressed(<<"a", "b">>)>>]),
  Asking(RBase),
  Asking([RBase EXCEPT !.social = 1, !.query = "spaced", !.domains = <<Dressed(<<"a", "b">>)>>]),
  Asking([RBase EXCEPT !.deep = TRUE])>>

Odd == <<
  Search([Plain EXCEPT !.depth = Spelt("joined", "deep-lite"), !.provider = Exact("exa")]),
  Asking([RBase EXCEPT !.backend = Spelt("folded", "tavily")]),
  Search([Plain EXCEPT !.domains = <<[how |-> "mistyped", names |-> <<"my site">>]>>]),
  Search([Plain EXCEPT !.mode = Exact("banana")]),
  Asking([PlainResearch EXCEPT !.handles = <<Host("ann")>>, !.content = "yes"]),
  Asking([PlainResearch EXCEPT !.deep = TRUE, !.social = 1]),
  Search([Plain EXCEPT !.chunks = "zero"])>>

Modes     == <<Absent, Blank, Exact("web"), Spelt("folded", "social"), Exact("docs"), Exact("research")>>
Lists     == <<<<>>, <<Exact("x")>>, <<Exact("web"), Spelt("folded", "social")>>,
               <<Spelt("folded", "news"), Blank>>, <<Exact("images")>>, <<Exact("news"), Exact("images")>>>>
Providers == <<Absent, Exact("exa"), Spelt("joined", "social")>>
Heuristics == <<[text |-> {}, strategy |-> Absent], [text |-> {"news", "tutorial"}, strategy |-> Absent],
                [text |-> {}, strategy |-> Exact("deep")]>>

Place(how, place) == [how |-> how, place |-> place]
Hosts(names)      == [i \in DOMAIN names |-> Host(names[i])]
SixHosts          == Hosts(<<"a", "b", "c", "d", "e", "f">>)

\* What is left to the vendors: every pair with a route, as 13 divides no count.
Knobs(country, from, range, content, raw, depth, domains) ==
  [country |-> country, from |-> from, range |-> range, content |-> content, raw |-> raw,
   depth |-> depth, domains |-> domains]

VendorKnobs == <<
  Knobs(NoCountry, Absent, Absent, "unset", FALSE, Absent, <<>>),
  Knobs(Place("code", "id"), Absent, Exact("w"), "no", FALSE, Absent, <<>>),
  Knobs(Place("everyday", "uk"), Exact("march"), Exact("week"), "unset", FALSE, Absent, <<>>),
  Knobs(Place("unlisted", "narnia"), Absent, Absent, "yes", FALSE, Absent, <<>>),
  Knobs(Place("name", "id"), Absent, Absent, "unset", TRUE, Absent, <<>>),
  Knobs(NoCountry, Exact("soon"), Exact("day"), "unset", FALSE, Absent, <<>>),
  Knobs(NoCountry, Absent, Absent, "yes", FALSE, Absent, SixHosts),
  Knobs(NoCountry, Absent, Absent, "no", TRUE, Absent, Hosts(<<"a">>)),
  Knobs(NoCountry, Absent, Absent, "unset", FALSE, Exact("deep"), Hosts(<<"a">>)),
  Knobs(NoCountry, Spelt("folded", "march"), Absent, "yes", FALSE, Exact("advanced"), <<>>),
  Knobs(Place("unlisted", "narnia"), Absent, Spelt("folded", "m"), "unset", FALSE, Absent, SixHosts),
  Knobs(NoCountry, Blank, Exact("year"), "unset", FALSE, Exact("basic"), <<>>),
  Knobs(NoCountry, Spelt("folded", "march"), Exact("d"), "yes", TRUE, Exact("deep-lite"), SixHosts)>>

Alternatives == 6 * 6 * 3 * 3 * 2

\* The n-th of the searches that come alone, n counting through all choices.
KnobbedSearch(n, heuristic, knobs) ==
  Search([Plain EXCEPT
    !.country = knobs.country, !.from = knobs.from, !.range = knobs.range,
    !.content = knobs.content, !.raw = knobs.raw, !.depth = knobs.depth,
    !.domains = knobs.domains,
    !.mode     = Modes[(n % 6) + 1],
    !.sources  = Lists[((n \div 6) % 6) + 1],
    !.provider = Providers[((n \div 36) % 3) + 1],
    !.text     = heuristic.text,
    !.strategy = heuristic.strategy,
    !.handles  = IF n \div 324 = 0 THEN <<>> ELSE <<Host("ann")>>])

AloneSearch(i) ==
  KnobbedSearch(i - 1, Heuristics[(((i - 1) \div 108) % 3) + 1], VendorKnobs[((i - 1) % 13) + 1])

\* Five near requests, seven odd ones, and the rest.
MCRequests ==
  [i \in 1..(12 + Alternatives) |-> IF i <= 12 THEN (Near \o Odd)[i] ELSE AloneSearch(i - 12)]

MCAlone == 6..(12 + Alternatives)

Row(page, text, snippet, body) == [page |-> page, text |-> text, snippet |-> snippet, body |-> body]
Find(rows, answers) == [rows |-> rows, answers |-> answers]

\* Pages two legs rank differently, one under two addresses, rows without an
\* address or without any text to tell them by, a page listed twice, a row without
\* an address before a page, nothing.
MCFinds == {
  Find(<<Row("p", "", 2, 0), Row("q", "a", 2, 0)>>, TRUE),
  Find(<<Row("q", "a", 2, 2), Row("r", "a", 1, 0), Row("p", "", 1, 0)>>, TRUE),
  Find(<<Row("", "b", 1, 1), Row("", "", 1, 0), Row("s", "b", 0, 2)>>, FALSE),
  Find(<<Row("q", "", 0, 0), Row("q", "a", 2, 0)>>, TRUE),
  Find(<<Row("", "", 0, 0)>>, TRUE),
  Find(<<Row("", "z", 2, 0), Row("p", "", 1, 0)>>, TRUE),
  Find(<<>>, FALSE)}

Sym == Permutations(Calls)
=============================================================================
