----------------------------- MODULE AnswerFusion -----------------------------
(***************************************************************************)
(* From the vendors' rows to one answer: what each client keeps of a row,  *)
(* the rank fusion of several legs, the suppression of near copies, the    *)
(* cut, and whose answer text is given.                                    *)
(*                                                                         *)
(* A row is [page, text, snippet, body]: the page its address normalizes   *)
(* to ("" where the row has no address), the class of near-identical texts *)
(* it belongs to ("" where it has too little text to tell), and how much   *)
(* there is of its snippet and of its page content: 0 nothing, 1 too short *)
(* to count, 2 enough.                                                     *)
(***************************************************************************)
EXTENDS VendorRequest, FiniteSets

CONSTANTS
  Places,   \* the rows of the longest list that a vendor may answer with
  Scale     \* shares are whole numbers of 1 / Scale

RRF_K == 60

ASSUME FusionAssumption ==
  /\ Places \in Nat \ {0}
  /\ Scale \in Nat \ {0}
  /\ \A rank \in 0..(Places - 1) : Scale % (RRF_K + rank) = 0

Rows == [page : STRING, text : STRING, snippet : 0..2, body : 0..2]

-----------------------------------------------------------------------------
(* What a client keeps.                                                     *)

\* Tavily's client: every row, the content where it was asked for.
TavilyItem(row, sent) == [row EXCEPT !.body = IF sent.content THEN @ ELSE 0]

\* Firecrawl's and Exa's: the content also stands in for a missing snippet.
WebItem(row, sent) ==
  [row EXCEPT !.snippet = IF @ = 0 THEN row.body ELSE @,
              !.body = IF sent.content THEN @ ELSE 0]

\* The deep search has no snippets, xAI neither snippets nor content, and both
\* drop a row without an address.
DeepItem(row) == [row EXCEPT !.snippet = 0]
XaiItem(row)  == [row EXCEPT !.snippet = 0, !.body = 0]

Addressed(rows) == Picked(rows, {i \in DOMAIN rows : rows[i].page # ""})

Items(dialled, rows) ==
  LET sent == Sends(dialled.vendor, dialled.params)
      v    == dialled.vendor
      kept == IF v \in {"xai", "exa-deep"} THEN Addressed(rows) ELSE rows
  IN [i \in DOMAIN kept |->
        CASE v = "tavily"             -> TavilyItem(kept[i], sent)
          [] v \in {"firecrawl", "exa"} -> WebItem(kept[i], sent)
          [] v = "exa-deep"           -> DeepItem(kept[i])
          [] v = "xai"                -> XaiItem(kept[i])]

-----------------------------------------------------------------------------
(* Reciprocal rank fusion.                                                  *)

\* An item without an address goes by its text, and by nothing else than its
\* place in the input if it has too little of that.
ResultKey(item, ordinal) ==
  CASE item.page # ""                  -> <<"page", item.page>>
    [] item.page = "" /\ item.text # "" -> <<"text", item.text>>
    [] OTHER                           -> <<"stub", ordinal>>

\* quality, in quarters.
Quality(item)  == IF item.snippet = 2 \/ item.body = 2 THEN 4 ELSE 1
Richness(item) == item.snippet + item.body

\* weight * quality / (k + rank).
Contribution(weight, item, rank) == (weight * Quality(item) * Scale) \div (RRF_K + rank)

\* Where the items of the lists stand, and whether spot a comes before spot b in
\* the input: a lesser ordinal.
Spots(lists) == UNION {{l} \X DOMAIN lists[l].items : l \in DOMAIN lists}

Precedes(a, b) == a[1] < b[1] \/ (a[1] = b[1] /\ a[2] < b[2])

ItemAt(lists, spot) == lists[spot[1]].items[spot[2]]
KeyAt(lists, spot)  == ResultKey(ItemAt(lists, spot), spot)

Alike(lists, spot) == {other \in Spots(lists) : KeyAt(lists, other) = KeyAt(lists, spot)}

\* One entry for a key: its first spot in the input stands for it and breaks
\* ties, the shares of its items add up, and the richest is shown.
Firsts(lists) == {spot \in Spots(lists) : \A other \in Alike(lists, spot) : ~Precedes(other, spot)}

Share(lists, l, i, spot) ==
  IF KeyAt(lists, <<l, i>>) = KeyAt(lists, spot)
  THEN Contribution(lists[l].weight, lists[l].items[i], i - 1) ELSE 0

Score(lists, spot) ==
  Total([l \in DOMAIN lists |->
           Total([i \in DOMAIN lists[l].items |-> Share(lists, l, i, spot)])])

Richest(lists, spot) ==
  CHOOSE rich \in Alike(lists, spot) :
    \A other \in Alike(lists, spot) :
      LET r == Richness(ItemAt(lists, rich))
          o == Richness(ItemAt(lists, other))
      IN r > o \/ (r = o /\ ~Precedes(other, rich))

Entries(lists) ==
  {[score |-> Score(lists, spot), at |-> spot, item |-> ItemAt(lists, Richest(lists, spot))] :
     spot \in Firsts(lists)}

\* Mutant: entries come out in the order they came in.
AheadUnsorted(a, b) == Precedes(a.at, b.at)

\* The order of the result: by the score, then by the ordinal.
AheadOf(a, b) == a.score > b.score \/ (a.score = b.score /\ Precedes(a.at, b.at))

\* Before the k-th stand k - 1.
ReciprocalRankFusion(lists) ==
  LET entries == Entries(lists)
  IN [k \in 1..Cardinality(entries) |->
        (CHOOSE e \in entries : Cardinality({f \in entries : AheadOf(f, e)}) = k - 1).item]

\* dedupe_near_duplicates: an item goes if one before it has its text.
DedupeNearDuplicates(items) ==
  Picked(items, {i \in DOMAIN items :
                   items[i].text = "" \/ \A j \in 1..(i - 1) : items[j].text # items[i].text})

\* The items of a single chain: the first for an address, then no near copies.
DedupeSingle(items) ==
  DedupeNearDuplicates(
    Picked(items, {i \in DOMAIN items :
                     items[i].page = "" \/ \A j \in 1..(i - 1) : items[j].page # items[i].page}))

-----------------------------------------------------------------------------
(* The answer.  What a leg brought is [served, items, answers]; the legs    *)
(* come in the order the plan names them, the first with the full weight.   *)

\* The items of a leg that stand in the result, by address.
Representatives(items, merged) ==
  Cardinality({i \in DOMAIN items :
                 items[i].page # "" /\ \E j \in DOMAIN merged : merged[j].page = items[i].page})

\* Mutant: the first leg with a text is taken.
PickFirst(legs, merged) ==
  LET answering == {l \in DOMAIN legs : legs[l].answers}
  IN IF answering = {} THEN 0 ELSE CHOOSE l \in answering : \A k \in answering : l <= k

\* pick_answer: the leg with a text that has most items in the result, the
\* first of equals; 0 if no leg has a text.
PickAnswer(legs, merged) ==
  LET answering == {l \in DOMAIN legs : legs[l].answers}
      Shown(l)  == Representatives(legs[l].items, merged)
  IN IF answering = {} THEN 0
     ELSE CHOOSE l \in answering :
            \A k \in answering : Shown(l) > Shown(k) \/ (Shown(l) = Shown(k) /\ l <= k)

Merged(kind) == kind \in {"hybrid", "blend"}

\* Whether there is an answer at all: legs that are fused need an item between
\* them, a lone leg only has to be served.
Served(kind, legs) ==
  \E l \in DOMAIN legs : legs[l].served /\ (Merged(kind) => legs[l].items # <<>>)

\* The items of the answer: hybrid and blend fuse, dedupe and cut, a single
\* chain only dedupes, the deep call does neither.
Fused(kind, legs, limit) ==
  CASE kind = "deep"   -> legs[1].items
    [] kind = "single" -> DedupeSingle(legs[1].items)
    [] Merged(kind)    ->
         LET all == DedupeNearDuplicates(ReciprocalRankFusion(
                      [l \in DOMAIN legs |->
                         [items |-> legs[l].items, weight |-> IF l = 1 THEN 10 ELSE 7]]))
         IN SubSeq(all, 1, IF limit < Len(all) THEN limit ELSE Len(all))

=============================================================================
