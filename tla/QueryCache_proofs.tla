-------------------------- MODULE QueryCache_proofs --------------------------
(***************************************************************************)
(* Proofs about QueryCache, for any requests, any TTL and deadline, any    *)
(* number of calls and whatever the vendors find: how old an answer may be *)
(* when it is given, whose answer it is, and what it is made of.           *)
(*                                                                         *)
(* AnswerAge speaks of answered calls only.  What leads there is the age   *)
(* of the rows (RowOK: how long after its vendor answer a row may live)    *)
(* and of what a running call holds, against the instant it was started    *)
(* at (CallOK).                                                            *)
(*                                                                         *)
(* RowsKeepMeaning compares rows by what clients meant, where the code     *)
(* compares them by their keys.  Field by field, two texts that were let   *)
(* in have one canonical form if and only if they mean the same: knobs and *)
(* dates, filter lists, source lists, then a whole search, a research, and *)
(* the search a research asks for its web leg.  KeysTell puts these        *)
(* together; after it, the cache is a matter of keys (MeanInv).            *)
(*                                                                         *)
(* AskIsHonoured follows a search from the body to the wire.  Its          *)
(* canonical form still says what the body meant (StandsFor); the gates,   *)
(* the route table and the plan read only that (GateIs, TopRuleIs, PlanIs) *)
(* and so lead where the client named; each call is then followed through  *)
(* what its leg hands over (DialIs, HandsOver) to what its vendor's client *)
(* makes of it (SendsIs).                                                  *)
(*                                                                         *)
(* AnswerIsFused is about what a call holds when it stores, which is what  *)
(* the legs of its own ask brought (FoundInv).  Equal keys are equal pages *)
(* or texts (KeyTells), an entry has one first item (FirstIs), entries     *)
(* come out by their scores (FusedIs), and the cut is all that is lost     *)
(* (CutShows).  Shares are exact and fall with the rank (UnitFalls), so    *)
(* whoever outranks scores more, place by place (BetterScore); and two     *)
(* shares of the first twenty outweigh any one (TwoAreMore, AgreedScore).  *)
(***************************************************************************)
EXTENDS QueryCache, Picks_proofs, TLAPS

Life == IF TTL > 1 THEN TTL ELSE 1

LEMMA LifeType ==
  /\ Life \in Nat \ {0} /\ Deadline \in Nat \ {0} /\ Lifetime \in Nat
  /\ Lifetime = Life + Deadline - 1
BY CacheAssumption, SMT DEF Life, Lifetime

-----------------------------------------------------------------------------
(* Asks and their keys.                                                     *)

Surfaces == {"search", "web", "research"}

AskRecs == [surface : Surfaces, of : DOMAIN Requests \cup {0}]

\* The surface of an ask is one that its request has.
RightSurface(ask) ==
  /\ ask.of \in DOMAIN Requests
  /\ ask.surface = "search" => ~IsResearch(ask.of)
  /\ ask.surface # "search" => IsResearch(ask.of)

LEMMA RightAsk ==
  ASSUME NEW ask \in AskRecs, RightSurface(ask)
  PROVE  ask \in Asks
<1> DEFINE S(i) == IF IsResearch(i) THEN {"research", "web"} ELSE {"search"}
           A(i) == {[surface |-> s, of |-> i] : s \in S(i)}
<1>1. ask.surface \in S(ask.of)
  BY SMT DEF RightSurface, AskRecs, Surfaces
<1>2. ask = [surface |-> ask.surface, of |-> ask.of]
  BY SMT DEF AskRecs
<1>3. ask \in A(ask.of)
  BY <1>1, <1>2, Zenon
<1>4. Asks = UNION {A(i) : i \in DOMAIN Requests}
  BY Zenon DEF Asks
<1> QED BY <1>3, <1>4, Zenon DEF RightSurface

\* A research and a search never share a key.
LEMMA KeysTellSurfaces ==
  ASSUME NEW a \in Asks, NEW b \in Asks, KeyOf[a] = KeyOf[b]
  PROVE  a.surface = "research" <=> b.surface = "research"
<1> DEFINE K(x) == IF x.surface = "research" THEN <<"research", ResearchKey(Research[x])>>
                   ELSE <<"search", SearchKey(Query[x])>>
<1>1. KeyOf[a] = K(a) /\ KeyOf[b] = K(b)
  BY Zenon DEF KeyOf
<1>2. ASSUME NEW x, NEW y, x.surface = "research", y.surface # "research"
      PROVE  K(x) # K(y)
  <2> DEFINE u == ResearchKey(Research[x])
             v == SearchKey(Query[y])
  <2>1. K(x) = <<"research", u>> /\ K(y) = <<"search", v>>
    BY <1>2, Zenon
  <2> HIDE DEF u, v, K
  <2> QED BY <2>1, SMT
<1> HIDE DEF K
<1> QED BY <1>1, <1>2, Zenon

-----------------------------------------------------------------------------
(* Rows and calls, at the instant t.                                        *)

\* A search's row dies within a lifetime of its vendor answer, a research's,
\* which may rest on a search's row, within two.
RowOK(row, t) ==
  /\ row.by \in Asks
  /\ row.heard \in Nat /\ row.expires \in Nat /\ row.heard <= t
  /\ row.expires <= row.heard + 1 + (IF row.by.surface = "research" THEN 2 * Lifetime
                                     ELSE Lifetime)

AskSets == SUBSET Asks

FoundSet == {<<>>} \cup UNION {Findings(ask) : ask \in DOMAIN Query}

Stages == {"idle", "look", "dial", "store", "leg", "answered"}

CallRecs ==
  [stage : Stages, ask : AskRecs, since : Nat,
   heard : Int, served : AskSets, pass : {1, 2}, found : FoundSet]

InFlight == {"look", "dial", "store", "leg"}

IsDeep(r) == IsResearch(r.ask.of) /\ Body(r.ask.of).deep

\* What AnswerAge says of one call.
AgeOK(r) ==
  IF ~IsResearch(r.ask.of) THEN r.heard <= Lifetime
  ELSE IF Body(r.ask.of).deep THEN r.heard <= Deadline /\ r.served = {}
  ELSE r.heard <= 2 * Lifetime

\* A running call is in its deadline; what it holds it has heard itself since it
\* was started, or, as a standard research, from a row that was live since then.
CallOK(r, t) ==
  /\ r \in CallRecs
  /\ r.stage = "answered" => AgeOK(r)
  /\ r.stage \in InFlight =>
       /\ RightSurface(r.ask)
       /\ r.since <= t /\ t <= r.since + Deadline
       /\ r.heard >= 0
       /\ IsDeep(r) => r.ask.surface = "web" /\ r.served = {}
       /\ r.stage = "leg" => r.ask.surface = "web"
       /\ r.stage \in {"store", "leg"} => r.heard <= t /\ r.since <= r.heard + Lifetime
       /\ r.stage = "store" /\ r.ask.surface # "research" => r.since <= r.heard
       /\ r.stage = "leg" /\ IsDeep(r) => r.since <= r.heard
       /\ r.pass = 2 => IsDeep(r) /\ r.since <= r.heard /\ r.heard <= t

AgeInv ==
  /\ now \in Nat
  /\ \A row \in cache : RowOK(row, now)
  /\ call \in [Calls -> CallRecs]
  /\ \A c \in Calls : CallOK(call[c], now)

-----------------------------------------------------------------------------
(* What the actions share.                                                  *)

\* A step of one call.
LEMMA OneCall ==
  ASSUME AgeInv, NEW c \in Calls, NEW r, CallOK(r, now), call' = [call EXCEPT ![c] = r],
         now' = now
  PROVE  call' \in [Calls -> CallRecs] /\ \A d \in Calls : CallOK(call'[d], now')
<1>1. r \in CallRecs
  BY Zenon DEF CallOK
<1>2. call' \in [Calls -> CallRecs]
  BY <1>1, Zenon DEF AgeInv
<1>3. ASSUME NEW d \in Calls PROVE CallOK(call'[d], now)
  <2>1. CASE d = c
    <3>1. call'[d] = r
      BY <2>1, SMT DEF AgeInv
    <3> QED BY <3>1, Zenon
  <2>2. CASE d # c
    <3>1. call'[d] = call[d]
      BY <2>2, SMT DEF AgeInv
    <3> QED BY <3>1, Zenon DEF AgeInv
  <2> QED BY <2>1, <2>2
<1> QED BY <1>2, <1>3, Zenon

\* A call that is over fits every instant.
LEMMA IdleOK == \A t \in Nat : CallOK(Idle, t)
<1>1. Idle \in CallRecs
  <2>1. <<>> \in FoundSet
    BY Zenon DEF FoundSet
  <2>2. {} \in AskSets
    BY Zenon DEF AskSets
  <2>3. [surface |-> "search", of |-> 0] \in AskRecs /\ "idle" \in Stages
    BY SMT DEF AskRecs, Surfaces, Stages
  <2> DEFINE ask == [surface |-> "search", of |-> 0]
             none == <<>>
             no == {}
  <2>4. ask \in AskRecs /\ none \in FoundSet /\ no \in AskSets /\ "idle" \in Stages
    BY <2>1, <2>2, <2>3
  <2>5. Idle = [stage |-> "idle", ask |-> ask, since |-> 0, heard |-> 0, served |-> no,
                pass |-> 1, found |-> none]
    BY Zenon DEF Idle
  <2> HIDE DEF ask, none, no
  <2> QED BY <2>4, <2>5, SMT DEF CallRecs
<1>2. Idle.stage = "idle"
  BY SMT DEF Idle
<1> QED BY <1>1, <1>2, SMT DEF CallOK, InFlight

\* A call that answers is a good record again.
LEMMA AnsweredType ==
  ASSUME AgeInv, NEW c \in Calls, NEW heard \in Nat
  PROVE  LET a == Answered(c, heard)
         IN /\ a \in CallRecs /\ a.stage = "answered" /\ a.heard = now - heard
            /\ a.ask = call[c].ask /\ a.served = call[c].served
<1> DEFINE k  == call[c]
           k1 == [k EXCEPT !.stage = "answered"]
           k2 == [k1 EXCEPT !.since = 0]
           k3 == [k2 EXCEPT !.pass = 1]
           k4 == [k3 EXCEPT !.found = <<>>]
           k5 == [k4 EXCEPT !.heard = now - heard]
<1>1. k \in CallRecs /\ now - heard \in Int
  BY SMT DEF AgeInv
<1>2. <<>> \in FoundSet /\ "answered" \in Stages /\ 0 \in Nat /\ 1 \in {1, 2}
  <2>1. <<>> \in FoundSet
    BY Zenon DEF FoundSet
  <2> QED BY <2>1, SMT DEF Stages
<1>3. Answered(c, heard) = k5
  BY Zenon DEF Answered
<1> HIDE DEF k, k1, k2, k3, k4, k5
<1>4. k1 \in CallRecs /\ k1.stage = "answered" /\ k1.ask = k.ask /\ k1.served = k.served
  BY <1>1, <1>2, SMT DEF CallRecs, k1
<1>5. k2 \in CallRecs /\ k2.stage = "answered" /\ k2.ask = k.ask /\ k2.served = k.served
  BY <1>2, <1>4, SMT DEF CallRecs, k2
<1>6. k3 \in CallRecs /\ k3.stage = "answered" /\ k3.ask = k.ask /\ k3.served = k.served
  BY <1>2, <1>5, SMT DEF CallRecs, k3
<1>7. k4 \in CallRecs /\ k4.stage = "answered" /\ k4.ask = k.ask /\ k4.served = k.served
  BY <1>2, <1>6, SMT DEF CallRecs, k4
<1>8. /\ k5 \in CallRecs /\ k5.stage = "answered" /\ k5.ask = k.ask /\ k5.served = k.served
      /\ k5.heard = now - heard
  BY <1>1, <1>7, SMT DEF CallRecs, k5
<1> QED BY <1>3, <1>8, Zenon DEF k

\* It may answer if what it holds is young enough for its surface.
LEMMA AnsweredOK ==
  ASSUME AgeInv, NEW c \in Calls, NEW heard \in Nat,
         IF ~IsResearch(call[c].ask.of) THEN now - heard <= Lifetime
         ELSE IF Body(call[c].ask.of).deep
         THEN now - heard <= Deadline /\ call[c].served = {}
         ELSE now - heard <= 2 * Lifetime
  PROVE  CallOK(Answered(c, heard), now)
<1> DEFINE a == Answered(c, heard)
<1>1. /\ a \in CallRecs /\ a.stage = "answered" /\ a.heard = now - heard
      /\ a.ask = call[c].ask /\ a.served = call[c].served
  BY AnsweredType, Zenon
<1> HIDE DEF a
<1>2. AgeOK(a)
  BY <1>1, Zenon DEF AgeOK
<1>3. CallOK(a, now)
  BY <1>1, <1>2, SMT DEF CallOK, InFlight
<1> QED BY <1>3, Zenon DEF a

\* What a lookup finds is young enough for the surface that asked.
LEMMA FoundOK ==
  ASSUME AgeInv, NEW ask \in Asks, NEW row \in Found(ask)
  PROVE  /\ row.by \in Asks /\ row.heard \in Nat /\ row.heard <= now
         /\ ask.surface # "research" => now <= row.heard + Lifetime
         /\ now <= row.heard + 2 * Lifetime
<1>1. row \in cache /\ KeyOf[row.by] = KeyOf[ask] /\ row.expires > now
  BY Zenon DEF Found
<1>2. RowOK(row, now)
  BY <1>1, Zenon DEF AgeInv
<1>3. row.by.surface = "research" <=> ask.surface = "research"
  BY <1>1, <1>2, KeysTellSurfaces, Zenon DEF RowOK
<1>4. now \in Nat
  BY Zenon DEF AgeInv
<1> QED BY <1>1, <1>2, <1>3, <1>4, LifeType, SMT DEF RowOK

LEMMA CallStep ==
  ASSUME AgeInv, NEW c \in Calls, NEW r, CallOK(r, now), call' = [call EXCEPT ![c] = r],
         UNCHANGED <<now, cache>>
  PROVE  AgeInv'
<1>1. now' = now /\ cache' = cache
  OBVIOUS
<1>2. call' \in [Calls -> CallRecs] /\ \A d \in Calls : CallOK(call'[d], now')
  BY <1>1, OneCall, Zenon
<1> QED BY <1>1, <1>2, Zenon DEF AgeInv

-----------------------------------------------------------------------------
(* The actions.                                                             *)

LEMMA InitAge == Init => AgeInv
<1> SUFFICES ASSUME Init PROVE AgeInv
  OBVIOUS
<1>1. now = 0 /\ cache = {} /\ call = [c \in Calls |-> Idle]
  BY Zenon DEF Init
<1>2. now \in Nat
  BY <1>1, SMT
<1>3. CallOK(Idle, now)
  BY <1>2, IdleOK, Zenon
<1>4. Idle \in CallRecs
  BY <1>3, Zenon DEF CallOK
<1>5. call \in [Calls -> CallRecs] /\ \A c \in Calls : call[c] = Idle
  BY <1>1, <1>4, Zenon
<1> QED BY <1>1, <1>2, <1>3, <1>5, Zenon DEF AgeInv

LEMMA StartAge ==
  ASSUME AgeInv, NEW c \in Calls, NEW i \in DOMAIN Requests, Start(c, i)
  PROVE  AgeInv'
<1> DEFINE surface == CASE ~IsResearch(i) -> "search"
                        [] IsResearch(i) /\ Body(i).deep -> "web"
                        [] OTHER -> "research"
           ask == [surface |-> surface, of |-> i]
           k1  == [Idle EXCEPT !.stage = "look"]
           k2  == [k1 EXCEPT !.since = now]
           k3  == [k2 EXCEPT !.ask = ask]
           R(s) == IF ~Accepted(i, s) THEN Idle ELSE k3
<1>1. UNCHANGED <<now, cache>>
  BY Zenon DEF Start
<1>2. PICK s \in {"rest", "mcp"} : call' = [call EXCEPT ![c] = R(s)]
  BY Zenon DEF Start
<1>3. now \in Nat /\ CallOK(Idle, now) /\ Idle \in CallRecs
  <2>1. now \in Nat
    BY Zenon DEF AgeInv
  <2> QED BY <2>1, IdleOK, Zenon DEF CallOK
<1>4. /\ surface \in Surfaces
      /\ surface = "search" => ~IsResearch(i)
      /\ surface # "search" => IsResearch(i)
      /\ IsResearch(i) /\ Body(i).deep => surface = "web"
  <2>1. CASE ~IsResearch(i)
    <3>1. surface = "search"
      BY <2>1, Zenon
    <3> QED BY <2>1, <3>1, SMT DEF Surfaces
  <2>2. CASE IsResearch(i) /\ Body(i).deep
    <3>1. surface = "web"
      BY <2>2, Zenon
    <3> QED BY <2>2, <3>1, SMT DEF Surfaces
  <2>3. CASE IsResearch(i) /\ ~Body(i).deep
    <3>1. surface = "research"
      BY <2>3, Zenon
    <3> QED BY <2>3, <3>1, SMT DEF Surfaces
  <2> QED BY <2>1, <2>2, <2>3
<1> HIDE DEF surface
<1>5. ask \in AskRecs /\ ask.of = i /\ ask.surface = surface
  BY <1>4, SMT DEF AskRecs
<1>6. Idle.served = {} /\ Idle.heard = 0 /\ Idle.pass = 1
  BY Zenon DEF Idle
<1> HIDE DEF ask, k1, k2, k3
<1>7. k1 \in CallRecs /\ k1.stage = "look" /\ k1.served = {} /\ k1.heard = 0 /\ k1.pass = 1
  BY <1>3, <1>6, SMT DEF CallRecs, Stages, k1
<1>8. /\ k2 \in CallRecs /\ k2.stage = "look" /\ k2.served = {} /\ k2.heard = 0 /\ k2.pass = 1
      /\ k2.since = now
  BY <1>3, <1>7, SMT DEF CallRecs, k2
<1>9. /\ k3 \in CallRecs /\ k3.stage = "look" /\ k3.served = {} /\ k3.heard = 0 /\ k3.pass = 1
      /\ k3.since = now /\ k3.ask = ask
  BY <1>5, <1>8, SMT DEF CallRecs, k3
<1>10. RightSurface(k3.ask)
  BY <1>4, <1>5, <1>9, SMT DEF RightSurface
<1>11. IsDeep(k3) => k3.ask.surface = "web"
  BY <1>4, <1>5, <1>9, Zenon DEF IsDeep
<1>12. CallOK(k3, now)
  BY <1>3, <1>9, <1>10, <1>11, LifeType, SMT DEF CallOK
<1>13. CallOK(R(s), now)
  BY <1>3, <1>12, Zenon
<1> HIDE DEF R
<1> QED BY <1>1, <1>2, <1>13, CallStep, Zenon

\* What is known of a call before it steps.
LEMMA Before ==
  ASSUME AgeInv, NEW c \in Calls
  PROVE  call[c] \in CallRecs /\ CallOK(call[c], now) /\ now \in Nat
BY Zenon DEF AgeInv

LEMMA CacheOnShallow ==
  ASSUME NEW c \in Calls
  PROVE  CacheOn(c) <=> ~IsDeep(call[c])
BY Zenon DEF CacheOn, IsDeep

LEMMA HitAge ==
  ASSUME AgeInv, NEW c \in Calls, Hit(c)
  PROVE  AgeInv'
<1> DEFINE k == call[c]
           own(row) == {row.by}
           k1(row) == [k EXCEPT !.stage = "leg"]
           k2(row) == [k1(row) EXCEPT !.heard = row.heard]
           k3(row) == [k2(row) EXCEPT !.served = own(row)]
           a(row)  == [Answered(c, row.heard) EXCEPT !.served = own(row)]
           R(row)  == IF k.ask.surface = "web" THEN k3(row) ELSE a(row)
<1>1. k.stage = "look" /\ CacheOn(c) /\ UNCHANGED <<now, cache>>
  BY Zenon DEF Hit
<1>2. PICK row \in Found(k.ask) : call' = [call EXCEPT ![c] = R(row)]
  BY Zenon DEF Hit
<1>3. k \in CallRecs /\ CallOK(k, now) /\ now \in Nat /\ ~IsDeep(k)
  BY <1>1, Before, CacheOnShallow, Zenon
<1>4. RightSurface(k.ask) /\ k.ask \in AskRecs /\ k.ask \in Asks
  <2>1. RightSurface(k.ask) /\ k.ask \in AskRecs
    BY <1>1, <1>3, SMT DEF CallOK, CallRecs, InFlight
  <2> QED BY <2>1, RightAsk, Zenon
<1>5. /\ row.by \in Asks /\ row.heard \in Nat /\ row.heard <= now
      /\ k.ask.surface # "research" => now <= row.heard + Lifetime
      /\ now <= row.heard + 2 * Lifetime
  BY <1>4, FoundOK, Zenon
<1>6. own(row) \in AskSets
  BY <1>5, Zenon DEF AskSets
<1>7. ASSUME k.ask.surface = "web" PROVE CallOK(k3(row), now)
  <2>1. k.since <= now /\ now <= k.since + Deadline /\ k.pass = 1
    BY <1>1, <1>3, SMT DEF CallOK, InFlight, CallRecs
  <2> HIDE DEF k, own, k1, k2, k3
  <2>2. /\ k1(row) \in CallRecs /\ k1(row).stage = "leg" /\ k1(row).ask = k.ask
        /\ k1(row).since = k.since /\ k1(row).pass = 1
    BY <1>3, <2>1, SMT DEF k1, CallRecs, Stages
  <2>3. /\ k2(row) \in CallRecs /\ k2(row).stage = "leg" /\ k2(row).ask = k.ask
        /\ k2(row).since = k.since /\ k2(row).pass = 1 /\ k2(row).heard = row.heard
    BY <1>5, <2>2, SMT DEF k2, CallRecs
  <2>4. /\ k3(row) \in CallRecs /\ k3(row).stage = "leg" /\ k3(row).ask = k.ask
        /\ k3(row).since = k.since /\ k3(row).pass = 1 /\ k3(row).heard = row.heard
    BY <1>6, <2>3, SMT DEF k3, CallRecs
  <2>5. ~IsDeep(k3(row))
    BY <1>3, <2>4, Zenon DEF IsDeep
  <2>6. k3(row).ask.surface = "web" /\ RightSurface(k3(row).ask)
    BY <1>4, <1>7, <2>4, Zenon
  <2>7. k3(row).since <= row.heard + Lifetime
    BY <1>3, <1>5, <1>7, <2>1, <2>4, LifeType, SMT DEF CallRecs
  <2> QED BY <1>3, <1>5, <2>1, <2>4, <2>5, <2>6, <2>7, SMT DEF CallOK
<1>8. ASSUME k.ask.surface # "web" PROVE CallOK(a(row), now)
  <2> DEFINE b == Answered(c, row.heard)
  <2>1. /\ b \in CallRecs /\ b.stage = "answered" /\ b.heard = now - row.heard
        /\ b.ask = k.ask
    BY <1>5, AnsweredType, Zenon
  <2>2. IsResearch(k.ask.of) <=> k.ask.surface = "research"
    BY <1>4, <1>8, SMT DEF RightSurface, AskRecs, Surfaces
  <2> HIDE DEF b, own, k
  <2>3. /\ a(row) \in CallRecs /\ a(row).stage = "answered" /\ a(row).heard = now - row.heard
        /\ a(row).ask = k.ask
    BY <1>6, <2>1, SMT DEF CallRecs, b
  <2>4. ~IsResearch(k.ask.of) => a(row).heard <= Lifetime
    BY <1>3, <1>5, <2>2, <2>3, LifeType, SMT
  <2>5. a(row).heard <= 2 * Lifetime
    BY <1>3, <1>5, <2>3, LifeType, SMT
  <2> HIDE DEF a
  <2>6. AgeOK(a(row))
    BY <1>3, <2>3, <2>4, <2>5, Zenon DEF AgeOK, IsDeep
  <2> QED BY <2>3, <2>6, SMT DEF CallOK, InFlight
<1> HIDE DEF k, k3, a
<1>9. CallOK(R(row), now)
  BY <1>7, <1>8, Zenon
<1> HIDE DEF R
<1> QED BY <1>1, <1>2, <1>9, CallStep, Zenon

LEMMA MissAge ==
  ASSUME AgeInv, NEW c \in Calls, Miss(c)
  PROVE  AgeInv'
<1> DEFINE k  == call[c]
           kd == [k EXCEPT !.stage = "dial"]
           kw == [k EXCEPT !.ask.surface = "web"]
           R  == IF k.ask.surface = "research"
                 THEN IF TavilyJob(Research[k.ask]) THEN kd ELSE kw
                 ELSE IF Mistyped(Query[k.ask].domains) THEN Idle ELSE kd
<1>1. k.stage = "look" /\ UNCHANGED <<now, cache>> /\ call' = [call EXCEPT ![c] = R]
  BY Zenon DEF Miss
<1>2. k \in CallRecs /\ CallOK(k, now) /\ now \in Nat /\ CallOK(Idle, now)
  BY Before, IdleOK, Zenon
<1>3. /\ RightSurface(k.ask) /\ k.since <= now /\ now <= k.since + Deadline /\ k.heard >= 0
      /\ IsDeep(k) => k.ask.surface = "web" /\ k.served = {}
      /\ k.pass = 2 => IsDeep(k) /\ k.since <= k.heard /\ k.heard <= now
  BY <1>1, <1>2, SMT DEF CallOK, InFlight
<1>4. CallOK(kd, now)
  <2> HIDE DEF k, kd
  <2>1. /\ kd \in CallRecs /\ kd.stage = "dial" /\ kd.ask = k.ask /\ kd.since = k.since
        /\ kd.heard = k.heard /\ kd.served = k.served /\ kd.pass = k.pass
    BY <1>2, SMT DEF kd, CallRecs, Stages
  <2>2. IsDeep(kd) <=> IsDeep(k)
    BY <2>1, Zenon DEF IsDeep
  <2> QED BY <1>3, <2>1, <2>2, SMT DEF CallOK
<1>5. ASSUME k.ask.surface = "research" PROVE CallOK(kw, now)
  <2> DEFINE ask == [k.ask EXCEPT !.surface = "web"]
  <2>1. kw = [k EXCEPT !.ask = ask]
    OBVIOUS
  <2> HIDE DEF k, kw
  <2>2. k.ask \in AskRecs
    BY <1>2, SMT DEF CallRecs
  <2>3. ask \in AskRecs /\ ask.surface = "web" /\ ask.of = k.ask.of
    BY <2>2, SMT DEF AskRecs, Surfaces
  <2> HIDE DEF ask
  <2>4. /\ kw \in CallRecs /\ kw.stage = k.stage /\ kw.ask = ask /\ kw.since = k.since
        /\ kw.heard = k.heard /\ kw.served = k.served /\ kw.pass = k.pass
    BY <1>2, <2>1, <2>3, SMT DEF CallRecs
  <2>5. IsDeep(kw) <=> IsDeep(k)
    BY <2>3, <2>4, Zenon DEF IsDeep
  <2>6. RightSurface(kw.ask)
    BY <1>3, <1>5, <2>3, <2>4, SMT DEF RightSurface
  <2>7. kw.stage = "look" /\ kw.ask.surface = "web"
    BY <1>1, <2>3, <2>4, Zenon DEF k
  <2> QED BY <1>3, <2>4, <2>5, <2>6, <2>7, SMT DEF CallOK
<1> HIDE DEF k, kd, kw
<1>6. CallOK(R, now)
  BY <1>2, <1>4, <1>5, Zenon
<1> HIDE DEF R
<1> QED BY <1>1, <1>2, <1>6, CallStep, Zenon

LEMMA DialAnswersAge ==
  ASSUME AgeInv, NEW c \in Calls, DialAnswers(c)
  PROVE  AgeInv'
<1> DEFINE k == call[c]
           heard == IF k.pass = 1 THEN now ELSE k.heard
           k1 == [k EXCEPT !.stage = "store"]
           k2(legs) == [k1 EXCEPT !.found = legs]
           k3(legs) == [k2(legs) EXCEPT !.heard = heard]
           Legs == IF k.ask \in DOMAIN Query THEN Findings(k.ask) ELSE {<<>>}
<1>1. k.stage = "dial" /\ UNCHANGED <<now, cache>>
  BY Zenon DEF DialAnswers
<1>2. k \in CallRecs /\ CallOK(k, now) /\ now \in Nat /\ call \in [Calls -> CallRecs]
  BY Before, Zenon DEF AgeInv
<1>3. PICK legs \in Legs :
        call' = [call EXCEPT ![c].stage = "store", ![c].found = legs,
                             ![c].heard = IF call[c].pass = 1 THEN now ELSE @]
  BY Zenon DEF DialAnswers
<1>4. call' = [call EXCEPT ![c] = k3(legs)]
  BY <1>2, <1>3, Zenon
<1>5. legs \in FoundSet
  BY <1>3, Zenon DEF FoundSet
<1>6. /\ RightSurface(k.ask) /\ k.since <= now /\ now <= k.since + Deadline /\ k.heard >= 0
      /\ IsDeep(k) => k.ask.surface = "web" /\ k.served = {}
      /\ k.pass = 2 => IsDeep(k) /\ k.since <= k.heard /\ k.heard <= now
      /\ k.pass \in {1, 2} /\ k.since \in Nat /\ k.heard \in Int
  BY <1>1, <1>2, SMT DEF CallOK, InFlight, CallRecs
<1>7. heard \in Int /\ heard >= 0 /\ k.since <= heard /\ heard <= now
  BY <1>2, <1>6, SMT
<1> HIDE DEF k, heard, k1, k2, k3
<1>8. /\ k1 \in CallRecs /\ k1.stage = "store" /\ k1.ask = k.ask /\ k1.since = k.since
      /\ k1.served = k.served /\ k1.pass = k.pass
  BY <1>2, SMT DEF k1, CallRecs, Stages
<1>9. /\ k2(legs) \in CallRecs /\ k2(legs).stage = "store" /\ k2(legs).ask = k.ask
      /\ k2(legs).since = k.since /\ k2(legs).served = k.served /\ k2(legs).pass = k.pass
  BY <1>5, <1>8, SMT DEF k2, CallRecs
<1>10. /\ k3(legs) \in CallRecs /\ k3(legs).stage = "store" /\ k3(legs).ask = k.ask
       /\ k3(legs).since = k.since /\ k3(legs).served = k.served /\ k3(legs).pass = k.pass
       /\ k3(legs).heard = heard
  BY <1>7, <1>9, SMT DEF k3, CallRecs
<1>11. IsDeep(k3(legs)) <=> IsDeep(k)
  BY <1>10, Zenon DEF IsDeep
<1>12. CallOK(k3(legs), now)
  BY <1>2, <1>6, <1>7, <1>10, <1>11, LifeType, SMT DEF CallOK
<1> QED BY <1>1, <1>4, <1>12, CallStep, Zenon

LEMMA DialFailsAge ==
  ASSUME AgeInv, NEW c \in Calls, DialFails(c)
  PROVE  AgeInv'
<1> DEFINE k == call[c]
           a == Answered(c, k.heard)
           R == IF k.pass = 2 THEN a ELSE Idle
<1>1. k.stage = "dial" /\ UNCHANGED <<now, cache>> /\ call' = [call EXCEPT ![c] = R]
  BY Zenon DEF DialFails
<1>2. k \in CallRecs /\ CallOK(k, now) /\ now \in Nat /\ CallOK(Idle, now)
  BY Before, IdleOK, Zenon
<1>3. ASSUME k.pass = 2 PROVE CallOK(a, now)
  <2>1. /\ IsDeep(k) /\ k.served = {} /\ k.heard >= 0
        /\ now <= k.since + Deadline /\ k.since <= k.heard
    BY <1>1, <1>2, <1>3, SMT DEF CallOK, InFlight
  <2>2. k.heard \in Int /\ k.since \in Nat
    BY <1>2, SMT DEF CallRecs
  <2> HIDE DEF k
  <2>3. k.heard \in Nat /\ now - k.heard <= Deadline
    BY <1>2, <2>1, <2>2, LifeType, SMT
  <2> USE DEF k
  <2> QED BY <2>1, <2>3, AnsweredOK, Zenon DEF IsDeep
<1> HIDE DEF k, a
<1>4. CallOK(R, now)
  BY <1>2, <1>3, Zenon
<1> HIDE DEF R
<1> QED BY <1>1, <1>4, CallStep, Zenon

LEMMA StoreAge ==
  ASSUME AgeInv, NEW c \in Calls, Store(c)
  PROVE  AgeInv'
<1> DEFINE k  == call[c]
           k1 == [k EXCEPT !.stage = "leg"]
           k2 == [k1 EXCEPT !.found = <<>>]
           a  == Answered(c, k.heard)
           R  == IF k.ask.surface = "web" THEN k2 ELSE a
           new == [by |-> k.ask, heard |-> k.heard, expires |-> now + Life]
<1>1. k.stage = "store" /\ now' = now /\ call' = [call EXCEPT ![c] = R]
  BY Zenon DEF Store
<1>2. k \in CallRecs /\ CallOK(k, now) /\ now \in Nat
  BY Before, Zenon
<1>3. /\ RightSurface(k.ask) /\ k.since <= now /\ now <= k.since + Deadline /\ k.heard >= 0
      /\ k.heard <= now /\ k.since <= k.heard + Lifetime
      /\ k.ask.surface # "research" => k.since <= k.heard
      /\ IsDeep(k) => k.ask.surface = "web" /\ k.served = {}
      /\ k.pass = 2 => IsDeep(k)
  BY <1>1, <1>2, SMT DEF CallOK, InFlight
<1>4. k.heard \in Int /\ k.since \in Nat /\ k.ask \in AskRecs
  BY <1>2, SMT DEF CallRecs
<1>5. k.ask \in Asks
  BY <1>3, <1>4, RightAsk, Zenon
<1>6. \A row \in cache' : RowOK(row, now)
  <2>1. RowOK(new, now)
    <3>1. new.by = k.ask /\ new.heard = k.heard /\ new.expires = now + Life
      BY SMT
    <3> HIDE DEF new, k
    <3>2. k.heard \in Nat /\ now + Life \in Nat
      BY <1>2, <1>3, <1>4, LifeType, SMT
    <3>3. now + Life <= k.heard + 1 + (IF k.ask.surface = "research" THEN 2 * Lifetime ELSE Lifetime)
      BY <1>2, <1>3, <1>4, LifeType, SMT
    <3> QED BY <1>3, <1>5, <3>1, <3>2, <3>3, Zenon DEF RowOK
  <2>2. cache' \subseteq cache \cup {new}
    <3>1. CASE cache' = Put(k.ask, k.heard)
      BY <3>1, Zenon DEF Put, Life
    <3>2. CASE cache' = cache
      BY <3>2, Zenon
    <3> QED BY <3>1, <3>2, Zenon DEF Store
  <2> HIDE DEF new
  <2> QED BY <2>1, <2>2, Zenon DEF AgeInv
<1>7. ASSUME k.ask.surface = "web" PROVE CallOK(k2, now)
  <2>1. <<>> \in FoundSet
    BY Zenon DEF FoundSet
  <2> HIDE DEF k, k1, k2
  <2>2. /\ k1 \in CallRecs /\ k1.stage = "leg" /\ k1.ask = k.ask /\ k1.since = k.since
        /\ k1.heard = k.heard /\ k1.served = k.served /\ k1.pass = k.pass
    BY <1>2, SMT DEF k1, CallRecs, Stages
  <2>3. /\ k2 \in CallRecs /\ k2.stage = "leg" /\ k2.ask = k.ask /\ k2.since = k.since
        /\ k2.heard = k.heard /\ k2.served = k.served /\ k2.pass = k.pass
    BY <2>1, <2>2, SMT DEF k2, CallRecs
  <2>4. IsDeep(k2) <=> IsDeep(k)
    BY <2>3, Zenon DEF IsDeep
  <2> QED BY <1>3, <1>7, <2>3, <2>4, SMT DEF CallOK
<1>8. ASSUME k.ask.surface # "web" PROVE CallOK(a, now)
  <2>1. IsResearch(k.ask.of) <=> k.ask.surface = "research"
    BY <1>3, <1>4, <1>8, SMT DEF RightSurface, AskRecs, Surfaces
  <2>2. ~IsDeep(k)
    BY <1>3, <1>8, Zenon
  <2> HIDE DEF k
  <2>3. k.heard \in Nat /\ now - k.heard <= 2 * Lifetime
    BY <1>2, <1>3, <1>4, LifeType, SMT
  <2>4. k.ask.surface # "research" => now - k.heard <= Lifetime
    BY <1>2, <1>3, <1>4, LifeType, SMT
  <2> USE DEF k
  <2> QED BY <2>1, <2>2, <2>3, <2>4, AnsweredOK, Zenon DEF IsDeep
<1> HIDE DEF k, k2, a
<1>9. CallOK(R, now)
  BY <1>7, <1>8, Zenon
<1> HIDE DEF R
<1>10. call' \in [Calls -> CallRecs] /\ \A d \in Calls : CallOK(call'[d], now')
  BY <1>1, <1>9, OneCall, Zenon
<1> QED BY <1>1, <1>2, <1>6, <1>10, Zenon DEF AgeInv

LEMMA LegDoneAge ==
  ASSUME AgeInv, NEW c \in Calls, LegDone(c)
  PROVE  AgeInv'
<1> DEFINE k  == call[c]
           k1 == [k EXCEPT !.stage = "store"]
           k2 == [k1 EXCEPT !.ask.surface = "research"]
           a  == Answered(c, k.heard)
           R  == IF Body(k.ask.of).deep THEN a ELSE k2
<1>1. k.stage = "leg" /\ UNCHANGED <<now, cache>> /\ call' = [call EXCEPT ![c] = R]
  BY Zenon DEF LegDone
<1>2. k \in CallRecs /\ CallOK(k, now) /\ now \in Nat
  BY Before, Zenon
<1>3. /\ RightSurface(k.ask) /\ k.since <= now /\ now <= k.since + Deadline /\ k.heard >= 0
      /\ k.ask.surface = "web" /\ k.heard <= now /\ k.since <= k.heard + Lifetime
      /\ IsDeep(k) => k.served = {} /\ k.since <= k.heard
      /\ k.pass = 2 => IsDeep(k)
  BY <1>1, <1>2, SMT DEF CallOK, InFlight
<1>4. k.heard \in Int /\ k.since \in Nat /\ k.ask \in AskRecs
  BY <1>2, SMT DEF CallRecs
<1>5. IsResearch(k.ask.of)
  BY <1>3, SMT DEF RightSurface
<1>6. ASSUME Body(k.ask.of).deep PROVE CallOK(a, now)
  <2>1. IsDeep(k)
    BY <1>5, <1>6, Zenon DEF IsDeep
  <2> HIDE DEF k
  <2>2. k.heard \in Nat /\ now - k.heard <= Deadline
    BY <1>2, <1>3, <1>4, <2>1, LifeType, SMT
  <2> USE DEF k
  <2> QED BY <1>3, <1>5, <1>6, <2>1, <2>2, AnsweredOK, Zenon
<1>7. ASSUME ~Body(k.ask.of).deep PROVE CallOK(k2, now)
  <2> DEFINE ask == [k.ask EXCEPT !.surface = "research"]
  <2>1. k1.ask = k.ask /\ k1 \in CallRecs /\ k1.stage = "store" /\ k1.since = k.since
        /\ k1.heard = k.heard /\ k1.served = k.served /\ k1.pass = k.pass
    <3> HIDE DEF k, k1
    <3> QED BY <1>2, SMT DEF k1, CallRecs, Stages
  <2>2. k2 = [k1 EXCEPT !.ask = ask]
    BY <2>1, Zenon
  <2> HIDE DEF k, k1, k2
  <2>3. ask \in AskRecs /\ ask.surface = "research" /\ ask.of = k.ask.of
    BY <1>4, SMT DEF AskRecs, Surfaces
  <2> HIDE DEF ask
  <2>4. /\ k2 \in CallRecs /\ k2.stage = "store" /\ k2.ask = ask /\ k2.since = k.since
        /\ k2.heard = k.heard /\ k2.served = k.served /\ k2.pass = k.pass
    BY <2>1, <2>2, <2>3, SMT DEF CallRecs
  <2>5. ~IsDeep(k2) /\ ~IsDeep(k)
    BY <1>7, <2>3, <2>4, Zenon DEF IsDeep
  <2>6. RightSurface(k2.ask)
    BY <1>3, <1>5, <2>3, <2>4, SMT DEF RightSurface
  <2> QED BY <1>3, <2>3, <2>4, <2>5, <2>6, SMT DEF CallOK
<1> HIDE DEF k, k2, a
<1>8. CallOK(R, now)
  BY <1>6, <1>7, Zenon
<1> HIDE DEF R
<1> QED BY <1>1, <1>8, CallStep, Zenon

LEMMA RefineAge ==
  ASSUME AgeInv, NEW c \in Calls, Refine(c)
  PROVE  AgeInv'
<1> DEFINE k  == call[c]
           k1 == [k EXCEPT !.stage = "look"]
           k2 == [k1 EXCEPT !.pass = 2]
<1>1. k.stage = "leg" /\ Body(k.ask.of).deep /\ UNCHANGED <<now, cache>>
  BY Zenon DEF Refine
<1>2. k \in CallRecs /\ CallOK(k, now) /\ now \in Nat /\ call \in [Calls -> CallRecs]
  BY Before, Zenon DEF AgeInv
<1>3. call' = [call EXCEPT ![c] = k2]
  <2>1. call' = [call EXCEPT ![c].stage = "look", ![c].pass = 2]
    BY Zenon DEF Refine
  <2> QED BY <1>2, <2>1, Zenon
<1>4. /\ RightSurface(k.ask) /\ k.since <= now /\ now <= k.since + Deadline /\ k.heard >= 0
      /\ k.ask.surface = "web" /\ k.heard <= now
      /\ IsDeep(k) => k.served = {} /\ k.since <= k.heard
  BY <1>1, <1>2, SMT DEF CallOK, InFlight
<1>5. IsDeep(k)
  <2>1. IsResearch(k.ask.of)
    BY <1>4, SMT DEF RightSurface
  <2> QED BY <1>1, <2>1, Zenon DEF IsDeep
<1> HIDE DEF k, k1, k2
<1>6. /\ k1 \in CallRecs /\ k1.stage = "look" /\ k1.ask = k.ask /\ k1.since = k.since
      /\ k1.heard = k.heard /\ k1.served = k.served
  BY <1>2, SMT DEF k1, CallRecs, Stages
<1>7. /\ k2 \in CallRecs /\ k2.stage = "look" /\ k2.ask = k.ask /\ k2.since = k.since
      /\ k2.heard = k.heard /\ k2.served = k.served
  BY <1>6, SMT DEF k2, CallRecs
<1>8. IsDeep(k2)
  BY <1>5, <1>7, Zenon DEF IsDeep
<1>9. CallOK(k2, now)
  BY <1>4, <1>5, <1>7, <1>8, SMT DEF CallOK
<1> QED BY <1>1, <1>3, <1>9, CallStep, Zenon

LEMMA DropAge ==
  ASSUME AgeInv, NEW c \in Calls, Drop(c)
  PROVE  AgeInv'
<1>1. call' = [call EXCEPT ![c] = Idle] /\ UNCHANGED <<now, cache>>
  BY Zenon DEF Drop
<1>2. CallOK(Idle, now)
  BY Before, IdleOK, Zenon
<1> QED BY <1>1, <1>2, CallStep, Zenon

LEMMA PurgeAge ==
  ASSUME AgeInv, Purge
  PROVE  AgeInv'
<1>1. cache' \subseteq cache /\ now' = now /\ call' = call
  BY Zenon DEF Purge
<1> QED BY <1>1, Zenon DEF AgeInv

\* The clock stops for a call at its deadline.
LEMMA TickAge ==
  ASSUME AgeInv, Tick
  PROVE  AgeInv'
<1>1. now' = now + 1 /\ cache' = cache /\ call' = call /\ now \in Nat
      /\ \A c \in Calls : Running(c) => now - call[c].since < Deadline
  BY Zenon DEF Tick, AgeInv
<1>2. ASSUME NEW row \in cache PROVE RowOK(row, now')
  <2>1. RowOK(row, now)
    BY Zenon DEF AgeInv
  <2> QED BY <1>1, <2>1, SMT DEF RowOK
<1>3. ASSUME NEW c \in Calls PROVE CallOK(call[c], now')
  <2> DEFINE k == call[c]
  <2>1. k \in CallRecs /\ CallOK(k, now)
    BY Before, Zenon
  <2>2. k.stage \in InFlight => now - k.since < Deadline
    BY <1>1, Zenon DEF Running, InFlight
  <2>3. k.heard \in Int /\ k.since \in Nat
    BY <2>1, SMT DEF CallRecs
  <2> HIDE DEF k
  <2>4. k.stage \in InFlight => k.since <= now' /\ now' <= k.since + Deadline
    BY <1>1, <2>1, <2>2, <2>3, LifeType, SMT DEF CallOK
  <2>5. k.heard <= now => k.heard <= now'
    BY <1>1, <2>3, SMT
  <2>6. CallOK(k, now')
    BY <2>1, <2>4, <2>5, Zenon DEF CallOK
  <2> QED BY <2>6, Zenon DEF k
<1>4. now' \in Nat
  BY <1>1, SMT
<1> QED BY <1>1, <1>2, <1>3, <1>4, Zenon DEF AgeInv

-----------------------------------------------------------------------------
LEMMA StepAge == AgeInv /\ [Next]_vars => AgeInv'
<1> SUFFICES ASSUME AgeInv, [Next]_vars PROVE AgeInv'
  OBVIOUS
<1>1. CASE UNCHANGED vars
  <2>1. now' = now /\ cache' = cache /\ call' = call
    BY <1>1, Zenon DEF vars
  <2> QED BY <2>1, Zenon DEF AgeInv
<1>2. ASSUME NEW c \in Calls, NEW i \in DOMAIN Requests, Start(c, i) PROVE AgeInv'
  BY <1>2, StartAge
<1>3. ASSUME NEW c \in Calls,
             Hit(c) \/ Miss(c) \/ DialAnswers(c) \/ DialFails(c)
             \/ Store(c) \/ LegDone(c) \/ Refine(c) \/ Drop(c)
      PROVE  AgeInv'
  BY <1>3, HitAge, MissAge, DialAnswersAge, DialFailsAge, StoreAge, LegDoneAge, RefineAge,
     DropAge, Zenon
<1>4. CASE Purge
  BY <1>4, PurgeAge
<1>5. CASE Tick
  BY <1>5, TickAge
<1> QED BY <1>1, <1>2, <1>3, <1>4, <1>5, Zenon DEF Next

\* However calls interleave, rows expire, statements fail and calls are dropped,
\* no answer that the cache had a part in is older than its surface allows: one
\* lifetime for a search, two for a research, and a deep research answers from
\* what it heard itself.
THEOREM AnswersAreFresh == Spec => []AnswerAge
<1>1. AgeInv => AnswerAge
  <2> SUFFICES ASSUME AgeInv, NEW c \in Calls, call[c].stage = "answered"
               PROVE  AgeOK(call[c])
    BY Zenon DEF AnswerAge, AgeOK
  <2> QED BY Before, Zenon DEF CallOK
<1> QED BY <1>1, InitAge, StepAge, PTL DEF Spec

-----------------------------------------------------------------------------
(* Knobs and dates.                                                         *)

Knob(raw) ==
  /\ raw = [how |-> raw.how, word |-> raw.word]
  /\ raw.how \in {"absent", "blank", "exact", "folded", "joined"}
  /\ raw.how \in {"absent", "blank"} <=> raw.word = ""

Day(raw) == Knob(raw) /\ raw.how # "joined"

LEMMA KnobIs ==
  /\ \A raw \in KnobTexts : Knob(raw)
  /\ \A raw \in DateTexts : Day(raw)
  /\ \A raw \in SourceTexts : Knob(raw) /\ raw.how # "absent"
  /\ Knob(Absent) /\ Day(Absent) /\ \A w : w # "" => Day(Exact(w))
  /\ \A raw : Knob(raw) => (Said(raw) <=> raw.word # "")
<1>1. ASSUME NEW raw \in KnobTexts
      PROVE  Knob(raw)
  <2>1. raw = [how |-> raw.how, word |-> raw.word]
    BY DEF KnobTexts
  <2>2. raw.how \in {"absent", "blank", "exact", "folded", "joined"}
    BY DEF KnobTexts, Spellings
  <2>3. Said(raw) <=> raw.word # ""
    BY DEF KnobTexts
  <2> QED BY <2>1, <2>2, <2>3, Zenon DEF Knob, Said
<1>2. Knob(Absent) /\ Absent.how = "absent"
  <2>1. Absent.how = "absent" /\ Absent.word = ""
    BY DEF Absent
  <2>2. Absent = [how |-> Absent.how, word |-> Absent.word]
    BY DEF Absent
  <2> QED BY <2>1, <2>2 DEF Knob
<1>3. ASSUME NEW w, w # ""
      PROVE  Day(Exact(w))
  <2>1. Exact(w).how = "exact" /\ Exact(w).word = w
    BY DEF Exact
  <2>2. Exact(w) = [how |-> Exact(w).how, word |-> Exact(w).word]
    BY DEF Exact
  <2> QED BY <1>3, <2>1, <2>2 DEF Knob, Day
<1>4. ASSUME NEW raw, Knob(raw)
      PROVE  Said(raw) <=> raw.word # ""
  BY <1>4, Zenon DEF Knob, Said
<1>5. ASSUME NEW raw \in DateTexts
      PROVE  raw \in KnobTexts /\ raw.how # "joined"
  BY DEF DateTexts
<1>6. ASSUME NEW raw \in SourceTexts
      PROVE  raw \in KnobTexts /\ raw.how # "absent"
  BY DEF SourceTexts
<1>7. Day(Absent)
  BY <1>2 DEF Day
<1> QED BY <1>1, <1>2, <1>3, <1>4, <1>5, <1>6, <1>7, Zenon DEF Day

LEMMA SpellingsTell ==
  /\ \A f, g, u, v : [how |-> f, word |-> u] = [how |-> g, word |-> v] <=> f = g /\ u = v
  /\ \A f, g, u, v : <<f, u>> = <<g, v>> <=> f = g /\ u = v
<1>1. ASSUME NEW f, NEW g, NEW u, NEW v, [how |-> f, word |-> u] = [how |-> g, word |-> v]
      PROVE  f = g /\ u = v
  <2>1. [how |-> f, word |-> u].how = f /\ [how |-> g, word |-> v].how = g
    OBVIOUS
  <2>2. [how |-> f, word |-> u].word = u /\ [how |-> g, word |-> v].word = v
    OBVIOUS
  <2> QED BY <1>1, <2>1, <2>2
<1>2. ASSUME NEW f, NEW g, NEW u, NEW v
      PROVE  <<f, u>> = <<g, v>> <=> f = g /\ u = v
  OBVIOUS
<1> QED BY <1>1, <1>2, Zenon

\* What a word of a closed set comes to: nothing for "any", itself otherwise.
Sense(word) == IF word = "any" THEN Absent ELSE Exact(word)

LEMMA SenseTells ==
  ASSUME NEW u, NEW v
  PROVE  Sense(u) = Sense(v) <=> u = v
<1>1. \A x, y : Exact(x) = Exact(y) <=> x = y
  BY SpellingsTell, Zenon DEF Exact
<1>2. \A x : Exact(x) # Absent
  <2>1. "exact" # "absent"
    OBVIOUS
  <2> QED BY <2>1, SpellingsTell, Zenon DEF Exact, Absent
<1> QED BY <1>1, <1>2, Zenon DEF Sense

LEMMA SettledIs ==
  ASSUME NEW raw, Knob(raw), NEW V, "unset" \notin V, "refused" \notin V, "any" \notin V,
         Choice(raw, V) # "refused"
  PROVE  /\ Settled(raw, Choice(raw, V)) = IF Said(raw) THEN Exact(raw.word) ELSE Absent
         /\ Said(raw) => raw.word \in V
         /\ AutoNone(Settled(raw, Choice(raw, V))) = Sense(Wanted(raw))
         /\ "auto" \notin V => Settled(raw, Choice(raw, V)) = Sense(Wanted(raw))
<1>1. CASE Said(raw)
  <2>1. raw.word \in V /\ Choice(raw, V) = raw.word
    BY <1>1, Zenon DEF Choice
  <2>2. raw.word # "unset" /\ raw.word # "refused" /\ raw.word # "any"
    BY <2>1, Zenon
  <2>3. Settled(raw, Choice(raw, V)) = Exact(raw.word)
    BY <2>1, <2>2, Zenon DEF Settled
  <2>4. AutoNone(Exact(raw.word)) = IF raw.word = "auto" THEN Absent ELSE Exact(raw.word)
    <3>1. Exact(raw.word) = Exact("auto") <=> raw.word = "auto"
      BY SMT DEF Exact
    <3> QED BY <3>1, Zenon DEF AutoNone
  <2>5. Wanted(raw) = IF raw.word = "auto" THEN "any" ELSE raw.word
    BY <1>1, Zenon DEF Wanted
  <2>6. Sense(Wanted(raw)) = IF raw.word = "auto" THEN Absent ELSE Exact(raw.word)
    BY <2>2, <2>5, Zenon DEF Sense
  <2> QED BY <1>1, <2>1, <2>3, <2>4, <2>6, Zenon
<1>2. CASE ~Said(raw)
  <2>1. Settled(raw, Choice(raw, V)) = Absent
    BY <1>2, Zenon DEF Choice, Settled
  <2>2. AutoNone(Absent) = Absent
    BY SMT DEF AutoNone, Absent, Exact
  <2>3. Sense(Wanted(raw)) = Absent
    BY <1>2, Zenon DEF Wanted, Sense
  <2> QED BY <1>2, <2>1, <2>2, <2>3, Zenon
<1> QED BY <1>1, <1>2

Ranges == {"day", "week", "month", "year"}

\* What a range means.
Span(raw) == IF Said(raw) THEN Window[raw.word] ELSE "any"

LEMMA WindowIs ==
  /\ DOMAIN Window = {"day", "d", "week", "w", "month", "m", "year", "y"}
  /\ \A w \in DOMAIN Window : Window[w] \in Ranges
  /\ \A w \in Ranges : w \in DOMAIN Window /\ Window[w] = w
BY SMT DEF Window, Ranges

LEMMA RangeIs ==
  ASSUME NEW raw, Knob(raw), TimeRange(raw) # "refused"
  PROVE  /\ Settled(raw, TimeRange(raw)) = Sense(Span(raw))
         /\ Span(raw) \in Ranges \cup {"any"}
         /\ Said(raw) => Span(raw) \in Ranges
<1>1. CASE Said(raw)
  <2>1. raw.word \in DOMAIN Window /\ TimeRange(raw) = Window[raw.word]
    BY <1>1, Zenon DEF TimeRange
  <2>2. Window[raw.word] \in Ranges
    BY <2>1, WindowIs, Zenon
  <2>3. Window[raw.word] \notin {"unset", "refused", "any"}
    BY <2>2, Zenon DEF Ranges
  <2>4. Settled(raw, TimeRange(raw)) = Exact(Window[raw.word])
    BY <2>1, <2>3, Zenon DEF Settled
  <2> QED BY <1>1, <2>2, <2>3, <2>4, Zenon DEF Span, Sense
<1>2. CASE ~Said(raw)
  BY <1>2, Zenon DEF Settled, TimeRange, Span, Sense
<1> QED BY <1>1, <1>2

\* The range of a research is folded twice.
LEMMA RangeTwice ==
  ASSUME NEW raw, Knob(raw), TimeRange(raw) # "refused",
         NEW s, s = Settled(raw, TimeRange(raw))
  PROVE  TimeRange(s) # "refused" /\ Settled(s, TimeRange(s)) = s
<1> DEFINE w == Span(raw)
<1>1. s = Sense(w) /\ w \in Ranges \cup {"any"}
  BY RangeIs
<1>2. CASE w = "any"
  <2>1. s = Absent
    BY <1>1, <1>2, Zenon DEF Sense
  <2>2. ~Said(Absent)
    BY SMT DEF Said, Absent
  <2>3. TimeRange(Absent) = "unset"
    BY <2>2, Zenon DEF TimeRange
  <2>4. Settled(Absent, "unset") = Absent
    BY Zenon DEF Settled
  <2>5. TimeRange(s) = "unset" /\ Settled(s, "unset") = s
    BY <2>1, <2>3, <2>4, Zenon
  <2>6. "unset" # "refused"
    OBVIOUS
  <2> QED BY <2>5, <2>6, Zenon
<1>3. CASE w # "any"
  <2>1. s = Exact(w) /\ w \in Ranges
    BY <1>1, <1>3, Zenon DEF Sense
  <2>2. Said(Exact(w)) /\ Exact(w).word = w /\ Exact(w).how # "joined"
    BY SMT DEF Said, Exact
  <2>3. w \in DOMAIN Window /\ Window[w] = w /\ w \notin {"unset", "refused"}
    BY <2>1, WindowIs, Zenon DEF Ranges
  <2> HIDE DEF w
  <2>4. TimeRange(s) = w
    BY <2>1, <2>2, <2>3, Zenon DEF TimeRange
  <2>5. Settled(s, w) = Exact(w)
    BY <2>3, Zenon DEF Settled
  <2>6. w # "refused"
    BY <2>3
  <2> QED BY <2>1, <2>4, <2>5, <2>6, Zenon
<1> QED BY <1>2, <1>3, Zenon

DateMeant(raw) == IF raw.how = "blank" THEN AsSent(raw) ELSE Meant(raw.word)

LEMMA DateIs ==
  ASSUME NEW raw, Day(raw)
  PROVE  /\ Day(FoldDate(raw)) /\ FoldDate(FoldDate(raw)) = FoldDate(raw)
         /\ FoldDate(raw).word = raw.word
         /\ FoldDate(raw).how = IF raw.how = "folded" THEN "exact" ELSE raw.how
         /\ Said(raw) => FoldDate(raw) = Exact(raw.word)
<1>1. /\ raw.how \in {"absent", "blank", "exact", "folded"}
      /\ raw = [how |-> raw.how, word |-> raw.word]
      /\ raw.how \in {"absent", "blank"} <=> raw.word = ""
  BY DEF Day, Knob
<1>2. Exact(raw.word).how = "exact" /\ Exact(raw.word).word = raw.word
  BY DEF Exact
<1>3. CASE raw.how = "folded"
  <2>1. FoldDate(raw) = Exact(raw.word)
    BY <1>3, Zenon DEF FoldDate
  <2>2. FoldDate(Exact(raw.word)) = Exact(raw.word)
    BY <1>2, Zenon DEF FoldDate
  <2>3. Day(Exact(raw.word))
    BY <1>1, <1>3, KnobIs, Zenon
  <2> QED BY <1>2, <1>3, <2>1, <2>2, <2>3, Zenon
<1>4. CASE raw.how # "folded"
  <2>1. FoldDate(raw) = raw
    BY <1>4, Zenon DEF FoldDate
  <2>2. Said(raw) => raw = Exact(raw.word)
    <3>1. Said(raw) => raw.how = "exact"
      BY <1>1, <1>4, Zenon DEF Said
    <3> QED BY <1>1, <3>1, Zenon DEF Exact
  <2> QED BY <1>4, <2>1, <2>2, Zenon
<1> QED BY <1>3, <1>4

LEMMA DatesTell ==
  ASSUME NEW p, Day(p), NEW q, Day(q)
  PROVE  FoldDate(p) = FoldDate(q) <=> DateMeant(p) = DateMeant(q)
<1>1. \A raw : Day(raw) =>
        /\ raw.how \in {"absent", "blank", "exact", "folded"}
        /\ raw = [how |-> raw.how, word |-> raw.word]
        /\ raw.how \in {"absent", "blank"} <=> raw.word = ""
  BY DEF Day, Knob
<1>2. FoldDate(p) = FoldDate(q) <=>
        /\ FoldDate(p).how = FoldDate(q).how
        /\ FoldDate(p).word = FoldDate(q).word
  BY <1>1, DateIs, Zenon
<1>3. \A raw : DateMeant(raw) = IF raw.how = "blank" THEN <<"as sent", raw.word>> ELSE <<"meant", raw.word>>
  BY Zenon DEF DateMeant, AsSent, Meant
<1>4. DateMeant(p) = DateMeant(q) <=> p.word = q.word /\ (p.how = "blank" <=> q.how = "blank")
  BY <1>3
<1>5. FoldDate(p).word = p.word /\ FoldDate(q).word = q.word
      /\ FoldDate(p).how = (IF p.how = "folded" THEN "exact" ELSE p.how)
      /\ FoldDate(q).how = (IF q.how = "folded" THEN "exact" ELSE q.how)
  BY DateIs, Zenon
<1> QED BY <1>1, <1>2, <1>4, <1>5

\* The knobs of research's own.
LEMMA OwnKnobsTell ==
  ASSUME NEW p, Knob(p), NEW q, Knob(q),
         p.word \notin {"auto", "any"}, q.word \notin {"auto", "any"}
  PROVE  FoldLocally(p) = FoldLocally(q) <=> OwnKnob(p) = OwnKnob(q)
<1>1. ASSUME NEW raw, Knob(raw), raw.word \notin {"auto", "any"}
      PROVE  \E f, o :
               /\ FoldLocally(raw) = [how |-> f, word |-> raw.word]
               /\ OwnKnob(raw) = IF o THEN <<"as sent", raw.word>>
                                 ELSE <<"meant", IF raw.word = "" THEN "any" ELSE raw.word>>
               /\ o <=> raw.how = "joined"
               /\ f = IF raw.word = "" THEN "absent" ELSE IF o THEN "joined" ELSE "exact"
  <2>1. /\ raw.how \in {"absent", "blank", "exact", "folded", "joined"}
        /\ raw = [how |-> raw.how, word |-> raw.word]
        /\ raw.how \in {"absent", "blank"} <=> raw.word = ""
        /\ Said(raw) <=> raw.word # ""
    BY <1>1, KnobIs, Zenon DEF Knob
  <2> DEFINE o == raw.how = "joined"
             f == IF raw.word = "" THEN "absent" ELSE IF o THEN "joined" ELSE "exact"
  <2>2. FoldLocally(raw) = [how |-> f, word |-> raw.word]
    <3>1. CASE raw.word = ""
      BY <2>1, <3>1, Zenon DEF FoldLocally, Absent
    <3>2. CASE raw.word # ""
      <4>1. CASE raw.how = "folded"
        BY <2>1, <3>2, <4>1, Zenon DEF FoldLocally, Exact
      <4>2. CASE raw.how # "folded"
        <5>1. raw.how = f
          BY <2>1, <3>2, <4>2
        <5> QED BY <2>1, <3>2, <4>2, <5>1, Zenon DEF FoldLocally
      <4> QED BY <4>1, <4>2
    <3> QED BY <3>1, <3>2
  <2>3. OwnKnob(raw) = IF o THEN <<"as sent", raw.word>>
                       ELSE <<"meant", IF raw.word = "" THEN "any" ELSE raw.word>>
    BY <1>1, <2>1, Zenon DEF OwnKnob, Wanted, AsSent, Meant
  <2> QED BY <2>2, <2>3, Zenon
<1>2. PICK f, o :
        /\ FoldLocally(p) = [how |-> f, word |-> p.word]
        /\ OwnKnob(p) = IF o THEN <<"as sent", p.word>>
                        ELSE <<"meant", IF p.word = "" THEN "any" ELSE p.word>>
        /\ o <=> p.how = "joined"
        /\ f = IF p.word = "" THEN "absent" ELSE IF o THEN "joined" ELSE "exact"
  BY <1>1, Zenon
<1>3. PICK g, u :
        /\ FoldLocally(q) = [how |-> g, word |-> q.word]
        /\ OwnKnob(q) = IF u THEN <<"as sent", q.word>>
                        ELSE <<"meant", IF q.word = "" THEN "any" ELSE q.word>>
        /\ u <=> q.how = "joined"
        /\ g = IF q.word = "" THEN "absent" ELSE IF u THEN "joined" ELSE "exact"
  BY <1>1, Zenon
<1>4. FoldLocally(p) = FoldLocally(q) <=> p.word = q.word /\ f = g
  <2>1. [how |-> f, word |-> p.word] = [how |-> g, word |-> q.word] <=> f = g /\ p.word = q.word
    BY SpellingsTell, Zenon
  <2> QED BY <2>1, <1>2, <1>3, Zenon
<1>5. (p.word = "" => ~o) /\ (q.word = "" => ~u)
  BY <1>2, <1>3, Zenon DEF Knob
<1>6. OwnKnob(p) = OwnKnob(q) <=> p.word = q.word /\ (o <=> u)
  <2>1. "as sent" # "meant"
    OBVIOUS
  <2> DEFINE m == IF p.word = "" THEN "any" ELSE p.word
             n == IF q.word = "" THEN "any" ELSE q.word
  <2>2. m = n <=> p.word = q.word
    OBVIOUS
  <2>3. /\ <<"as sent", p.word>> = <<"as sent", q.word>> <=> p.word = q.word
        /\ <<"meant", m>> = <<"meant", n>> <=> m = n
        /\ <<"as sent", p.word>> # <<"meant", n>>
        /\ <<"as sent", q.word>> # <<"meant", m>>
    BY <2>1
  <2>4. /\ o => OwnKnob(p) = <<"as sent", p.word>>
        /\ ~o => OwnKnob(p) = <<"meant", m>>
    BY <1>2, Zenon
  <2>5. /\ u => OwnKnob(q) = <<"as sent", q.word>>
        /\ ~u => OwnKnob(q) = <<"meant", n>>
    BY <1>3, Zenon
  <2> HIDE DEF m, n
  <2> QED BY <2>2, <2>3, <2>4, <2>5, Zenon
<1>7. "joined" # "exact" /\ "joined" # "absent" /\ "absent" # "exact"
  OBVIOUS
<1> QED BY <1>2, <1>3, <1>4, <1>5, <1>6, <1>7, Zenon

-----------------------------------------------------------------------------
(* Filter lists.                                                            *)

Single(how, name) == [how |-> how, names |-> <<name>>]

Word1(e) == IF e.how = "mistyped" THEN "mistyped" ELSE "exact"

LEMMA EntryIs ==
  ASSUME NEW e \in FilterEntries
  PROVE  /\ e.names \in Seq(STRING) /\ e.how \in {"exact", "dressed", "mistyped"}
         /\ e.how = "mistyped" => Len(e.names) = 1
         /\ SplitEntry(e) \in Seq(FilterEntries) /\ Len(SplitEntry(e)) = Len(e.names)
         /\ \A j \in 1..Len(e.names) : SplitEntry(e)[j] = Single(Word1(e), e.names[j])
<1>1. /\ e.names \in Seq(STRING) /\ e.how \in {"exact", "dressed", "mistyped"}
      /\ e.how = "mistyped" => Len(e.names) = 1
  BY DEF FilterEntries
<1>2. ASSUME NEW h \in {"exact", "mistyped"}, NEW w \in STRING
      PROVE  Single(h, w) \in FilterEntries
  <2>1. <<w>> \in Seq(STRING) /\ Len(<<w>>) = 1
    OBVIOUS
  <2> DEFINE n == <<w>>
  <2> HIDE DEF n
  <2>2. [how |-> h, names |-> n] \in [how : {"exact", "dressed", "mistyped"}, names : Seq(STRING)]
    BY <2>1 DEF n
  <2>3. [how |-> h, names |-> n].names = n
    OBVIOUS
  <2>4. [how |-> h, names |-> n] \in FilterEntries
    BY <2>1, <2>2, <2>3, Zenon DEF FilterEntries, n
  <2> QED BY <2>4, Zenon DEF Single, n
<1> DEFINE n == Len(e.names)
           F(j) == Single(Word1(e), e.names[j])
<1>3. n \in Nat /\ DOMAIN e.names = 1..n /\ \A j \in 1..n : e.names[j] \in STRING
  BY <1>1
<1>4. Word1(e) \in {"exact", "mistyped"}
  BY Zenon DEF Word1
<1>5. \A j \in 1..n : F(j) \in FilterEntries
  BY <1>2, <1>3, <1>4, Zenon
<1>6. SplitEntry(e) = [j \in 1..n |-> F(j)]
  BY <1>3, Zenon DEF SplitEntry, Single, Word1
<1> HIDE DEF F, n
<1>7. SplitEntry(e) \in Seq(FilterEntries) /\ Len(SplitEntry(e)) = n
  BY <1>3, <1>5, <1>6
<1>8. \A j \in 1..n : SplitEntry(e)[j] = F(j)
  BY <1>6, Zenon
<1> QED BY <1>1, <1>7, <1>8, Zenon DEF n, F

LEMMA SinglesTell ==
  \A h, v : Single(h, v).how = h /\ Single(h, v).names = <<v>> /\ Single(h, v).names[1] = v
<1> SUFFICES ASSUME NEW h, NEW v
             PROVE  Single(h, v).how = h /\ Single(h, v).names = <<v>> /\ Single(h, v).names[1] = v
  OBVIOUS
<1>1. Single(h, v).how = h /\ Single(h, v).names = <<v>>
  BY DEF Single
<1>2. <<v>>[1] = v
  OBVIOUS
<1> QED BY <1>1, <1>2, Zenon

LEMMA SameElements ==
  ASSUME NEW S, NEW s \in Seq(S), NEW t \in Seq(S), Len(s) = Len(t),
         \A k \in 1..Len(s) : s[k] = t[k]
  PROVE  s = t
OBVIOUS

\* What the fold makes of a list: an entry for each name.
LEMMA FoldListIs ==
  ASSUME NEW es \in Seq(FilterEntries)
  PROVE  /\ FoldList(es) \in Seq(FilterEntries) /\ Names(es) \in Seq(STRING)
         /\ Len(FoldList(es)) = Len(Names(es))
         /\ \A k \in 1..Len(Names(es)) : \E i \in DOMAIN es : \E j \in DOMAIN es[i].names :
              /\ Names(es)[k] = es[i].names[j]
              /\ FoldList(es)[k] = Single(Word1(es[i]), Names(es)[k])
<1> DEFINE ss == [i \in DOMAIN es |-> SplitEntry(es[i])]
           ts == [i \in DOMAIN es |-> es[i].names]
<1>1. Len(es) \in Nat /\ DOMAIN es = 1..Len(es) /\ \A i \in DOMAIN es : es[i] \in FilterEntries
  OBVIOUS
<1>2. \A i \in DOMAIN es : ss[i] = SplitEntry(es[i]) /\ ts[i] = es[i].names
  OBVIOUS
<1>3. \A i \in DOMAIN es : ss[i] \in Seq(FilterEntries) /\ ts[i] \in Seq(STRING) /\ Len(ss[i]) = Len(ts[i])
  BY <1>1, <1>2, EntryIs, Zenon
<1>4. DOMAIN ss = DOMAIN es /\ DOMAIN ts = DOMAIN es
  OBVIOUS
<1>5. ss \in Seq(Seq(FilterEntries)) /\ Len(ss) = Len(es)
  <2>1. \A i \in DOMAIN es : SplitEntry(es[i]) \in Seq(FilterEntries)
    BY <1>2, <1>3, Zenon
  <2>2. ss \in [1..Len(es) -> Seq(FilterEntries)]
    BY <1>1, <2>1, Zenon
  <2> HIDE DEF ss
  <2> QED BY <1>1, <2>2
<1>6. ts \in Seq(Seq(STRING)) /\ Len(ts) = Len(es)
  <2>1. \A i \in DOMAIN es : es[i].names \in Seq(STRING)
    BY <1>2, <1>3, Zenon
  <2>2. ts \in [1..Len(es) -> Seq(STRING)]
    BY <1>1, <2>1, Zenon
  <2> HIDE DEF ts
  <2> QED BY <1>1, <2>2
<1>7. FoldList(es) = Flat(ss) /\ Names(es) = Flat(ts)
  BY Zenon DEF FoldList, Names
<1> HIDE DEF ss, ts
<1>8. \A i \in 1..Len(ss) : Len(ss[i]) = Len(ts[i])
  BY <1>1, <1>3, <1>5, Zenon
<1>9. /\ Flat(ss) \in Seq(FilterEntries) /\ Flat(ts) \in Seq(STRING)
      /\ Len(Flat(ss)) = Len(Flat(ts))
      /\ \A k \in 1..Len(Flat(ss)) :
           \E i \in 1..Len(ss) : \E j \in 1..Len(ss[i]) :
             Flat(ss)[k] = ss[i][j] /\ Flat(ts)[k] = ts[i][j]
  <2>1. Len(ss) = Len(ts)
    BY <1>5, <1>6
  <2> DEFINE S == FilterEntries
             T == STRING
  <2>2. ss \in Seq(Seq(S)) /\ ts \in Seq(Seq(T))
    BY <1>5, <1>6, Zenon
  <2> HIDE DEF S, T
  <2>3. Flat(ss) \in Seq(S) /\ Flat(ts) \in Seq(T)
    BY <1>8, <2>1, <2>2, FlatAlong, Zenon
  <2>4. Len(Flat(ss)) = Len(Flat(ts))
    BY <1>8, <2>1, <2>2, FlatAlong, SMT
  <2>5. \A k \in 1..Len(Flat(ss)) : Alongside(ss, ts, k)
    BY <1>8, <2>1, <2>2, FlatAlong, Zenon
  <2> QED BY <2>3, <2>4, <2>5, Zenon DEF S, T, Alongside
<1>10. ASSUME NEW k \in 1..Len(Names(es))
       PROVE  \E i \in DOMAIN es : \E j \in DOMAIN es[i].names :
                /\ Names(es)[k] = es[i].names[j]
                /\ FoldList(es)[k] = Single(Word1(es[i]), Names(es)[k])
  <2>1. k \in 1..Len(Flat(ss))
    BY <1>7, <1>9, <1>10
  <2>a. PICK i \in 1..Len(ss) : \E j \in 1..Len(ss[i]) : Flat(ss)[k] = ss[i][j] /\ Flat(ts)[k] = ts[i][j]
    BY <1>9, <2>1, Zenon
  <2>2. PICK j \in 1..Len(ss[i]) : Flat(ss)[k] = ss[i][j] /\ Flat(ts)[k] = ts[i][j]
    BY <2>a
  <2>3. i \in DOMAIN es /\ es[i] \in FilterEntries
    BY <1>1, <1>5, Zenon
  <2>4. j \in 1..Len(es[i].names)
    BY <1>2, <1>3, <2>3, Zenon
  <2>5. SplitEntry(es[i])[j] = Single(Word1(es[i]), es[i].names[j])
    BY <2>3, <2>4, EntryIs, Zenon
  <2>6. j \in DOMAIN es[i].names
    <3>1. es[i].names \in Seq(STRING)
      BY <2>3, EntryIs, Zenon
    <3> QED BY <2>4, <3>1
  <2> QED BY <1>2, <1>7, <2>2, <2>3, <2>5, <2>6, Zenon
<1> QED BY <1>7, <1>9, <1>10, Zenon

LEMMA FoldedHow ==
  ASSUME NEW es \in Seq(FilterEntries), NEW k \in 1..Len(Names(es))
  PROVE  \E h \in {"exact", "mistyped"} : FoldList(es)[k] = Single(h, Names(es)[k])
<1>1. PICK i \in DOMAIN es : FoldList(es)[k] = Single(Word1(es[i]), Names(es)[k])
  BY FoldListIs, Zenon
<1> QED BY <1>1, Zenon DEF Word1

\* Folding a folded list changes nothing, and leaves its names.
LEMMA FoldListTwice ==
  ASSUME NEW es \in Seq(FilterEntries)
  PROVE  FoldList(FoldList(es)) = FoldList(es) /\ Names(FoldList(es)) = Names(es)
<1> DEFINE f == FoldList(es)
           n == Len(Names(es))
<1>1. f \in Seq(FilterEntries) /\ Names(es) \in Seq(STRING) /\ Len(f) = n
  BY FoldListIs
<1>2. DOMAIN f = 1..n /\ n \in Nat
  BY <1>1
<1>3. ASSUME NEW k \in 1..n
      PROVE  f[k].names = <<Names(es)[k]>> /\ SplitEntry(f[k]) = <<f[k]>>
  <2>1. PICK h \in {"exact", "mistyped"} : f[k] = Single(h, Names(es)[k])
    BY FoldedHow, Zenon
  <2>2. f[k] \in FilterEntries
    BY <1>1
  <2>3. f[k].names = <<Names(es)[k]>> /\ f[k].how = h
    BY <2>1, SinglesTell, Zenon
  <2>4. Word1(f[k]) = h
    BY <2>3, Zenon DEF Word1
  <2> DEFINE w == Names(es)[k]
  <2>5. Len(<<w>>) = 1 /\ <<w>>[1] = w
    OBVIOUS
  <2> HIDE DEF f, w
  <2>6. /\ SplitEntry(f[k]) \in Seq(FilterEntries) /\ Len(SplitEntry(f[k])) = 1
        /\ SplitEntry(f[k])[1] = f[k]
    <3>1. Len(f[k].names) = 1 /\ f[k].names[1] = w /\ 1 \in 1..1
      BY <2>3, <2>5 DEF w
    <3> QED BY <2>1, <2>2, <2>4, <3>1, EntryIs, Zenon DEF w
  <2> QED BY <2>3, <2>6 DEF w
<1> HIDE DEF f, n
<1>4. FoldList(f) = Flat([k \in 1..Len(f) |-> <<f[k]>>])
  BY <1>1, <1>2, <1>3, Zenon DEF FoldList
<1>5. Names(f) = Flat([k \in 1..Len(Names(es)) |-> <<Names(es)[k]>>])
  BY <1>2, <1>3, Zenon DEF Names, n
<1> QED BY <1>1, <1>4, <1>5, FlatOnes, Zenon DEF f

\* Two lists fold to the same if and only if they hold the same names.
LEMMA NamesTell ==
  ASSUME NEW es \in Seq(FilterEntries), NEW fs \in Seq(FilterEntries),
         NoClash(es, fs), NoClash(fs, es)
  PROVE  FoldList(es) = FoldList(fs) <=> Names(es) = Names(fs)
<1>1. ASSUME NEW x \in Seq(FilterEntries), NEW k \in 1..Len(Names(x))
      PROVE  FoldList(x)[k].names[1] = Names(x)[k]
  <2>1. PICK h \in {"exact", "mistyped"} : FoldList(x)[k] = Single(h, Names(x)[k])
    BY FoldedHow
  <2>2. Single(h, Names(x)[k]).names[1] = Names(x)[k]
    BY SinglesTell, Zenon
  <2> QED BY <2>1, <2>2, Zenon
<1>2. ASSUME FoldList(es) = FoldList(fs)
      PROVE  Names(es) = Names(fs)
  <2>1. /\ Names(es) \in Seq(STRING) /\ Names(fs) \in Seq(STRING) /\ Len(Names(es)) = Len(Names(fs))
    BY <1>2, FoldListIs
  <2>2. \A k \in 1..Len(Names(es)) : Names(es)[k] = Names(fs)[k]
    BY <1>1, <1>2, <2>1, Zenon
  <2> QED BY <2>1, <2>2
<1>3. ASSUME NEW x \in Seq(FilterEntries), NEW y \in Seq(FilterEntries), NoClash(x, y),
             Names(x) = Names(y), NEW k \in 1..Len(Names(x)),
             FoldList(x)[k] = Single("mistyped", Names(x)[k])
      PROVE  FoldList(y)[k] = Single("mistyped", Names(x)[k])
  <2>a. PICK i \in DOMAIN x : \E j \in DOMAIN x[i].names :
          Names(x)[k] = x[i].names[j] /\ FoldList(x)[k] = Single(Word1(x[i]), Names(x)[k])
    BY FoldListIs, Zenon
  <2>1. PICK j \in DOMAIN x[i].names :
          Names(x)[k] = x[i].names[j] /\ FoldList(x)[k] = Single(Word1(x[i]), Names(x)[k])
    BY <2>a
  <2>b. PICK m \in DOMAIN y : \E n \in DOMAIN y[m].names :
          Names(y)[k] = y[m].names[n] /\ FoldList(y)[k] = Single(Word1(y[m]), Names(y)[k])
    BY <1>3, FoldListIs, Zenon
  <2>2. PICK n \in DOMAIN y[m].names :
          Names(y)[k] = y[m].names[n] /\ FoldList(y)[k] = Single(Word1(y[m]), Names(y)[k])
    BY <2>b
  <2>3. x[i].how = "mistyped"
    <3> DEFINE w == Names(x)[k]
    <3>3. Single("mistyped", w).how = "mistyped" /\ Single(Word1(x[i]), w).how = Word1(x[i])
      BY SinglesTell, Zenon
    <3>1. Word1(x[i]) = "mistyped"
      BY <1>3, <2>1, <3>3, Zenon
    <3>2. "exact" # "mistyped"
      OBVIOUS
    <3> QED BY <3>1, <3>2, Zenon DEF Word1
  <2>4. x[i] \in FilterEntries
    OBVIOUS
  <2>5. j = 1
    <3>1. Len(x[i].names) = 1 /\ x[i].names \in Seq(STRING)
      BY <2>3, <2>4, EntryIs, Zenon
    <3> QED BY <3>1, <2>1
  <2>6. y[m].how = "mistyped"
    BY <1>3, <2>1, <2>2, <2>3, <2>5, Zenon DEF NoClash
  <2> QED BY <1>3, <2>2, <2>6, Zenon DEF Word1
<1>4. ASSUME Names(es) = Names(fs)
      PROVE  FoldList(es) = FoldList(fs)
  <2>1. /\ FoldList(es) \in Seq(FilterEntries) /\ FoldList(fs) \in Seq(FilterEntries)
        /\ Len(FoldList(es)) = Len(FoldList(fs)) /\ Len(FoldList(es)) = Len(Names(es))
    BY <1>4, FoldListIs
  <2>2. ASSUME NEW k \in 1..Len(Names(es))
        PROVE  FoldList(es)[k] = FoldList(fs)[k]
    <3> DEFINE w == Names(es)[k]
    <3>1. PICK h \in {"exact", "mistyped"} : FoldList(es)[k] = Single(h, w)
      BY FoldedHow
    <3>2. PICK g \in {"exact", "mistyped"} : FoldList(fs)[k] = Single(g, w)
      BY <1>4, FoldedHow, Zenon
    <3>3. CASE h = "mistyped"
      BY <1>3, <1>4, <3>1, <3>3, Zenon
    <3>4. CASE g = "mistyped"
      BY <1>3, <1>4, <3>2, <3>4, Zenon
    <3>5. CASE h = "exact" /\ g = "exact"
      BY <3>1, <3>2, <3>5, Zenon
    <3> QED BY <3>3, <3>4, <3>5
  <2> QED BY <2>1, <2>2, SameElements, Zenon
<1> QED BY <1>2, <1>4

-----------------------------------------------------------------------------
(* Source lists.                                                            *)

AnySaid(s) == \E i \in DOMAIN s : Said(s[i])

SourcesMeant(s) ==
  IF AnySaid(s) THEN <<"named", SourceNames(s)>> ELSE <<"blanks", Len(s)>>

\* The names of a list: one for each source that is named, from a place that
\* names it.
LEMMA SourceNamesAre ==
  ASSUME NEW s \in Seq(SourceTexts)
  PROVE  /\ \E T : SourceNames(s) \in Seq(T)
         /\ SourceNames(s) = <<>> <=> ~AnySaid(s)
         /\ \A k \in DOMAIN SourceNames(s) :
              \E i \in DOMAIN s : Said(s[i]) /\ SourceNames(s)[k] = SourceName(s[i])
         /\ \A i \in DOMAIN s : Said(s[i]) =>
              \E k \in DOMAIN SourceNames(s) : SourceNames(s)[k] = SourceName(s[i])
<1> DEFINE N(i) == SourceName(s[i])
           f == [i \in DOMAIN s |-> SourceName(s[i])]
           T == {SourceName(s[i]) : i \in DOMAIN s}
           First(i) == /\ Said(s[i])
                       /\ \A j \in 1..(i - 1) : Said(s[j]) => SourceName(s[j]) # SourceName(s[i])
           I == {i \in DOMAIN s : First(i)}
           c == Cardinality(I)
<1>1. Len(s) \in Nat /\ DOMAIN s = 1..Len(s)
  OBVIOUS
<1>2. SourceNames(s) = Picked(f, I)
  BY Zenon DEF SourceNames
<1>3. f \in Seq(T) /\ DOMAIN f = DOMAIN s /\ \A i \in DOMAIN s : f[i] = SourceName(s[i])
  <2>1. \A i \in DOMAIN s : SourceName(s[i]) \in T
    OBVIOUS
  <2>2. f \in [1..Len(s) -> T]
    BY <1>1, <2>1, Zenon
  <2>3. DOMAIN f = DOMAIN s /\ \A i \in DOMAIN s : f[i] = SourceName(s[i])
    BY Zenon
  <2> HIDE DEF f, T
  <2> QED BY <1>1, <2>2, <2>3
<1>4. I \subseteq DOMAIN f
  BY <1>3
<1> HIDE DEF f, T, I
<1>5. /\ Picked(f, I) \in Seq(T)
      /\ Len(Picked(f, I)) = c
      /\ \E at \in [1..c -> I] :
           /\ Ascends(at, c)
           /\ \A k \in 1..c : Picked(f, I)[k] = f[at[k]]
           /\ \A i \in I : \E k \in 1..c : at[k] = i
  BY <1>3, <1>4, PickedIs
<1>6. DOMAIN SourceNames(s) = 1..c /\ c \in Nat
  BY <1>2, <1>5
<1>7. \A i \in I : i \in DOMAIN s /\ Said(s[i])
  BY DEF I
<1>8. PICK at \in [1..c -> I] :
        /\ \A k \in 1..c : Picked(f, I)[k] = f[at[k]]
        /\ \A i \in I : \E k \in 1..c : at[k] = i
  BY <1>5
<1>9. ASSUME NEW k \in DOMAIN SourceNames(s)
      PROVE  \E i \in DOMAIN s : Said(s[i]) /\ SourceNames(s)[k] = SourceName(s[i])
  <2>1. at[k] \in I /\ SourceNames(s)[k] = f[at[k]]
    BY <1>2, <1>6, <1>8
  <2> QED BY <1>3, <1>7, <2>1, Zenon
<1>10. ASSUME NEW i \in DOMAIN s, Said(s[i])
       PROVE  \E k \in DOMAIN SourceNames(s) : SourceNames(s)[k] = SourceName(s[i])
  <2> DEFINE J == {j \in DOMAIN s : Said(s[j]) /\ SourceName(s[j]) = SourceName(s[i])}
  <2>1. J \subseteq Nat /\ J # {}
    BY <1>1, <1>10
  <2>2. PICK j \in J : \A m \in J : j <= m
    BY <2>1, LeastNumber
  <2>3. j \in DOMAIN s /\ j \in 1..Len(s) /\ Said(s[j]) /\ SourceName(s[j]) = SourceName(s[i])
    BY <1>1, <2>2
  <2>4. ASSUME NEW m \in 1..(j - 1), Said(s[m])
        PROVE  SourceName(s[m]) # SourceName(s[j])
    <3>1. m \in DOMAIN s /\ ~(j <= m)
      BY <1>1, <2>3, <2>4
    <3> QED BY <2>2, <2>3, <2>4, <3>1, Zenon
  <2>5. j \in I
    BY <2>3, <2>4, Zenon DEF I
  <2>6. PICK k \in 1..c : at[k] = j
    BY <1>8, <2>5
  <2>7. SourceNames(s)[k] = SourceName(s[j])
    BY <1>2, <1>3, <1>8, <2>3, <2>6, Zenon
  <2> QED BY <1>6, <2>3, <2>6, <2>7, Zenon
<1>11. SourceNames(s) = <<>> <=> ~AnySaid(s)
  <2>1. SourceNames(s) = <<>> <=> DOMAIN SourceNames(s) = {}
    BY <1>2, <1>5
  <2>2. ASSUME AnySaid(s) PROVE DOMAIN SourceNames(s) # {}
    BY <1>10, <2>2, Zenon DEF AnySaid
  <2>3. ASSUME DOMAIN SourceNames(s) # {} PROVE AnySaid(s)
    BY <1>9, <2>3, Zenon DEF AnySaid
  <2> QED BY <2>1, <2>2, <2>3
<1>12. \E U : SourceNames(s) \in Seq(U)
  BY <1>2, <1>5, Zenon
<1> QED BY <1>9, <1>10, <1>11, <1>12, Zenon

LEMMA FoldSourcesIs ==
  ASSUME NEW s \in Seq(SourceTexts), ~SourceRefused(s)
  PROVE  /\ AnySaid(s) =>
              /\ DOMAIN FoldSources(s) = DOMAIN SourceNames(s)
              /\ \A k \in DOMAIN SourceNames(s) : FoldSources(s)[k] = Exact(SourceNames(s)[k])
              /\ FoldSources(s) = [k \in DOMAIN SourceNames(s) |-> Exact(SourceNames(s)[k])]
         /\ ~AnySaid(s) => FoldSources(s) = s
<1>1. CASE AnySaid(s)
  <2>1. FoldSources(s) = [k \in DOMAIN SourceNames(s) |-> Exact(SourceNames(s)[k])]
    BY <1>1, SourceNamesAre, Zenon DEF FoldSources
  <2> QED BY <1>1, <2>1, Zenon
<1>2. CASE ~AnySaid(s)
  BY <1>2, SourceNamesAre, Zenon DEF FoldSources
<1> QED BY <1>1, <1>2, Zenon

LEMMA BlanksAre ==
  ASSUME NEW s \in Seq(SourceTexts), ~AnySaid(s), NEW i \in DOMAIN s
  PROVE  s[i] = [how |-> "blank", word |-> ""]
<1>1. s[i] \in SourceTexts
  OBVIOUS
<1>2. Knob(s[i]) /\ s[i].how # "absent" /\ ~Said(s[i])
  BY <1>1, KnobIs, Zenon DEF AnySaid
<1>3. s[i].how = "blank" /\ s[i].word = ""
  BY <1>2, KnobIs, Zenon DEF Said
<1> QED BY <1>2, <1>3, Zenon DEF Knob

LEMMA SourcesTell ==
  ASSUME NEW s \in Seq(SourceTexts), ~SourceRefused(s),
         NEW t \in Seq(SourceTexts), ~SourceRefused(t)
  PROVE  FoldSources(s) = FoldSources(t) <=> SourcesMeant(s) = SourcesMeant(t)
<1>1. CASE AnySaid(s) /\ AnySaid(t)
  <2>1. \A v, w : Exact(v) = Exact(w) => v = w
    BY SpellingsTell, Zenon DEF Exact
  <2>2. PICK T : SourceNames(s) \in Seq(T)
    BY SourceNamesAre, Zenon
  <2>3. PICK U : SourceNames(t) \in Seq(U)
    BY SourceNamesAre, Zenon
  <2>4. ASSUME FoldSources(s) = FoldSources(t)
        PROVE  SourceNames(s) = SourceNames(t)
    <3>1. DOMAIN SourceNames(s) = DOMAIN SourceNames(t)
      BY <1>1, <2>4, FoldSourcesIs, Zenon
    <3>2. ASSUME NEW k \in DOMAIN SourceNames(s)
          PROVE  SourceNames(s)[k] = SourceNames(t)[k]
      <4>1. FoldSources(s)[k] = Exact(SourceNames(s)[k])
        BY <1>1, FoldSourcesIs, Zenon
      <4>2. FoldSources(t)[k] = Exact(SourceNames(t)[k])
        BY <1>1, <3>1, FoldSourcesIs, Zenon
      <4>3. Exact(SourceNames(s)[k]) = Exact(SourceNames(t)[k])
        BY <2>4, <4>1, <4>2, Zenon
      <4> QED BY <2>1, <4>3, Zenon
    <3> QED BY <2>2, <2>3, <3>1, <3>2
  <2>5. ASSUME SourceNames(s) = SourceNames(t)
        PROVE  FoldSources(s) = FoldSources(t)
    BY <1>1, <2>5, FoldSourcesIs, Zenon
  <2>6. <<"named", SourceNames(s)>> = <<"named", SourceNames(t)>> <=> SourceNames(s) = SourceNames(t)
    BY SpellingsTell, Zenon
  <2> QED BY <1>1, <2>4, <2>5, <2>6, Zenon DEF SourcesMeant
<1>2. CASE ~AnySaid(s) /\ ~AnySaid(t)
  <2>1. FoldSources(s) = s /\ FoldSources(t) = t
    BY <1>2, FoldSourcesIs
  <2>2. ASSUME Len(s) = Len(t) PROVE s = t
    <3>1. \A k \in 1..Len(s) : s[k] = t[k]
      <4>1. DOMAIN s = 1..Len(s) /\ DOMAIN t = 1..Len(s)
        BY <2>2
      <4> QED BY <1>2, <4>1, BlanksAre, Zenon
    <3> QED BY <2>2, <3>1
  <2>3. <<"blanks", Len(s)>> = <<"blanks", Len(t)>> <=> Len(s) = Len(t)
    BY SpellingsTell, Zenon
  <2> QED BY <1>2, <2>1, <2>2, <2>3, Zenon DEF SourcesMeant
<1>3. ASSUME NEW x \in Seq(SourceTexts), ~SourceRefused(x), AnySaid(x),
             NEW y \in Seq(SourceTexts), ~SourceRefused(y), ~AnySaid(y)
      PROVE  FoldSources(x) # FoldSources(y) /\ SourcesMeant(x) # SourcesMeant(y)
  <2>1. SourcesMeant(x) # SourcesMeant(y)
    <3>1. "named" # "blanks"
      OBVIOUS
    <3> QED BY <1>3, <3>1, SpellingsTell, Zenon DEF SourcesMeant
  <2>2. PICK k \in DOMAIN SourceNames(x) : TRUE
    <3>1. PICK T : SourceNames(x) \in Seq(T)
      BY <1>3, SourceNamesAre, Zenon
    <3>2. SourceNames(x) # <<>>
      BY <1>3, SourceNamesAre, Zenon
    <3> DEFINE n == SourceNames(x)
    <3> HIDE DEF n
    <3>3. n \in Seq(T) /\ n # <<>>
      BY <3>1, <3>2 DEF n
    <3>4. 1 \in DOMAIN n
      BY <3>3
    <3> QED BY <3>4, Zenon DEF n
  <2>3. FoldSources(x)[k].how = "exact" /\ k \in DOMAIN FoldSources(x)
    <3>1. \A w : Exact(w).how = "exact"
      BY DEF Exact
    <3>2. FoldSources(x)[k] = Exact(SourceNames(x)[k])
      BY <1>3, FoldSourcesIs, Zenon
    <3>3. DOMAIN FoldSources(x) = DOMAIN SourceNames(x)
      BY <1>3, FoldSourcesIs, Zenon
    <3> QED BY <3>1, <3>2, <3>3, Zenon
  <2>4. k \in DOMAIN y => y[k].how = "blank"
    <3>1. [how |-> "blank", word |-> ""].how = "blank"
      OBVIOUS
    <3> QED BY <1>3, <3>1, BlanksAre, Zenon
  <2>5. FoldSources(y) = y
    BY <1>3, FoldSourcesIs, Zenon
  <2>6. "exact" # "blank"
    OBVIOUS
  <2> QED BY <2>1, <2>3, <2>4, <2>5, <2>6, Zenon
<1> QED BY <1>1, <1>2, <1>3, Zenon

-----------------------------------------------------------------------------
(* A search as a record.                                                    *)

Fields(q) ==
  [text |-> q.text, query |-> q.query, mode |-> q.mode, intent |-> q.intent,
   strategy |-> q.strategy, provider |-> q.provider, depth |-> q.depth, range |-> q.range,
   from |-> q.from, sources |-> q.sources, domains |-> q.domains, handles |-> q.handles,
   content |-> q.content, raw |-> q.raw, country |-> q.country, chunks |-> q.chunks,
   schema |-> q.schema, rest |-> q.rest]

SameFields(p, q) ==
  /\ p.text = q.text /\ p.query = q.query /\ p.mode = q.mode /\ p.intent = q.intent
  /\ p.strategy = q.strategy /\ p.provider = q.provider /\ p.depth = q.depth
  /\ p.range = q.range /\ p.from = q.from /\ p.sources = q.sources
  /\ p.domains = q.domains /\ p.handles = q.handles /\ p.content = q.content
  /\ p.raw = q.raw /\ p.country = q.country /\ p.chunks = q.chunks
  /\ p.schema = q.schema /\ p.rest = q.rest

LEMMA FieldsTell ==
  ASSUME NEW p, NEW q, p = Fields(p), q = Fields(q)
  PROVE  p = q <=> SameFields(p, q)
BY SMT DEF Fields, SameFields

LEMMA CanonicalFields ==
  ASSUME NEW q, q = Fields(q)
  PROVE  Canonicalize(q) = Fields(Canonicalize(q))
<1> DEFINE k0 == q
           k1 == [k0 EXCEPT !.query = IF q.query = "spaced" THEN "tidy" ELSE q.query]
           k2 == [k1 EXCEPT !.mode = Settled(q.mode, Choice(q.mode, VALID_MODES))]
           k3 == [k2 EXCEPT !.intent = Settled(q.intent, Choice(q.intent, VALID_INTENTS))]
           k4 == [k3 EXCEPT !.strategy = Settled(q.strategy, Choice(q.strategy, VALID_STRATEGIES))]
           k5 == [k4 EXCEPT !.provider = Settled(q.provider, Choice(q.provider, VALID_PROVIDERS))]
           k6 == [k5 EXCEPT !.depth = Settled(q.depth, Depth(q.depth))]
           k7 == [k6 EXCEPT !.range = Settled(q.range, TimeRange(q.range))]
           k8 == [k7 EXCEPT !.from = FoldDate(q.from)]
           k9 == [k8 EXCEPT !.sources = FoldSources(q.sources)]
           k10 == [k9 EXCEPT !.domains = FoldList(q.domains)]
           k11 == [k10 EXCEPT !.handles = FoldList(q.handles)]
<1>0. Canonicalize(q) = k11
  BY Zenon DEF Canonicalize
<1>1. k0 = Fields(k0)
  OBVIOUS
<1> HIDE DEF k0, k1, k2, k3, k4, k5, k6, k7, k8, k9, k10, k11
<1>2. k1 = Fields(k1)
  BY <1>1, SMT DEF Fields, k1
<1>3. k2 = Fields(k2)
  BY <1>2, SMT DEF Fields, k2
<1>4. k3 = Fields(k3)
  BY <1>3, SMT DEF Fields, k3
<1>5. k4 = Fields(k4)
  BY <1>4, SMT DEF Fields, k4
<1>6. k5 = Fields(k5)
  BY <1>5, SMT DEF Fields, k5
<1>7. k6 = Fields(k6)
  BY <1>6, SMT DEF Fields, k6
<1>8. k7 = Fields(k7)
  BY <1>7, SMT DEF Fields, k7
<1>9. k8 = Fields(k8)
  BY <1>8, SMT DEF Fields, k8
<1>10. k9 = Fields(k9)
  BY <1>9, SMT DEF Fields, k9
<1>11. k10 = Fields(k10)
  BY <1>10, SMT DEF Fields, k10
<1>12. k11 = Fields(k11)
  BY <1>11, SMT DEF Fields, k11
<1> QED BY <1>0, <1>12, Zenon

LEMMA KeyFields ==
  ASSUME NEW q, q = Fields(q)
  PROVE  SearchKey(q) = Fields(SearchKey(q))
<1> DEFINE k0 == q
           k1 == [k0 EXCEPT !.mode = AutoNone(q.mode)]
           k2 == [k1 EXCEPT !.intent = AutoNone(q.intent)]
           k3 == [k2 EXCEPT !.strategy = AutoNone(q.strategy)]
           k4 == [k3 EXCEPT !.provider = AutoNone(q.provider)]
<1>0. SearchKey(q) = k4
  BY Zenon DEF SearchKey
<1>1. k0 = Fields(k0)
  OBVIOUS
<1> HIDE DEF k0, k1, k2, k3, k4
<1>2. k1 = Fields(k1)
  BY <1>1, SMT DEF Fields, k1
<1>3. k2 = Fields(k2)
  BY <1>2, SMT DEF Fields, k2
<1>4. k3 = Fields(k3)
  BY <1>3, SMT DEF Fields, k3
<1>5. k4 = Fields(k4)
  BY <1>4, SMT DEF Fields, k4
<1> QED BY <1>0, <1>5, Zenon

\* What the canonical form and the key hold.
LEMMA CanonicalIs ==
  ASSUME NEW q, q = Fields(q), NEW k, k = Canonicalize(q)
  PROVE  /\ k = Fields(k)
         /\ k.text = q.text
         /\ k.query = (IF q.query = "spaced" THEN "tidy" ELSE q.query)
         /\ k.mode = Settled(q.mode, Choice(q.mode, VALID_MODES))
         /\ k.intent = Settled(q.intent, Choice(q.intent, VALID_INTENTS))
         /\ k.strategy = Settled(q.strategy, Choice(q.strategy, VALID_STRATEGIES))
         /\ k.provider = Settled(q.provider, Choice(q.provider, VALID_PROVIDERS))
         /\ k.depth = Settled(q.depth, Depth(q.depth))
         /\ k.range = Settled(q.range, TimeRange(q.range))
         /\ k.from = FoldDate(q.from)
         /\ k.sources = FoldSources(q.sources)
         /\ k.domains = FoldList(q.domains)
         /\ k.handles = FoldList(q.handles)
         /\ k.content = q.content
         /\ k.raw = q.raw
         /\ k.country = q.country
         /\ k.chunks = q.chunks
         /\ k.schema = q.schema
         /\ k.rest = q.rest
<1>1. k = Fields(k)
  BY CanonicalFields, Zenon
<1>2. /\ k.text = q.text
      /\ k.query = (IF q.query = "spaced" THEN "tidy" ELSE q.query)
      /\ k.content = q.content
      /\ k.raw = q.raw
      /\ k.country = q.country
      /\ k.chunks = q.chunks
      /\ k.schema = q.schema
      /\ k.rest = q.rest
  BY SMT DEF Fields, Canonicalize
<1>3. /\ k.mode = Settled(q.mode, Choice(q.mode, VALID_MODES))
      /\ k.intent = Settled(q.intent, Choice(q.intent, VALID_INTENTS))
      /\ k.strategy = Settled(q.strategy, Choice(q.strategy, VALID_STRATEGIES))
      /\ k.provider = Settled(q.provider, Choice(q.provider, VALID_PROVIDERS))
      /\ k.depth = Settled(q.depth, Depth(q.depth))
  BY SMT DEF Fields, Canonicalize
<1>4. /\ k.range = Settled(q.range, TimeRange(q.range))
      /\ k.from = FoldDate(q.from)
      /\ k.sources = FoldSources(q.sources)
      /\ k.domains = FoldList(q.domains)
      /\ k.handles = FoldList(q.handles)
  BY SMT DEF Fields, Canonicalize
<1> QED BY <1>1, <1>2, <1>3, <1>4, Zenon

LEMMA SearchKeyIs ==
  ASSUME NEW q, q = Fields(q), NEW k, k = SearchKey(q)
  PROVE  /\ k = Fields(k)
         /\ k.text = q.text
         /\ k.query = q.query
         /\ k.mode = AutoNone(q.mode)
         /\ k.intent = AutoNone(q.intent)
         /\ k.strategy = AutoNone(q.strategy)
         /\ k.provider = AutoNone(q.provider)
         /\ k.depth = q.depth
         /\ k.range = q.range
         /\ k.from = q.from
         /\ k.sources = q.sources
         /\ k.domains = q.domains
         /\ k.handles = q.handles
         /\ k.content = q.content
         /\ k.raw = q.raw
         /\ k.country = q.country
         /\ k.chunks = q.chunks
         /\ k.schema = q.schema
         /\ k.rest = q.rest
<1>1. k = Fields(k)
  BY KeyFields, Zenon
<1>2. /\ k.intent = AutoNone(q.intent)
      /\ k.mode = AutoNone(q.mode)
      /\ k.provider = AutoNone(q.provider)
      /\ k.strategy = AutoNone(q.strategy)
  BY SMT DEF Fields, SearchKey
<1>3. /\ k.text = q.text
      /\ k.query = q.query
      /\ k.depth = q.depth
      /\ k.range = q.range
      /\ k.from = q.from
      /\ k.sources = q.sources
      /\ k.domains = q.domains
  BY SMT DEF Fields, SearchKey
<1>4. /\ k.handles = q.handles
      /\ k.content = q.content
      /\ k.raw = q.raw
      /\ k.country = q.country
      /\ k.chunks = q.chunks
      /\ k.schema = q.schema
      /\ k.rest = q.rest
  BY SMT DEF Fields, SearchKey
<1> QED BY <1>1, <1>2, <1>3, <1>4, Zenon

LEMMA BodyFields ==
  ASSUME NEW q \in SearchBodies
  PROVE  q = Fields(q)
BY SMT DEF Fields, SearchBodies

LEMMA WebLegFields ==
  ASSUME NEW r
  PROVE  WebLeg(r) = Fields(WebLeg(r))
<1>1. Plain = Fields(Plain)
  BY SMT DEF Plain, Fields
<1> DEFINE k0 == Plain
           k1 == [k0 EXCEPT !.text = r.text]
           k2 == [k1 EXCEPT !.query = r.query]
           k3 == [k2 EXCEPT !.range = r.range]
           k4 == [k3 EXCEPT !.from = r.from]
           k5 == [k4 EXCEPT !.domains = r.domains]
           k6 == [k5 EXCEPT !.country = r.country]
           k7 == [k6 EXCEPT !.rest = r.rest]
           k8 == [k7 EXCEPT !.content = IF r.deep \/ r.content = "unset" THEN "no" ELSE r.content]
<1>2. WebLeg(r) = k8
  BY Zenon DEF WebLeg
<1>3. k0 = Fields(k0)
  BY <1>1
<1> HIDE DEF k0, k1, k2, k3, k4, k5, k6, k7, k8
<1>4. k1 = Fields(k1)
  BY <1>3, SMT DEF Fields, k1
<1>5. k2 = Fields(k2)
  BY <1>4, SMT DEF Fields, k2
<1>6. k3 = Fields(k3)
  BY <1>5, SMT DEF Fields, k3
<1>7. k4 = Fields(k4)
  BY <1>6, SMT DEF Fields, k4
<1>8. k5 = Fields(k5)
  BY <1>7, SMT DEF Fields, k5
<1>9. k6 = Fields(k6)
  BY <1>8, SMT DEF Fields, k6
<1>10. k7 = Fields(k7)
  BY <1>9, SMT DEF Fields, k7
<1>11. k8 = Fields(k8)
  BY <1>10, SMT DEF Fields, k8
<1> QED BY <1>2, <1>11, Zenon

-----------------------------------------------------------------------------
(* Searches that were let in, and what their keys tell.                     *)

Typed(q) ==
  /\ q = Fields(q)
  /\ q.query \in {"tidy", "spaced", "blank"}
  /\ Knob(q.mode) /\ Knob(q.intent) /\ Knob(q.strategy) /\ Knob(q.provider)
  /\ Knob(q.depth) /\ Knob(q.range) /\ Day(q.from)
  /\ q.sources \in Seq(SourceTexts)
  /\ q.domains \in Seq(FilterEntries) /\ q.handles \in Seq(FilterEntries)
  /\ q.country \in Countries /\ q.raw \in BOOLEAN

Fit(q) == Typed(q) /\ SearchAccepted(q)

\* A text is a name, or not, in both.
Agree(p, q) ==
  /\ NoClash(p.domains, q.domains) /\ NoClash(q.domains, p.domains)
  /\ NoClash(p.handles, q.handles) /\ NoClash(q.handles, p.handles)

LEMMA BodyFit ==
  ASSUME NEW q \in SearchBodies, SearchAccepted(q)
  PROVE  Fit(q)
<1>1. q = Fields(q)
  BY BodyFields
<1>2. /\ q.query \in {"tidy", "spaced", "blank"}
      /\ q.mode \in KnobTexts /\ q.intent \in KnobTexts /\ q.strategy \in KnobTexts
      /\ q.provider \in KnobTexts /\ q.depth \in KnobTexts /\ q.range \in KnobTexts
      /\ q.from \in DateTexts /\ q.sources \in Seq(SourceTexts)
      /\ q.domains \in Seq(FilterEntries) /\ q.handles \in Seq(FilterEntries)
      /\ q.country \in Countries /\ q.raw \in BOOLEAN
  BY SMT DEF SearchBodies
<1> QED BY <1>1, <1>2, KnobIs, Zenon DEF Fit, Typed

\* No closed set holds a word that stands for none.
LEMMA ClosedSets ==
  /\ \A V \in {VALID_MODES, VALID_INTENTS, VALID_STRATEGIES, VALID_PROVIDERS, VALID_DEPTHS} :
       "unset" \notin V /\ "refused" \notin V /\ "any" \notin V
  /\ "auto" \notin VALID_DEPTHS
<1>1. "unset" \notin VALID_MODES /\ "refused" \notin VALID_MODES /\ "any" \notin VALID_MODES
  BY SMT DEF VALID_MODES
<1>2. "unset" \notin VALID_INTENTS /\ "refused" \notin VALID_INTENTS /\ "any" \notin VALID_INTENTS
  BY SMT DEF VALID_INTENTS
<1>3. "unset" \notin VALID_STRATEGIES /\ "refused" \notin VALID_STRATEGIES /\ "any" \notin VALID_STRATEGIES
  BY SMT DEF VALID_STRATEGIES
<1>4. "unset" \notin VALID_PROVIDERS /\ "refused" \notin VALID_PROVIDERS /\ "any" \notin VALID_PROVIDERS
  BY SMT DEF VALID_PROVIDERS
<1>5. "unset" \notin VALID_DEPTHS /\ "refused" \notin VALID_DEPTHS /\ "any" \notin VALID_DEPTHS
      /\ "auto" \notin VALID_DEPTHS
  BY SMT DEF VALID_DEPTHS, DeepModes
<1> QED BY <1>1, <1>2, <1>3, <1>4, <1>5, Zenon

\* What the canonical text of a search holds.
KeyIs(q, k) ==
  /\ k = Fields(k) /\ k.query = "tidy" /\ k.text = q.text
  /\ k.mode = Sense(Wanted(q.mode)) /\ k.intent = Sense(Wanted(q.intent))
  /\ k.strategy = Sense(Wanted(q.strategy)) /\ k.provider = Sense(Wanted(q.provider))
  /\ k.depth = Sense(Wanted(q.depth)) /\ k.range = Sense(Span(q.range))
  /\ k.from = FoldDate(q.from) /\ k.sources = FoldSources(q.sources)
  /\ k.domains = FoldList(q.domains) /\ k.handles = FoldList(q.handles)
  /\ k.content = q.content /\ k.raw = q.raw /\ k.country = q.country
  /\ k.chunks = q.chunks /\ k.schema = q.schema /\ k.rest = q.rest

LEMMA KeyHolds ==
  ASSUME NEW q, Fit(q), NEW k, k = SearchKey(Canonicalize(q))
  PROVE  KeyIs(q, k)
<1> DEFINE c == Canonicalize(q)
<1>1. Typed(q) /\ SearchAccepted(q) /\ q = Fields(q)
  BY Zenon DEF Fit, Typed
<1>2. c = Fields(c)
  BY <1>1, CanonicalIs, Zenon
<1>3. /\ c.text = q.text /\ c.content = q.content /\ c.raw = q.raw /\ c.country = q.country
      /\ c.chunks = q.chunks /\ c.schema = q.schema /\ c.rest = q.rest
  BY <1>1, CanonicalIs, Zenon
<1>4. /\ c.from = FoldDate(q.from) /\ c.sources = FoldSources(q.sources)
      /\ c.domains = FoldList(q.domains) /\ c.handles = FoldList(q.handles)
      /\ c.depth = Settled(q.depth, Depth(q.depth)) /\ c.range = Settled(q.range, TimeRange(q.range))
  BY <1>1, CanonicalIs, Zenon
<1>5. /\ c.mode = Settled(q.mode, Choice(q.mode, VALID_MODES))
      /\ c.intent = Settled(q.intent, Choice(q.intent, VALID_INTENTS))
      /\ c.strategy = Settled(q.strategy, Choice(q.strategy, VALID_STRATEGIES))
      /\ c.provider = Settled(q.provider, Choice(q.provider, VALID_PROVIDERS))
  BY <1>1, CanonicalIs, Zenon
<1>6. c.query = "tidy"
  <2>1. c.query = IF q.query = "spaced" THEN "tidy" ELSE q.query
    BY <1>1, CanonicalIs, Zenon
  <2> QED BY <1>1, <2>1, Zenon DEF Typed, SearchAccepted
<1>7. k = SearchKey(c)
  OBVIOUS
<1> HIDE DEF c
<1>8. k = Fields(k)
  BY <1>2, <1>7, SearchKeyIs, Zenon
<1>9. /\ k.text = c.text /\ k.query = c.query /\ k.depth = c.depth /\ k.range = c.range
      /\ k.from = c.from /\ k.sources = c.sources /\ k.domains = c.domains
      /\ k.handles = c.handles /\ k.content = c.content /\ k.raw = c.raw
      /\ k.country = c.country /\ k.chunks = c.chunks /\ k.schema = c.schema /\ k.rest = c.rest
  BY <1>2, <1>7, SearchKeyIs, Zenon
<1>10. /\ k.mode = AutoNone(c.mode) /\ k.intent = AutoNone(c.intent)
       /\ k.strategy = AutoNone(c.strategy) /\ k.provider = AutoNone(c.provider)
  BY <1>2, <1>7, SearchKeyIs, Zenon
<1>11. k.mode = Sense(Wanted(q.mode))
  <2>1. Knob(q.mode) /\ Choice(q.mode, VALID_MODES) # "refused"
    BY <1>1, Zenon DEF Typed, SearchAccepted
  <2> QED BY <1>5, <1>10, <2>1, ClosedSets, SettledIs, Zenon
<1>12. k.intent = Sense(Wanted(q.intent))
  <2>1. Knob(q.intent) /\ Choice(q.intent, VALID_INTENTS) # "refused"
    BY <1>1, Zenon DEF Typed, SearchAccepted
  <2> QED BY <1>5, <1>10, <2>1, ClosedSets, SettledIs, Zenon
<1>13. k.strategy = Sense(Wanted(q.strategy))
  <2>1. Knob(q.strategy) /\ Choice(q.strategy, VALID_STRATEGIES) # "refused"
    BY <1>1, Zenon DEF Typed, SearchAccepted
  <2> QED BY <1>5, <1>10, <2>1, ClosedSets, SettledIs, Zenon
<1>14. k.provider = Sense(Wanted(q.provider))
  <2>1. Knob(q.provider) /\ Choice(q.provider, VALID_PROVIDERS) # "refused"
    BY <1>1, Zenon DEF Typed, SearchAccepted
  <2> QED BY <1>5, <1>10, <2>1, ClosedSets, SettledIs, Zenon
<1>15. k.depth = Sense(Wanted(q.depth))
  <2>1. Knob(q.depth) /\ Choice(q.depth, VALID_DEPTHS) # "refused"
    BY <1>1, Zenon DEF Typed, SearchAccepted, Depth
  <2>2. c.depth = Settled(q.depth, Choice(q.depth, VALID_DEPTHS))
    BY <1>4, Zenon DEF Depth
  <2>3. Settled(q.depth, Choice(q.depth, VALID_DEPTHS)) = Sense(Wanted(q.depth))
    BY <2>1, ClosedSets, SettledIs, Zenon
  <2> QED BY <1>9, <2>2, <2>3, Zenon
<1>16. k.range = Sense(Span(q.range))
  <2>1. Knob(q.range) /\ TimeRange(q.range) # "refused"
    BY <1>1, Zenon DEF Typed, SearchAccepted
  <2> QED BY <1>4, <1>9, <2>1, RangeIs, Zenon
<1> QED BY <1>3, <1>4, <1>6, <1>8, <1>9, <1>11, <1>12, <1>13, <1>14, <1>15, <1>16, Zenon
   DEF KeyIs

SameMeaning(p, q) ==
  /\ p.text = q.text /\ Span(p.range) = Span(q.range)
  /\ DateMeant(p.from) = DateMeant(q.from) /\ Names(p.domains) = Names(q.domains)
  /\ p.content = q.content /\ p.country = q.country /\ p.schema = q.schema
  /\ p.rest = q.rest
  /\ Wanted(p.mode) = Wanted(q.mode) /\ Wanted(p.intent) = Wanted(q.intent)
  /\ Wanted(p.strategy) = Wanted(q.strategy)
  /\ Wanted(p.provider) = Wanted(q.provider) /\ Wanted(p.depth) = Wanted(q.depth)
  /\ Names(p.handles) = Names(q.handles) /\ p.raw = q.raw /\ p.chunks = q.chunks
  /\ SourcesMeant(p.sources) = SourcesMeant(q.sources)

LEMMA MeaningTells ==
  ASSUME NEW p, NEW q
  PROVE  SearchMeaning(p) = SearchMeaning(q) <=> SameMeaning(p, q)
<1> DEFINE C(b) ==
      [text |-> b.text, range |-> Span(b.range), from |-> DateMeant(b.from),
       domains |-> Names(b.domains), content |-> b.content, country |-> b.country,
       schema |-> b.schema, rest |-> b.rest]
<1>1. \A b : Common(b) = C(b)
  BY Zenon DEF Common, Span, DateMeant
<1>2. C(p) = C(q) <=> /\ p.text = q.text /\ Span(p.range) = Span(q.range)
           /\ DateMeant(p.from) = DateMeant(q.from) /\ Names(p.domains) = Names(q.domains)
           /\ p.content = q.content /\ p.country = q.country /\ p.schema = q.schema
           /\ p.rest = q.rest
  BY SMT
<1> HIDE DEF C
<1>3. \A b : SearchMeaning(b) =
        <<C(b), Wanted(b.mode), Wanted(b.intent), Wanted(b.strategy), Wanted(b.provider),
          Wanted(b.depth), Names(b.handles), b.raw, b.chunks, SourcesMeant(b.sources)>>
  BY <1>1, Zenon DEF SearchMeaning, SourcesMeant, AnySaid
<1>4. SearchMeaning(p) = SearchMeaning(q) <=>
           /\ C(p) = C(q)
           /\ Wanted(p.mode) = Wanted(q.mode) /\ Wanted(p.intent) = Wanted(q.intent)
           /\ Wanted(p.strategy) = Wanted(q.strategy)
           /\ Wanted(p.provider) = Wanted(q.provider) /\ Wanted(p.depth) = Wanted(q.depth)
           /\ Names(p.handles) = Names(q.handles) /\ p.raw = q.raw /\ p.chunks = q.chunks
           /\ SourcesMeant(p.sources) = SourcesMeant(q.sources)
  BY <1>3
<1> QED BY <1>2, <1>4, Zenon DEF SameMeaning

\* Two searches have one row if and only if they mean the same.
LEMMA SearchKeysTell ==
  ASSUME NEW p, Fit(p), NEW q, Fit(q), Agree(p, q)
  PROVE  SearchKey(Canonicalize(p)) = SearchKey(Canonicalize(q))
           <=> SearchMeaning(p) = SearchMeaning(q)
<1> DEFINE k == SearchKey(Canonicalize(p))
           l == SearchKey(Canonicalize(q))
<1>1. KeyIs(p, k) /\ KeyIs(q, l)
  BY KeyHolds, Zenon
<1> HIDE DEF k, l
<1>2. /\ k.text = l.text <=> p.text = q.text
      /\ k.content = l.content <=> p.content = q.content
      /\ k.raw = l.raw <=> p.raw = q.raw
      /\ k.country = l.country <=> p.country = q.country
      /\ k.chunks = l.chunks <=> p.chunks = q.chunks
      /\ k.schema = l.schema <=> p.schema = q.schema
      /\ k.rest = l.rest <=> p.rest = q.rest
  BY <1>1, Zenon DEF KeyIs
<1>3. k.mode = l.mode <=> Wanted(p.mode) = Wanted(q.mode)
  <2>1. Sense(Wanted(p.mode)) = Sense(Wanted(q.mode)) <=> Wanted(p.mode) = Wanted(q.mode)
    BY SenseTells
  <2> QED BY <1>1, <2>1, Zenon DEF KeyIs
<1>4. k.intent = l.intent <=> Wanted(p.intent) = Wanted(q.intent)
  <2>1. Sense(Wanted(p.intent)) = Sense(Wanted(q.intent)) <=> Wanted(p.intent) = Wanted(q.intent)
    BY SenseTells
  <2> QED BY <1>1, <2>1, Zenon DEF KeyIs
<1>5. k.strategy = l.strategy <=> Wanted(p.strategy) = Wanted(q.strategy)
  <2>1. Sense(Wanted(p.strategy)) = Sense(Wanted(q.strategy)) <=> Wanted(p.strategy) = Wanted(q.strategy)
    BY SenseTells
  <2> QED BY <1>1, <2>1, Zenon DEF KeyIs
<1>6. k.provider = l.provider <=> Wanted(p.provider) = Wanted(q.provider)
  <2>1. Sense(Wanted(p.provider)) = Sense(Wanted(q.provider)) <=> Wanted(p.provider) = Wanted(q.provider)
    BY SenseTells
  <2> QED BY <1>1, <2>1, Zenon DEF KeyIs
<1>7. k.depth = l.depth <=> Wanted(p.depth) = Wanted(q.depth)
  <2>1. Sense(Wanted(p.depth)) = Sense(Wanted(q.depth)) <=> Wanted(p.depth) = Wanted(q.depth)
    BY SenseTells
  <2> QED BY <1>1, <2>1, Zenon DEF KeyIs
<1>8. k.range = l.range <=> Span(p.range) = Span(q.range)
  <2>1. Sense(Span(p.range)) = Sense(Span(q.range)) <=> Span(p.range) = Span(q.range)
    BY SenseTells
  <2> QED BY <1>1, <2>1, Zenon DEF KeyIs
<1>9. k.from = l.from <=> DateMeant(p.from) = DateMeant(q.from)
  <2>1. Day(p.from) /\ Day(q.from)
    BY Zenon DEF Fit, Typed
  <2> QED BY <1>1, <2>1, DatesTell, Zenon DEF KeyIs
<1>10. k.sources = l.sources <=> SourcesMeant(p.sources) = SourcesMeant(q.sources)
  <2>1. /\ p.sources \in Seq(SourceTexts) /\ q.sources \in Seq(SourceTexts)
        /\ ~SourceRefused(p.sources) /\ ~SourceRefused(q.sources)
    BY Zenon DEF Fit, Typed, SearchAccepted
  <2> QED BY <1>1, <2>1, SourcesTell, Zenon DEF KeyIs
<1>11. k.domains = l.domains <=> Names(p.domains) = Names(q.domains)
  <2>1. p.domains \in Seq(FilterEntries) /\ q.domains \in Seq(FilterEntries)
    BY Zenon DEF Fit, Typed
  <2> QED BY <1>1, <2>1, NamesTell, Zenon DEF Agree, KeyIs
<1>12. k.handles = l.handles <=> Names(p.handles) = Names(q.handles)
  <2>1. p.handles \in Seq(FilterEntries) /\ q.handles \in Seq(FilterEntries)
    BY Zenon DEF Fit, Typed
  <2> QED BY <1>1, <2>1, NamesTell, Zenon DEF Agree, KeyIs
<1>13. SameFields(k, l) <=> SameMeaning(p, q)
  <2>1. k.query = l.query
    BY <1>1, Zenon DEF KeyIs
  <2> QED BY <2>1, <1>2, <1>3, <1>4, <1>5, <1>6, <1>7, <1>8, <1>9, <1>10, <1>11, <1>12, Zenon
          DEF SameFields, SameMeaning
<1>14. k = l <=> SameFields(k, l)
  BY <1>1, FieldsTell, Zenon DEF KeyIs
<1>15. SearchMeaning(p) = SearchMeaning(q) <=> SameMeaning(p, q)
  BY MeaningTells
<1> QED BY <1>13, <1>14, <1>15, Zenon DEF k, l

-----------------------------------------------------------------------------
(* Researches that were let in.                                             *)

Slots(r) ==
  [text |-> r.text, query |-> r.query, deep |-> r.deep,
   backend |-> r.backend, format |-> r.format, range |-> r.range,
   from |-> r.from, domains |-> r.domains, handles |-> r.handles,
   content |-> r.content, country |-> r.country, social |-> r.social,
   schema |-> r.schema, rest |-> r.rest]

SameSlots(p, q) ==
  /\ p.text = q.text /\ p.query = q.query /\ p.deep = q.deep
  /\ p.backend = q.backend /\ p.format = q.format /\ p.range = q.range
  /\ p.from = q.from /\ p.domains = q.domains /\ p.handles = q.handles
  /\ p.content = q.content /\ p.country = q.country /\ p.social = q.social
  /\ p.schema = q.schema /\ p.rest = q.rest

LEMMA SlotsTell ==
  ASSUME NEW p, NEW q, p = Slots(p), q = Slots(q)
  PROVE  p = q <=> SameSlots(p, q)
BY SMT DEF Slots, SameSlots

LEMMA ResearchFields ==
  ASSUME NEW r, r = Slots(r)
  PROVE  CanonicalizeResearch(r) = Slots(CanonicalizeResearch(r))
<1> DEFINE k0 == r
           k1 == [k0 EXCEPT !.query = IF r.query = "spaced" THEN "tidy" ELSE r.query]
           k2 == [k1 EXCEPT !.range = Settled(r.range, TimeRange(r.range))]
           k3 == [k2 EXCEPT !.from = FoldDate(r.from)]
           k4 == [k3 EXCEPT !.domains = FoldList(r.domains)]
           k5 == [k4 EXCEPT !.handles = FoldList(r.handles)]
           k6 == [k5 EXCEPT !.backend = FoldLocally(r.backend)]
           k7 == [k6 EXCEPT !.format = FoldLocally(r.format)]
<1>0. CanonicalizeResearch(r) = k7
  BY Zenon DEF CanonicalizeResearch
<1>1. k0 = Slots(k0)
  OBVIOUS
<1> HIDE DEF k0, k1, k2, k3, k4, k5, k6, k7
<1>2. k1 = Slots(k1)
  BY <1>1, SMT DEF Slots, k1
<1>3. k2 = Slots(k2)
  BY <1>2, SMT DEF Slots, k2
<1>4. k3 = Slots(k3)
  BY <1>3, SMT DEF Slots, k3
<1>5. k4 = Slots(k4)
  BY <1>4, SMT DEF Slots, k4
<1>6. k5 = Slots(k5)
  BY <1>5, SMT DEF Slots, k5
<1>7. k6 = Slots(k6)
  BY <1>6, SMT DEF Slots, k6
<1>8. k7 = Slots(k7)
  BY <1>7, SMT DEF Slots, k7
<1> QED BY <1>0, <1>8, Zenon

\* What the canonical form of r holds.
FoldedIs(r, k) ==
  /\ k = Slots(k)
  /\ k.text = r.text
  /\ k.query = (IF r.query = "spaced" THEN "tidy" ELSE r.query)
  /\ k.deep = r.deep
  /\ k.backend = FoldLocally(r.backend)
  /\ k.format = FoldLocally(r.format)
  /\ k.range = Settled(r.range, TimeRange(r.range))
  /\ k.from = FoldDate(r.from)
  /\ k.domains = FoldList(r.domains)
  /\ k.handles = FoldList(r.handles)
  /\ k.content = r.content
  /\ k.country = r.country
  /\ k.social = r.social
  /\ k.schema = r.schema
  /\ k.rest = r.rest

LEMMA FoldedHolds ==
  ASSUME NEW r, r = Slots(r), NEW k, k = CanonicalizeResearch(r)
  PROVE  FoldedIs(r, k)
<1>1. k = Slots(k)
  BY ResearchFields, Zenon
<1>2. /\ k.text = r.text
      /\ k.deep = r.deep
      /\ k.content = r.content
      /\ k.country = r.country
      /\ k.social = r.social
      /\ k.schema = r.schema
      /\ k.rest = r.rest
  BY SMT DEF Slots, CanonicalizeResearch
<1>3. /\ k.query = (IF r.query = "spaced" THEN "tidy" ELSE r.query)
      /\ k.backend = FoldLocally(r.backend)
      /\ k.format = FoldLocally(r.format)
  BY SMT DEF Slots, CanonicalizeResearch
<1>4. /\ k.range = Settled(r.range, TimeRange(r.range))
      /\ k.from = FoldDate(r.from)
      /\ k.domains = FoldList(r.domains)
      /\ k.handles = FoldList(r.handles)
  BY SMT DEF Slots, CanonicalizeResearch
<1> QED BY <1>1, <1>2, <1>3, <1>4, Zenon DEF FoldedIs

TypedResearch(r) ==
  /\ r = Slots(r)
  /\ r.query \in {"tidy", "spaced", "blank"}
  /\ Knob(r.backend) /\ Knob(r.format) /\ Knob(r.range) /\ Day(r.from)
  /\ r.domains \in Seq(FilterEntries) /\ r.handles \in Seq(FilterEntries)
  /\ r.country \in Countries

FitResearch(r) == TypedResearch(r) /\ ResearchAccepted(r)

LEMMA ResearchFit ==
  ASSUME NEW r \in ResearchBodies, ResearchAccepted(r)
  PROVE  FitResearch(r)
<1>1. r = Slots(r)
  BY SMT DEF Slots, ResearchBodies
<1>2. /\ r.query \in {"tidy", "spaced", "blank"}
      /\ r.backend \in KnobTexts /\ r.format \in KnobTexts /\ r.range \in KnobTexts
      /\ r.from \in DateTexts
      /\ r.domains \in Seq(FilterEntries) /\ r.handles \in Seq(FilterEntries)
      /\ r.country \in Countries
  BY SMT DEF ResearchBodies
<1> QED BY <1>1, <1>2, KnobIs, Zenon DEF FitResearch, TypedResearch

ResearchMeaning(b) ==
  <<"research", Common(b), Names(b.handles), b.social, OwnKnob(b.backend), OwnKnob(b.format)>>

SameResearchMeaning(p, q) ==
  /\ p.text = q.text /\ Span(p.range) = Span(q.range)
  /\ DateMeant(p.from) = DateMeant(q.from) /\ Names(p.domains) = Names(q.domains)
  /\ p.content = q.content /\ p.country = q.country /\ p.schema = q.schema
  /\ p.rest = q.rest
  /\ Names(p.handles) = Names(q.handles) /\ p.social = q.social
  /\ OwnKnob(p.backend) = OwnKnob(q.backend) /\ OwnKnob(p.format) = OwnKnob(q.format)

LEMMA ResearchMeaningTells ==
  ASSUME NEW p, NEW q
  PROVE  ResearchMeaning(p) = ResearchMeaning(q) <=> SameResearchMeaning(p, q)
<1> DEFINE C(b) ==
      [text |-> b.text, range |-> Span(b.range), from |-> DateMeant(b.from),
       domains |-> Names(b.domains), content |-> b.content, country |-> b.country,
       schema |-> b.schema, rest |-> b.rest]
<1>1. \A b : Common(b) = C(b)
  BY Zenon DEF Common, Span, DateMeant
<1>2. C(p) = C(q) <=> /\ p.text = q.text /\ Span(p.range) = Span(q.range)
           /\ DateMeant(p.from) = DateMeant(q.from) /\ Names(p.domains) = Names(q.domains)
           /\ p.content = q.content /\ p.country = q.country /\ p.schema = q.schema
           /\ p.rest = q.rest
  BY SMT
<1> HIDE DEF C
<1>3. \A b : ResearchMeaning(b) =
        <<"research", C(b), Names(b.handles), b.social, OwnKnob(b.backend), OwnKnob(b.format)>>
  BY <1>1, Zenon DEF ResearchMeaning
<1>4. ResearchMeaning(p) = ResearchMeaning(q) <=>
           /\ C(p) = C(q)
           /\ Names(p.handles) = Names(q.handles) /\ p.social = q.social
           /\ OwnKnob(p.backend) = OwnKnob(q.backend) /\ OwnKnob(p.format) = OwnKnob(q.format)
  BY <1>3
<1> QED BY <1>2, <1>4, Zenon DEF SameResearchMeaning

LEMMA OwnWords ==
  /\ "auto" \notin VALID_BACKENDS /\ "any" \notin VALID_BACKENDS
  /\ "auto" \notin VALID_FORMATS /\ "any" \notin VALID_FORMATS
  /\ "auto" # "" /\ "any" # ""
BY SMT DEF VALID_BACKENDS, VALID_FORMATS

LEMMA OwnWord ==
  ASSUME NEW raw, Knob(raw), NEW V, "auto" \notin V, "any" \notin V, Choice(raw, V) # "refused"
  PROVE  raw.word \notin {"auto", "any"}
<1>1. CASE Said(raw)
  BY <1>1, Zenon DEF Choice
<1>2. CASE ~Said(raw)
  BY <1>2, KnobIs, OwnWords, Zenon
<1> QED BY <1>1, <1>2

\* Two researches of one kind have one row if and only if they mean the same.
LEMMA ResearchKeysTell ==
  ASSUME NEW p, FitResearch(p), NEW q, FitResearch(q), Agree(p, q), p.deep = q.deep
  PROVE  CanonicalizeResearch(p) = CanonicalizeResearch(q)
           <=> ResearchMeaning(p) = ResearchMeaning(q)
<1> DEFINE k == CanonicalizeResearch(p)
           l == CanonicalizeResearch(q)
<1>1. TypedResearch(p) /\ ResearchAccepted(p) /\ TypedResearch(q) /\ ResearchAccepted(q)
  BY Zenon DEF FitResearch
<1>2. FoldedIs(p, k) /\ FoldedIs(q, l)
  BY <1>1, FoldedHolds, Zenon DEF TypedResearch
<1> HIDE DEF k, l
<1>3. k.query = l.query
  BY <1>1, <1>2, Zenon DEF FoldedIs, TypedResearch, ResearchAccepted
<1>4. /\ k.text = l.text <=> p.text = q.text
      /\ k.deep = l.deep
      /\ k.content = l.content <=> p.content = q.content
      /\ k.country = l.country <=> p.country = q.country
      /\ k.social = l.social <=> p.social = q.social
      /\ k.schema = l.schema <=> p.schema = q.schema
      /\ k.rest = l.rest <=> p.rest = q.rest
  BY <1>2, Zenon DEF FoldedIs
<1>5. k.range = l.range <=> Span(p.range) = Span(q.range)
  <2>1. k.range = Sense(Span(p.range)) /\ l.range = Sense(Span(q.range))
    BY <1>1, <1>2, RangeIs, Zenon DEF FoldedIs, TypedResearch, ResearchAccepted
  <2>2. Sense(Span(p.range)) = Sense(Span(q.range)) <=> Span(p.range) = Span(q.range)
    BY SenseTells
  <2> QED BY <2>1, <2>2, Zenon
<1>6. k.from = l.from <=> DateMeant(p.from) = DateMeant(q.from)
  <2>1. Day(p.from) /\ Day(q.from)
    BY <1>1, Zenon DEF TypedResearch
  <2> QED BY <1>2, <2>1, DatesTell, Zenon DEF FoldedIs
<1>7. k.domains = l.domains <=> Names(p.domains) = Names(q.domains)
  <2>1. p.domains \in Seq(FilterEntries) /\ q.domains \in Seq(FilterEntries)
    BY <1>1, Zenon DEF TypedResearch
  <2> QED BY <1>2, <2>1, NamesTell, Zenon DEF Agree, FoldedIs
<1>8. k.handles = l.handles <=> Names(p.handles) = Names(q.handles)
  <2>1. p.handles \in Seq(FilterEntries) /\ q.handles \in Seq(FilterEntries)
    BY <1>1, Zenon DEF TypedResearch
  <2> QED BY <1>2, <2>1, NamesTell, Zenon DEF Agree, FoldedIs
<1>9. k.backend = l.backend <=> OwnKnob(p.backend) = OwnKnob(q.backend)
  <2>1. Knob(p.backend) /\ Knob(q.backend)
        /\ p.backend.word \notin {"auto", "any"} /\ q.backend.word \notin {"auto", "any"}
    BY <1>1, OwnWords, OwnWord, Zenon DEF TypedResearch, ResearchAccepted
  <2>2. FoldLocally(p.backend) = FoldLocally(q.backend) <=> OwnKnob(p.backend) = OwnKnob(q.backend)
    BY <2>1, OwnKnobsTell, Zenon
  <2> QED BY <1>2, <2>2, Zenon DEF FoldedIs
<1>10. k.format = l.format <=> OwnKnob(p.format) = OwnKnob(q.format)
  <2>1. Knob(p.format) /\ Knob(q.format)
        /\ p.format.word \notin {"auto", "any"} /\ q.format.word \notin {"auto", "any"}
    BY <1>1, OwnWords, OwnWord, Zenon DEF TypedResearch, ResearchAccepted
  <2>2. FoldLocally(p.format) = FoldLocally(q.format) <=> OwnKnob(p.format) = OwnKnob(q.format)
    BY <2>1, OwnKnobsTell, Zenon
  <2> QED BY <1>2, <2>2, Zenon DEF FoldedIs
<1>11. SameSlots(k, l) <=> SameResearchMeaning(p, q)
  BY <1>3, <1>4, <1>5, <1>6, <1>7, <1>8, <1>9, <1>10, Zenon DEF SameSlots, SameResearchMeaning
<1>12. k = l <=> SameSlots(k, l)
  BY <1>2, SlotsTell, Zenon DEF FoldedIs
<1>13. ResearchMeaning(p) = ResearchMeaning(q) <=> SameResearchMeaning(p, q)
  BY ResearchMeaningTells
<1> QED BY <1>11, <1>12, <1>13, Zenon DEF k, l

-----------------------------------------------------------------------------
(* The web leg.                                                             *)

WebIs(r, w) ==
  /\ w = Fields(w)
  /\ w.text = r.text /\ w.query = r.query /\ w.range = r.range /\ w.from = r.from
  /\ w.domains = r.domains /\ w.country = r.country /\ w.rest = r.rest
  /\ w.content = (IF r.deep \/ r.content = "unset" THEN "no" ELSE r.content)
  /\ w.mode = Absent /\ w.intent = Absent /\ w.strategy = Absent /\ w.provider = Absent
  /\ w.depth = Absent /\ w.sources = <<>> /\ w.handles = <<>>
  /\ w.raw = FALSE /\ w.chunks = "unset" /\ w.schema = FALSE

LEMMA WebHolds == ASSUME NEW r PROVE WebIs(r, WebLeg(r))
<1>1. WebLeg(r) = Fields(WebLeg(r))
  BY WebLegFields
<1> DEFINE w == WebLeg(r)
<1>2. /\ w.text = r.text /\ w.query = r.query /\ w.range = r.range /\ w.from = r.from
      /\ w.domains = r.domains /\ w.country = r.country /\ w.rest = r.rest
  BY SMT DEF WebLeg, Plain
<1>3. w.content = (IF r.deep \/ r.content = "unset" THEN "no" ELSE r.content)
  BY SMT DEF WebLeg, Plain
<1>4. /\ w.mode = Absent /\ w.intent = Absent /\ w.strategy = Absent /\ w.provider = Absent
      /\ w.depth = Absent
  BY SMT DEF WebLeg, Plain
<1>5. /\ w.sources = <<>> /\ w.handles = <<>>
      /\ w.raw = FALSE /\ w.chunks = "unset" /\ w.schema = FALSE
  BY SMT DEF WebLeg, Plain
<1> QED BY <1>1, <1>2, <1>3, <1>4, <1>5, Zenon DEF WebIs

\* The web leg of a research that was let in is a search that would be.
LEMMA WebFit ==
  ASSUME NEW r, FitResearch(r)
  PROVE  Fit(WebLeg(r))
<1> DEFINE w == WebLeg(r)
<1>1. WebIs(r, w)
  BY WebHolds
<1>2. TypedResearch(r) /\ ResearchAccepted(r)
  BY Zenon DEF FitResearch
<1> HIDE DEF w
<1>3. Knob(Absent) /\ ~Said(Absent)
  <2>1. Absent.how = "absent"
    BY DEF Absent
  <2> QED BY <2>1, KnobIs, Zenon DEF Said
<1>4. \A V : Choice(Absent, V) = "unset"
  BY <1>3, Zenon DEF Choice
<1>5. "unset" # "refused"
  OBVIOUS
<1>6. <<>> \in Seq(SourceTexts) /\ <<>> \in Seq(FilterEntries) /\ DOMAIN <<>> = {}
  OBVIOUS
<1>7. ~SourceRefused(<<>>)
  BY <1>6, Zenon DEF SourceRefused
<1>8. Typed(w)
  BY <1>1, <1>2, <1>3, <1>6, Zenon DEF Typed, WebIs, TypedResearch
<1>9. SearchAccepted(w)
  BY <1>1, <1>2, <1>4, <1>5, <1>7, Zenon DEF SearchAccepted, WebIs, ResearchAccepted, Depth
<1> QED BY <1>8, <1>9, Zenon DEF Fit, w

\* It is the same search whether it is taken from the body or its canonical form.
LEMMA WebOfCanonical ==
  ASSUME NEW r, FitResearch(r)
  PROVE  Canonicalize(WebLeg(CanonicalizeResearch(r))) = Canonicalize(WebLeg(r))
<1> DEFINE c == CanonicalizeResearch(r)
           u == WebLeg(c)
           v == WebLeg(r)
           k == Canonicalize(u)
           l == Canonicalize(v)
<1>1. TypedResearch(r) /\ ResearchAccepted(r)
  BY Zenon DEF FitResearch
<1>2. FoldedIs(r, c)
  BY <1>1, FoldedHolds, Zenon DEF TypedResearch
<1>3. WebIs(c, u) /\ WebIs(r, v)
  BY WebHolds, Zenon
<1> HIDE DEF c, u, v
<1>4. u = Fields(u) /\ v = Fields(v)
  BY <1>3, Zenon DEF WebIs
<1>5. k = Fields(k) /\ l = Fields(l)
  BY <1>4, CanonicalIs, Zenon
<1>6. /\ k.text = l.text /\ k.content = l.content /\ k.raw = l.raw /\ k.country = l.country
      /\ k.chunks = l.chunks /\ k.schema = l.schema /\ k.rest = l.rest
  <2>1. /\ u.text = v.text /\ u.content = v.content /\ u.raw = v.raw /\ u.country = v.country
        /\ u.chunks = v.chunks /\ u.schema = v.schema /\ u.rest = v.rest
    BY <1>2, <1>3, Zenon DEF WebIs, FoldedIs
  <2>2. /\ k.text = u.text /\ k.content = u.content /\ k.raw = u.raw /\ k.country = u.country
        /\ k.chunks = u.chunks /\ k.schema = u.schema /\ k.rest = u.rest
    BY <1>4, CanonicalIs, Zenon
  <2>3. /\ l.text = v.text /\ l.content = v.content /\ l.raw = v.raw /\ l.country = v.country
        /\ l.chunks = v.chunks /\ l.schema = v.schema /\ l.rest = v.rest
    BY <1>4, CanonicalIs, Zenon
  <2> QED BY <2>1, <2>2, <2>3, Zenon
<1>7. k.query = l.query
  <2>1. k.query = (IF u.query = "spaced" THEN "tidy" ELSE u.query)
    BY <1>4, CanonicalIs, Zenon
  <2>2. l.query = (IF v.query = "spaced" THEN "tidy" ELSE v.query)
    BY <1>4, CanonicalIs, Zenon
  <2>3. u.query = (IF r.query = "spaced" THEN "tidy" ELSE r.query) /\ v.query = r.query
    BY <1>2, <1>3, Zenon DEF WebIs, FoldedIs
  <2>4. "tidy" # "spaced"
    OBVIOUS
  <2> QED BY <2>1, <2>2, <2>3, <2>4, Zenon
<1>8. /\ k.mode = l.mode /\ k.intent = l.intent /\ k.strategy = l.strategy
      /\ k.provider = l.provider /\ k.depth = l.depth
  <2>1. /\ u.mode = v.mode /\ u.intent = v.intent /\ u.strategy = v.strategy
        /\ u.provider = v.provider /\ u.depth = v.depth
    BY <1>3, Zenon DEF WebIs
  <2>2. /\ k.mode = Settled(u.mode, Choice(u.mode, VALID_MODES))
        /\ k.intent = Settled(u.intent, Choice(u.intent, VALID_INTENTS))
        /\ k.strategy = Settled(u.strategy, Choice(u.strategy, VALID_STRATEGIES))
        /\ k.provider = Settled(u.provider, Choice(u.provider, VALID_PROVIDERS))
        /\ k.depth = Settled(u.depth, Depth(u.depth))
    BY <1>4, CanonicalIs, Zenon
  <2>3. /\ l.mode = Settled(v.mode, Choice(v.mode, VALID_MODES))
        /\ l.intent = Settled(v.intent, Choice(v.intent, VALID_INTENTS))
        /\ l.strategy = Settled(v.strategy, Choice(v.strategy, VALID_STRATEGIES))
        /\ l.provider = Settled(v.provider, Choice(v.provider, VALID_PROVIDERS))
        /\ l.depth = Settled(v.depth, Depth(v.depth))
    BY <1>4, CanonicalIs, Zenon
  <2> QED BY <2>1, <2>2, <2>3, Zenon
<1>9. k.sources = l.sources /\ k.handles = l.handles
  <2>1. u.sources = v.sources /\ u.handles = v.handles
    BY <1>3, Zenon DEF WebIs
  <2>2. k.sources = FoldSources(u.sources) /\ k.handles = FoldList(u.handles)
    BY <1>4, CanonicalIs, Zenon
  <2>3. l.sources = FoldSources(v.sources) /\ l.handles = FoldList(v.handles)
    BY <1>4, CanonicalIs, Zenon
  <2> QED BY <2>1, <2>2, <2>3, Zenon
<1>10. k.range = l.range
  <2> DEFINE s == Settled(r.range, TimeRange(r.range))
  <2>1. u.range = s /\ v.range = r.range
    BY <1>2, <1>3, Zenon DEF WebIs, FoldedIs
  <2>2. k.range = Settled(u.range, TimeRange(u.range)) /\ l.range = Settled(v.range, TimeRange(v.range))
    BY <1>4, CanonicalIs, Zenon
  <2>3. Settled(s, TimeRange(s)) = s
    BY <1>1, RangeTwice, Zenon DEF TypedResearch, ResearchAccepted
  <2> QED BY <2>1, <2>2, <2>3, Zenon
<1>11. k.from = l.from
  <2>1. u.from = FoldDate(r.from) /\ v.from = r.from
    BY <1>2, <1>3, Zenon DEF WebIs, FoldedIs
  <2>2. k.from = FoldDate(u.from) /\ l.from = FoldDate(v.from)
    BY <1>4, CanonicalIs, Zenon
  <2>3. FoldDate(FoldDate(r.from)) = FoldDate(r.from)
    BY <1>1, DateIs, Zenon DEF TypedResearch
  <2> QED BY <2>1, <2>2, <2>3, Zenon
<1>12. k.domains = l.domains
  <2>1. u.domains = FoldList(r.domains) /\ v.domains = r.domains
    BY <1>2, <1>3, Zenon DEF WebIs, FoldedIs
  <2>2. k.domains = FoldList(u.domains) /\ l.domains = FoldList(v.domains)
    BY <1>4, CanonicalIs, Zenon
  <2>3. FoldList(FoldList(r.domains)) = FoldList(r.domains)
    BY <1>1, FoldListTwice, Zenon DEF TypedResearch
  <2> QED BY <2>1, <2>2, <2>3, Zenon
<1> HIDE DEF k, l
<1>13. SameFields(k, l)
  BY <1>6, <1>7, <1>8, <1>9, <1>10, <1>11, <1>12, Zenon DEF SameFields
<1> QED BY <1>5, <1>13, FieldsTell, Zenon DEF k, l, c, u, v

-----------------------------------------------------------------------------
(* Asks of requests that were let in.                                       *)

BodyIn(i) == IF IsResearch(i) THEN ResearchAccepted(Body(i)) ELSE SearchAccepted(Body(i))

LetIn(ask) ==
  /\ ask \in Asks
  /\ BodyIn(ask.of)
  /\ ask.surface = "research" => ~Body(ask.of).deep

\* The search a search or a web leg stands for.
Sought(ask) == IF ask.surface = "search" THEN Body(ask.of) ELSE WebLeg(Body(ask.of))

LEMMA AskIs ==
  ASSUME NEW ask \in Asks
  PROVE  /\ ask.of \in DOMAIN Requests
         /\ ask.surface \in {"search", "web", "research"}
         /\ ask.surface = "search" <=> ~IsResearch(ask.of)
<1> DEFINE S(i) == IF IsResearch(i) THEN {"research", "web"} ELSE {"search"}
           A(i) == {[surface |-> s, of |-> i] : s \in S(i)}
<1>1. Asks = UNION {A(i) : i \in DOMAIN Requests}
  BY Zenon DEF Asks
<1> HIDE DEF A
<1>2. PICK i \in DOMAIN Requests : ask \in A(i)
  BY <1>1
<1>3. PICK s \in S(i) : ask = [surface |-> s, of |-> i]
  BY <1>2, Zenon DEF A
<1>4. ask.surface = s /\ ask.of = i
  BY <1>3
<1>5. CASE IsResearch(i)
  BY <1>3, <1>4, <1>5
<1>6. CASE ~IsResearch(i)
  BY <1>3, <1>4, <1>6
<1> QED BY <1>5, <1>6

LEMMA BodiesFit ==
  ASSUME NEW i \in DOMAIN Requests, BodyIn(i)
  PROVE  /\ IsResearch(i) => FitResearch(Body(i))
         /\ ~IsResearch(i) => Fit(Body(i))
<1>1. Body(i) \in IF IsResearch(i) THEN ResearchBodies ELSE SearchBodies
  BY CacheAssumption, Zenon DEF Body, IsResearch
<1> QED BY <1>1, BodyFit, ResearchFit, Zenon DEF BodyIn

LEMMA SoughtFit ==
  ASSUME NEW ask, LetIn(ask), ask.surface # "research"
  PROVE  /\ Fit(Sought(ask)) /\ ask \in DOMAIN Query
         /\ Query[ask] = Canonicalize(Sought(ask))
         /\ Sought(ask).domains = Body(ask.of).domains
         /\ Sought(ask).handles \in {Body(ask.of).handles, <<>>}
<1>1. /\ ask \in Asks /\ ask.of \in DOMAIN Requests /\ BodyIn(ask.of)
      /\ ask.surface = "search" <=> ~IsResearch(ask.of)
  BY AskIs, Zenon DEF LetIn
<1>2. DOMAIN Query = {a \in Asks : a.surface # "research"}
  BY Zenon DEF Query
<1>3. ask \in DOMAIN Query
  BY <1>1, <1>2
<1>4. Query[ask] = IF ask.surface = "search" THEN Canonicalize(Body(ask.of))
                   ELSE Canonicalize(WebLeg(CanonicalizeResearch(Body(ask.of))))
  BY <1>2, <1>3, Zenon DEF Query
<1>5. CASE ask.surface = "search"
  BY <1>1, <1>3, <1>4, <1>5, BodiesFit, Zenon DEF Sought
<1>6. CASE ask.surface # "search"
  <2>1. FitResearch(Body(ask.of))
    BY <1>1, <1>6, BodiesFit, Zenon
  <2>2. Sought(ask) = WebLeg(Body(ask.of))
    BY <1>6, Zenon DEF Sought
  <2>3. Fit(Sought(ask))
    BY <2>1, <2>2, WebFit, Zenon
  <2>4. Query[ask] = Canonicalize(Sought(ask))
    BY <1>4, <1>6, <2>1, <2>2, WebOfCanonical, Zenon
  <2>5. Sought(ask).domains = Body(ask.of).domains /\ Sought(ask).handles = <<>>
    BY <2>2, WebHolds, Zenon DEF WebIs
  <2> QED BY <1>3, <2>3, <2>4, <2>5, Zenon
<1> QED BY <1>5, <1>6

LEMMA NoneClash == \A es : NoClash(es, <<>>) /\ NoClash(<<>>, es)
<1>1. DOMAIN <<>> = {}
  OBVIOUS
<1> QED BY <1>1, Zenon DEF NoClash

LEMMA SoughtAgree ==
  ASSUME NEW a, LetIn(a), a.surface # "research", NEW b, LetIn(b), b.surface # "research"
  PROVE  Agree(Sought(a), Sought(b))
<1>1. a.of \in DOMAIN Requests /\ b.of \in DOMAIN Requests
  BY AskIs, Zenon DEF LetIn
<1>2. /\ NoClash(Body(a.of).domains, Body(b.of).domains)
      /\ NoClash(Body(b.of).domains, Body(a.of).domains)
      /\ NoClash(Body(a.of).handles, Body(b.of).handles)
      /\ NoClash(Body(b.of).handles, Body(a.of).handles)
  BY <1>1, NamesAssumption, Zenon DEF Body
<1>3. Sought(a).domains = Body(a.of).domains /\ Sought(b).domains = Body(b.of).domains
  BY SoughtFit, Zenon
<1>4. Sought(a).handles = Body(a.of).handles \/ Sought(a).handles = <<>>
  BY SoughtFit, Zenon
<1>5. Sought(b).handles = Body(b.of).handles \/ Sought(b).handles = <<>>
  BY SoughtFit, Zenon
<1> QED BY <1>2, <1>3, <1>4, <1>5, NoneClash, Zenon DEF Agree

\* Asks of requests that were let in have one key if and only if they mean the
\* same.
LEMMA KeysTell ==
  ASSUME NEW a, LetIn(a), NEW b, LetIn(b)
  PROVE  KeyOf[a] = KeyOf[b] <=> Meaning[a] = Meaning[b]
<1> DEFINE R(x) == CanonicalizeResearch(Body(x.of))
           Q(x) == SearchKey(Canonicalize(Sought(x)))
<1>1. a \in Asks /\ b \in Asks
  BY Zenon DEF LetIn
<1>2. ASSUME NEW x, LetIn(x), x.surface = "research"
      PROVE  /\ KeyOf[x] = <<"research", R(x)>> /\ Meaning[x] = ResearchMeaning(Body(x.of))
             /\ FitResearch(Body(x.of)) /\ ~Body(x.of).deep /\ x.of \in DOMAIN Requests
  <2>1. /\ x \in Asks /\ x.of \in DOMAIN Requests /\ BodyIn(x.of) /\ ~Body(x.of).deep
        /\ IsResearch(x.of)
    BY <1>2, AskIs, Zenon DEF LetIn
  <2>2. x \in {y \in Asks : y.surface = "research"}
    BY <1>2, <2>1
  <2>3. Research[x] = R(x)
    BY <2>2, Zenon DEF Research
  <2>4. KeyOf[x] = <<"research", ResearchKey(Research[x])>>
    BY <1>2, <2>1, Zenon DEF KeyOf
  <2>5. "research" # "search" /\ "research" # "web"
    OBVIOUS
  <2>6. Meaning[x] = ResearchMeaning(Body(x.of))
    BY <1>2, <2>1, <2>5, Zenon DEF Meaning, ResearchMeaning
  <2> QED BY <2>1, <2>3, <2>4, <2>6, BodiesFit, Zenon DEF ResearchKey
<1>3. ASSUME NEW x, LetIn(x), x.surface # "research"
      PROVE  KeyOf[x] = <<"search", Q(x)>> /\ Meaning[x] = <<"search", SearchMeaning(Sought(x))>>
  <2>1. x \in Asks /\ x.surface \in {"search", "web"}
    BY <1>3, AskIs, Zenon DEF LetIn
  <2>2. KeyOf[x] = <<"search", SearchKey(Query[x])>>
    BY <1>3, <2>1, Zenon DEF KeyOf
  <2>3. Query[x] = Canonicalize(Sought(x))
    BY <1>3, SoughtFit, Zenon
  <2>4. "search" # "web" /\ "search" # "research" /\ "web" # "research"
    OBVIOUS
  <2>5. Meaning[x] = <<"search", SearchMeaning(Sought(x))>>
    <3>1. CASE x.surface = "search"
      BY <2>1, <2>4, <3>1, Zenon DEF Meaning, Sought
    <3>2. CASE x.surface = "web"
      BY <2>1, <2>4, <3>2, Zenon DEF Meaning, Sought
    <3> QED BY <2>1, <3>1, <3>2
  <2> QED BY <2>2, <2>3, <2>5, Zenon
<1> HIDE DEF R, Q
<1>4. CASE a.surface = "research" /\ b.surface = "research"
  <2>1. Agree(Body(a.of), Body(b.of))
    BY <1>2, <1>4, NamesAssumption, Zenon DEF Agree, Body
  <2>2. R(a) = R(b) <=> ResearchMeaning(Body(a.of)) = ResearchMeaning(Body(b.of))
    <3>1. FitResearch(Body(a.of)) /\ FitResearch(Body(b.of))
      BY <1>2, <1>4, Zenon
    <3>2. Body(a.of).deep = Body(b.of).deep
      <4>1. Body(a.of) \in ResearchBodies /\ Body(b.of) \in ResearchBodies
        <5>1. /\ a.of \in DOMAIN Requests /\ IsResearch(a.of)
              /\ b.of \in DOMAIN Requests /\ IsResearch(b.of)
          BY <1>1, <1>4, AskIs, Zenon
        <5> QED BY <5>1, CacheAssumption, Zenon DEF Body, IsResearch
      <4>2. Body(a.of).deep \in BOOLEAN /\ Body(b.of).deep \in BOOLEAN
        BY <4>1, SMT DEF ResearchBodies
      <4> QED BY <1>2, <1>4, <4>2, Zenon
    <3> QED BY <2>1, <3>1, <3>2, ResearchKeysTell, Zenon DEF R
  <2>3. <<"research", R(a)>> = <<"research", R(b)>> <=> R(a) = R(b)
    OBVIOUS
  <2> QED BY <1>2, <1>4, <2>2, <2>3, Zenon
<1>5. CASE a.surface # "research" /\ b.surface # "research"
  <2>1. Q(a) = Q(b) <=> SearchMeaning(Sought(a)) = SearchMeaning(Sought(b))
    <3>1. Fit(Sought(a)) /\ Fit(Sought(b)) /\ Agree(Sought(a), Sought(b))
      BY <1>5, SoughtFit, SoughtAgree, Zenon
    <3> QED BY <3>1, SearchKeysTell, Zenon DEF Q
  <2>2. <<"search", Q(a)>> = <<"search", Q(b)>> <=> Q(a) = Q(b)
    OBVIOUS
  <2> DEFINE u == SearchMeaning(Sought(a))
             v == SearchMeaning(Sought(b))
  <2> HIDE DEF u, v
  <2>3. <<"search", u>> = <<"search", v>> <=> u = v
    OBVIOUS
  <2> QED BY <1>3, <1>5, <2>1, <2>2, <2>3, Zenon DEF u, v
<1>6. ASSUME NEW x, LetIn(x), x.surface = "research", NEW y, LetIn(y), y.surface # "research"
      PROVE  KeyOf[x] # KeyOf[y] /\ Meaning[x] # Meaning[y]
  <2>1. KeyOf[x] # KeyOf[y]
    BY <1>6, KeysTellSurfaces, Zenon DEF LetIn
  <2> DEFINE B == Body(x.of)
             m == SearchMeaning(Sought(y))
             m1 == Common(B)
             m2 == Names(B.handles)
             m3 == B.social
             m4 == OwnKnob(B.backend)
             m5 == OwnKnob(B.format)
  <2>2. Meaning[x] = <<"research", m1, m2, m3, m4, m5>> /\ Meaning[y] = <<"search", m>>
    BY <1>2, <1>3, <1>6, Zenon DEF ResearchMeaning
  <2> HIDE DEF m, m1, m2, m3, m4, m5
  <2>3. <<"research", m1, m2, m3, m4, m5>>[1] = "research" /\ <<"search", m>>[1] = "search"
    OBVIOUS
  <2>4. "research" # "search"
    OBVIOUS
  <2> QED BY <2>1, <2>2, <2>3, <2>4, Zenon
<1> QED BY <1>4, <1>5, <1>6, Zenon

-----------------------------------------------------------------------------
(* What calls and rows mean.                                                *)

\* A row a call was served was stored for an ask with the key of one it made.
ServedOwn(by, i) ==
  LetIn(by) /\ \E own \in Asks : LetIn(own) /\ own.of = i /\ KeyOf[by] = KeyOf[own]

\* A running call was let in, and dials a search whose domains are names.
CallMeans(r) ==
  /\ r.stage \in InFlight => BodyIn(r.ask.of)
  /\ r.stage = "dial" /\ r.ask.surface # "research" => ~Mistyped(Query[r.ask].domains)
  /\ \A by \in r.served : ServedOwn(by, r.ask.of)

MeanInv ==
  /\ \A row \in cache : LetIn(row.by)
  /\ \A row, other \in cache : KeyOf[row.by] = KeyOf[other.by] => row = other
  /\ \A c \in Calls : CallMeans(call[c])

LEMMA StageNames ==
  /\ "idle" \notin InFlight /\ "answered" \notin InFlight
  /\ "look" \in InFlight /\ "dial" \in InFlight /\ "store" \in InFlight /\ "leg" \in InFlight
  /\ "look" # "dial" /\ "store" # "dial" /\ "leg" # "dial"
  /\ "idle" # "dial" /\ "answered" # "dial"
BY SMT DEF InFlight

LEMMA IdleMeans == CallMeans(Idle)
<1>1. Idle.stage = "idle" /\ Idle.served = {}
  BY SMT DEF Idle
<1> QED BY <1>1, StageNames, Zenon DEF CallMeans

\* A call that goes on with what it holds, and does not dial, still means the same.
LEMMA GoesOn ==
  ASSUME NEW k, CallMeans(k), NEW r, r.ask.of = k.ask.of, r.served = k.served,
         r.stage \in InFlight => k.stage \in InFlight, r.stage # "dial"
  PROVE  CallMeans(r)
BY Zenon DEF CallMeans

\* A running call asks for itself.
LEMMA RunsLetIn ==
  ASSUME AgeInv, MeanInv, NEW c \in Calls, call[c].stage \in InFlight
  PROVE  LetIn(call[c].ask)
<1> DEFINE k == call[c]
<1>1. k \in CallRecs /\ CallOK(k, now) /\ CallMeans(k)
  BY Before, Zenon DEF MeanInv
<1>2. RightSurface(k.ask) /\ (IsDeep(k) => k.ask.surface = "web")
  BY <1>1, Zenon DEF CallOK
<1>3. k.ask \in AskRecs
  BY <1>1, SMT DEF CallRecs
<1>4. k.ask \in Asks
  BY <1>2, <1>3, RightAsk, Zenon
<1>5. ASSUME k.ask.surface = "research" PROVE ~Body(k.ask.of).deep
  <2>1. "research" # "search" /\ "research" # "web"
    OBVIOUS
  <2>2. IsResearch(k.ask.of)
    BY <1>2, <1>5, <2>1, Zenon DEF RightSurface
  <2> QED BY <1>2, <1>5, <2>1, <2>2, Zenon DEF IsDeep
<1> QED BY <1>1, <1>4, <1>5, Zenon DEF LetIn, CallMeans

\* One call steps, the table stays or loses rows.
LEMMA OneMeans ==
  ASSUME AgeInv, MeanInv, NEW c \in Calls, NEW r, CallMeans(r),
         call' = [call EXCEPT ![c] = r], cache' \subseteq cache
  PROVE  MeanInv'
<1>1. ASSUME NEW d \in Calls PROVE CallMeans(call'[d])
  <2>1. call \in [Calls -> CallRecs]
    BY Zenon DEF AgeInv
  <2>2. CASE d = c
    <3>1. call'[d] = r
      BY <2>1, <2>2, Zenon
    <3> QED BY <3>1, Zenon
  <2>3. CASE d # c
    <3>1. call'[d] = call[d]
      BY <2>1, <2>3, Zenon
    <3> QED BY <3>1, Zenon DEF MeanInv
  <2> QED BY <2>2, <2>3
<1>2. \A row \in cache' : LetIn(row.by)
  BY Zenon DEF MeanInv
<1>3. \A row, other \in cache' : KeyOf[row.by] = KeyOf[other.by] => row = other
  BY Zenon DEF MeanInv
<1> QED BY <1>1, <1>2, <1>3, Zenon DEF MeanInv

LEMMA InitMeans == Init => MeanInv
<1> SUFFICES ASSUME Init PROVE MeanInv
  OBVIOUS
<1>1. cache = {} /\ \A c \in Calls : call[c] = Idle
  BY Zenon DEF Init
<1> QED BY <1>1, IdleMeans, Zenon DEF MeanInv

LEMMA StartMeans ==
  ASSUME AgeInv, MeanInv, NEW c \in Calls, NEW i \in DOMAIN Requests, Start(c, i)
  PROVE  MeanInv'
<1> DEFINE surface == CASE ~IsResearch(i) -> "search"
                        [] IsResearch(i) /\ Body(i).deep -> "web"
                        [] OTHER -> "research"
           ask == [surface |-> surface, of |-> i]
           k   == [Idle EXCEPT !.stage = "look", !.since = now, !.ask = ask]
           R(s) == IF ~Accepted(i, s) THEN Idle ELSE k
<1>1. cache' = cache
  BY Zenon DEF Start
<1>2. PICK s \in {"rest", "mcp"} : call' = [call EXCEPT ![c] = R(s)]
  BY Zenon DEF Start
<1> HIDE DEF surface
<1>3. ask.of = i
  OBVIOUS
<1> HIDE DEF ask
<1>4. k.stage = "look" /\ k.ask = ask /\ k.served = {}
  BY SMT DEF Idle
<1> HIDE DEF k
<1>5. ASSUME Accepted(i, s) PROVE CallMeans(k)
  <2>1. BodyIn(i)
    BY <1>5, Zenon DEF Accepted, BodyIn, McpSearchAccepted
  <2> QED BY <1>3, <1>4, <2>1, StageNames, Zenon DEF CallMeans
<1>6. CallMeans(R(s))
  BY <1>5, IdleMeans, Zenon
<1> HIDE DEF R
<1> QED BY <1>1, <1>2, <1>6, OneMeans, Zenon

LEMMA HitMeans ==
  ASSUME AgeInv, MeanInv, NEW c \in Calls, Hit(c)
  PROVE  MeanInv'
<1> DEFINE k == call[c]
           own(row) == {row.by}
           l(row) == [k EXCEPT !.stage = "leg", !.heard = row.heard, !.served = own(row)]
           a(row) == [Answered(c, row.heard) EXCEPT !.served = own(row)]
           R(row) == IF k.ask.surface = "web" THEN l(row) ELSE a(row)
<1>1. k.stage = "look" /\ cache' = cache
  BY Zenon DEF Hit
<1>2. PICK row \in Found(k.ask) : call' = [call EXCEPT ![c] = R(row)]
  BY Zenon DEF Hit
<1>3. k \in CallRecs /\ LetIn(k.ask) /\ CallMeans(k)
  BY <1>1, Before, RunsLetIn, StageNames, Zenon DEF MeanInv
<1>4. ServedOwn(row.by, k.ask.of)
  <2>1. row \in cache /\ KeyOf[row.by] = KeyOf[k.ask]
    BY Zenon DEF Found
  <2>2. LetIn(row.by)
    BY <2>1, Zenon DEF MeanInv
  <2> QED BY <1>3, <2>1, <2>2, Zenon DEF ServedOwn, LetIn
<1> HIDE DEF own
<1>5. l(row).ask = k.ask /\ l(row).served = own(row) /\ l(row).stage = "leg"
  <2> HIDE DEF k
  <2> QED BY <1>3, SMT DEF CallRecs
<1>6. a(row).ask = k.ask /\ a(row).served = own(row) /\ a(row).stage = "answered"
  <2>1. row.heard \in Nat
    <3>1. row \in cache
      BY Zenon DEF Found
    <3> QED BY <3>1, Zenon DEF AgeInv, RowOK
  <2> DEFINE b == Answered(c, row.heard)
  <2>2. b \in CallRecs /\ b.stage = "answered" /\ b.ask = k.ask
    BY <2>1, AnsweredType, Zenon
  <2> HIDE DEF b, k
  <2>3. a(row) = [b EXCEPT !.served = own(row)]
    BY DEF b
  <2> QED BY <2>2, <2>3, SMT DEF CallRecs
<1> HIDE DEF l, a
<1>7. \A by \in own(row) : ServedOwn(by, k.ask.of)
  BY <1>4, Zenon DEF own
<1>8. CallMeans(l(row))
  BY <1>3, <1>5, <1>7, StageNames, Zenon DEF CallMeans, LetIn
<1>9. CallMeans(a(row))
  BY <1>6, <1>7, StageNames, Zenon DEF CallMeans
<1>10. CallMeans(R(row))
  BY <1>8, <1>9, Zenon
<1> HIDE DEF R
<1> QED BY <1>1, <1>2, <1>10, OneMeans, Zenon

LEMMA MissMeans ==
  ASSUME AgeInv, MeanInv, NEW c \in Calls, Miss(c)
  PROVE  MeanInv'
<1> DEFINE k == call[c]
           d == [k EXCEPT !.stage = "dial"]
           w == [k EXCEPT !.ask.surface = "web"]
           R == IF k.ask.surface = "research"
                THEN IF TavilyJob(Research[k.ask]) THEN d ELSE w
                ELSE IF Mistyped(Query[k.ask].domains) THEN Idle ELSE d
<1>1. k.stage = "look" /\ cache' = cache /\ call' = [call EXCEPT ![c] = R]
  BY Zenon DEF Miss
<1>2. k \in CallRecs /\ LetIn(k.ask) /\ CallMeans(k) /\ k.ask \in AskRecs
  <2>1. k \in CallRecs /\ LetIn(k.ask) /\ CallMeans(k)
    BY <1>1, Before, RunsLetIn, StageNames, Zenon DEF MeanInv
  <2> QED BY <2>1, SMT DEF CallRecs
<1>3. d.stage = "dial" /\ d.ask = k.ask /\ d.served = k.served
  <2> HIDE DEF k
  <2> QED BY <1>2, SMT DEF CallRecs
<1>4. w.stage = k.stage /\ w.ask.of = k.ask.of /\ w.served = k.served
  <2> DEFINE ask == [k.ask EXCEPT !.surface = "web"]
  <2>1. w = [k EXCEPT !.ask = ask]
    OBVIOUS
  <2> HIDE DEF k, w
  <2>2. ask.of = k.ask.of
    BY <1>2, SMT DEF AskRecs
  <2> HIDE DEF ask
  <2>3. w.stage = k.stage /\ w.ask = ask /\ w.served = k.served
    BY <1>2, <2>1, SMT DEF CallRecs
  <2> QED BY <2>2, <2>3, Zenon
<1>5. k.stage \in InFlight
  BY <1>1, StageNames, Zenon
<1> HIDE DEF k, d, w
<1>6. CallMeans(w)
  <2>1. k.stage = "look"
    BY <1>1
  <2> QED BY <2>1, <1>2, <1>4, <1>5, StageNames, GoesOn, Zenon
<1>7. ASSUME k.ask.surface = "research" \/ ~Mistyped(Query[k.ask].domains)
      PROVE  CallMeans(d)
  BY <1>2, <1>3, <1>7, Zenon DEF CallMeans, LetIn
<1>8. CallMeans(R)
  BY <1>6, <1>7, IdleMeans, Zenon
<1> HIDE DEF R
<1> QED BY <1>1, <1>8, OneMeans, Zenon

LEMMA DialAnswersMeans ==
  ASSUME AgeInv, MeanInv, NEW c \in Calls, DialAnswers(c)
  PROVE  MeanInv'
<1> DEFINE k == call[c]
           heard == IF k.pass = 1 THEN now ELSE k.heard
           r(legs) == [k EXCEPT !.stage = "store", !.found = legs, !.heard = heard]
           Legs == IF k.ask \in DOMAIN Query THEN Findings(k.ask) ELSE {<<>>}
<1>1. k.stage = "dial" /\ cache' = cache
  BY Zenon DEF DialAnswers
<1>2. k \in CallRecs /\ CallMeans(k) /\ call \in [Calls -> CallRecs]
  BY Before, Zenon DEF MeanInv, AgeInv
<1>3. PICK legs \in Legs :
        call' = [call EXCEPT ![c].stage = "store", ![c].found = legs,
                             ![c].heard = IF call[c].pass = 1 THEN now ELSE @]
  BY Zenon DEF DialAnswers
<1>4. call' = [call EXCEPT ![c] = r(legs)]
  BY <1>2, <1>3, Zenon
<1> HIDE DEF heard
<1>5. r(legs).stage = "store" /\ r(legs).ask = k.ask /\ r(legs).served = k.served
  <2> HIDE DEF k
  <2> QED BY <1>2, SMT DEF CallRecs
<1> HIDE DEF r
<1>6. CallMeans(r(legs))
  BY <1>1, <1>2, <1>5, StageNames, GoesOn, Zenon
<1> QED BY <1>1, <1>4, <1>6, OneMeans, Zenon

\* A call that answers keeps what it was served.
LEMMA AnsweredMeans ==
  ASSUME AgeInv, MeanInv, NEW c \in Calls, NEW heard \in Nat
  PROVE  CallMeans(Answered(c, heard))
<1> DEFINE k == call[c]
           a == Answered(c, heard)
<1>1. a.stage = "answered" /\ a.ask = k.ask /\ a.served = k.served /\ CallMeans(k)
  BY AnsweredType, Zenon DEF MeanInv
<1> HIDE DEF k, a
<1>2. CallMeans(a)
  BY <1>1, StageNames, GoesOn, Zenon
<1> QED BY <1>2, Zenon DEF a

LEMMA HeardIsNat ==
  ASSUME AgeInv, NEW c \in Calls, call[c].stage \in InFlight
  PROVE  call[c].heard \in Nat
<1>1. call[c] \in CallRecs /\ CallOK(call[c], now)
  BY Before
<1>2. call[c].heard \in Int /\ call[c].heard >= 0
  BY <1>1, SMT DEF CallRecs, CallOK
<1> QED BY <1>2

LEMMA DialFailsMeans ==
  ASSUME AgeInv, MeanInv, NEW c \in Calls, DialFails(c)
  PROVE  MeanInv'
<1> DEFINE k == call[c]
           R == IF k.pass = 2 THEN Answered(c, k.heard) ELSE Idle
<1>1. k.stage = "dial" /\ cache' = cache /\ call' = [call EXCEPT ![c] = R]
  BY Zenon DEF DialFails
<1>2. k.heard \in Nat
  BY <1>1, HeardIsNat, StageNames, Zenon
<1>3. CallMeans(R)
  BY <1>2, AnsweredMeans, IdleMeans, Zenon
<1> HIDE DEF R
<1> QED BY <1>1, <1>3, OneMeans, Zenon

\* The row that is written is the only one of its key.
LEMMA StoreMeans ==
  ASSUME AgeInv, MeanInv, NEW c \in Calls, Store(c)
  PROVE  MeanInv'
<1> DEFINE k == call[c]
           l == [k EXCEPT !.stage = "leg", !.found = <<>>]
           R == IF k.ask.surface = "web" THEN l ELSE Answered(c, k.heard)
           new == [by |-> k.ask, heard |-> k.heard, expires |-> now + Life]
           kept == {row \in cache : KeyOf[row.by] # KeyOf[k.ask]}
<1>1. k.stage = "store" /\ call' = [call EXCEPT ![c] = R]
  BY Zenon DEF Store
<1>2. k \in CallRecs /\ LetIn(k.ask) /\ CallMeans(k) /\ k.heard \in Nat
  BY <1>1, Before, RunsLetIn, HeardIsNat, StageNames, Zenon DEF MeanInv
<1>3. CallMeans(R)
  <2>1. l.stage = "leg" /\ l.ask = k.ask /\ l.served = k.served
    <3> DEFINE none == <<>>
    <3> HIDE DEF k, none
    <3>1. l = [k EXCEPT !.stage = "leg", !.found = none]
      BY DEF none
    <3> HIDE DEF l
    <3> QED BY <1>2, <3>1, SMT DEF CallRecs
  <2> HIDE DEF l
  <2>2. CallMeans(l)
    BY <1>1, <1>2, <2>1, StageNames, GoesOn, Zenon
  <2> QED BY <1>2, <2>2, AnsweredMeans, Zenon
<1> HIDE DEF R
<1>4. \A d \in Calls : CallMeans(call'[d])
  <2>1. CASE TRUE
    <3>1. ASSUME NEW d \in Calls PROVE CallMeans(call'[d])
      <4>1. call \in [Calls -> CallRecs]
        BY Zenon DEF AgeInv
      <4>2. d = c => call'[d] = R
        BY <1>1, <4>1, Zenon
      <4>3. d # c => call'[d] = call[d]
        BY <1>1, <4>1, Zenon
      <4> QED BY <1>3, <4>2, <4>3, Zenon DEF MeanInv
    <3> QED BY <3>1
  <2> QED BY <2>1
<1>5. CASE cache' = cache
  BY <1>4, <1>5, Zenon DEF MeanInv
<1>6. CASE cache' = Put(k.ask, k.heard)
  <2>1. cache' = kept \cup {new}
    BY <1>6, Zenon DEF Put, Life
  <2>2. new.by = k.ask
    OBVIOUS
  <2> HIDE DEF new, k
  <2>3. \A row \in kept : row \in cache /\ KeyOf[row.by] # KeyOf[new.by]
    BY <2>2, Zenon
  <2> HIDE DEF kept
  <2>4. \A row \in cache' : row \in kept \/ row = new
    BY <2>1, Zenon
  <2>5. \A row \in cache' : LetIn(row.by)
    BY <1>2, <2>2, <2>3, <2>4, Zenon DEF MeanInv
  <2>6. \A row, other \in cache' : KeyOf[row.by] = KeyOf[other.by] => row = other
    BY <2>3, <2>4, Zenon DEF MeanInv
  <2> QED BY <1>4, <2>5, <2>6, Zenon DEF MeanInv
<1> QED BY <1>5, <1>6, Zenon DEF Store

LEMMA LegDoneMeans ==
  ASSUME AgeInv, MeanInv, NEW c \in Calls, LegDone(c)
  PROVE  MeanInv'
<1> DEFINE k == call[c]
           s == [k EXCEPT !.stage = "store", !.ask.surface = "research"]
           R == IF Body(k.ask.of).deep THEN Answered(c, k.heard) ELSE s
<1>1. k.stage = "leg" /\ cache' = cache /\ call' = [call EXCEPT ![c] = R]
  BY Zenon DEF LegDone
<1>2. k \in CallRecs /\ CallMeans(k) /\ k.heard \in Nat /\ k.ask \in AskRecs
  <2>1. k \in CallRecs /\ CallMeans(k) /\ k.heard \in Nat
    BY <1>1, Before, HeardIsNat, StageNames, Zenon DEF MeanInv
  <2> QED BY <2>1, SMT DEF CallRecs
<1>3. s.stage = "store" /\ s.ask.of = k.ask.of /\ s.served = k.served
  <2> DEFINE ask == [k.ask EXCEPT !.surface = "research"]
             k1 == [k EXCEPT !.stage = "store"]
  <2>1. s = [k1 EXCEPT !.ask.surface = "research"]
    OBVIOUS
  <2>2. k1.ask = k.ask /\ k1.stage = "store" /\ k1.served = k.served /\ k1 \in CallRecs
    <3> HIDE DEF k, k1
    <3> QED BY <1>2, SMT DEF k1, CallRecs, Stages
  <2>3. s = [k1 EXCEPT !.ask = ask]
    BY <2>1, <2>2, Zenon
  <2> HIDE DEF k, k1, s
  <2>4. ask.of = k.ask.of
    BY <1>2, SMT DEF AskRecs
  <2> HIDE DEF ask
  <2>5. s.stage = k1.stage /\ s.ask = ask /\ s.served = k1.served
    BY <2>2, <2>3, SMT DEF CallRecs
  <2> QED BY <2>2, <2>4, <2>5, Zenon
<1> HIDE DEF s
<1>4. CallMeans(s)
  BY <1>1, <1>2, <1>3, StageNames, GoesOn, Zenon
<1>5. CallMeans(R)
  BY <1>2, <1>4, AnsweredMeans, Zenon
<1> HIDE DEF R
<1> QED BY <1>1, <1>5, OneMeans, Zenon

LEMMA RefineMeans ==
  ASSUME AgeInv, MeanInv, NEW c \in Calls, Refine(c)
  PROVE  MeanInv'
<1> DEFINE k == call[c]
           r == [k EXCEPT !.stage = "look", !.pass = 2]
<1>1. k.stage = "leg" /\ cache' = cache
      /\ call' = [call EXCEPT ![c].stage = "look", ![c].pass = 2]
  BY Zenon DEF Refine
<1>2. k \in CallRecs /\ CallMeans(k) /\ call \in [Calls -> CallRecs]
  BY Before, Zenon DEF MeanInv, AgeInv
<1>3. call' = [call EXCEPT ![c] = r]
  BY <1>1, <1>2, Zenon
<1>4. r.stage = "look" /\ r.ask = k.ask /\ r.served = k.served
  <2> HIDE DEF k
  <2> QED BY <1>2, SMT DEF CallRecs
<1> HIDE DEF r
<1>5. CallMeans(r)
  BY <1>1, <1>2, <1>4, StageNames, GoesOn, Zenon
<1> QED BY <1>1, <1>3, <1>5, OneMeans, Zenon

LEMMA StepMeans == AgeInv /\ MeanInv /\ [Next]_vars => MeanInv'
<1> SUFFICES ASSUME AgeInv, MeanInv, [Next]_vars PROVE MeanInv'
  OBVIOUS
<1>1. CASE UNCHANGED vars
  <2>1. cache' = cache /\ call' = call
    BY <1>1, Zenon DEF vars
  <2> QED BY <2>1, Zenon DEF MeanInv
<1>2. ASSUME NEW c \in Calls, NEW i \in DOMAIN Requests, Start(c, i) PROVE MeanInv'
  BY <1>2, StartMeans
<1>3. ASSUME NEW c \in Calls, Drop(c) PROVE MeanInv'
  <2>1. call' = [call EXCEPT ![c] = Idle] /\ cache' = cache
    BY <1>3, Zenon DEF Drop
  <2> QED BY <2>1, IdleMeans, OneMeans, Zenon
<1>4. ASSUME NEW c \in Calls,
             Hit(c) \/ Miss(c) \/ DialAnswers(c) \/ DialFails(c)
             \/ Store(c) \/ LegDone(c) \/ Refine(c)
      PROVE  MeanInv'
  BY <1>4, HitMeans, MissMeans, DialAnswersMeans, DialFailsMeans, StoreMeans, LegDoneMeans,
     RefineMeans, Zenon
<1>5. CASE Purge
  <2>1. call' = call /\ \A row \in cache' : row \in cache
    BY <1>5, Zenon DEF Purge
  <2> QED BY <2>1, Zenon DEF MeanInv
<1>6. CASE Tick
  <2>1. cache' = cache /\ call' = call
    BY <1>6, Zenon DEF Tick
  <2> QED BY <2>1, Zenon DEF MeanInv
<1> QED BY <1>1, <1>2, <1>3, <1>4, <1>5, <1>6, Zenon DEF Next

LEMMA RowsMean == MeanInv => RowsKeepMeaning
<1> SUFFICES ASSUME MeanInv PROVE RowsKeepMeaning
  OBVIOUS
<1>1. ASSUME NEW c \in Calls, NEW by \in call[c].served
      PROVE  \E own \in OwnAsks(c) : Meaning[by] = Meaning[own]
  <2>1. ServedOwn(by, call[c].ask.of)
    BY Zenon DEF MeanInv, CallMeans
  <2>2. PICK own \in Asks : LetIn(own) /\ own.of = call[c].ask.of /\ KeyOf[by] = KeyOf[own]
    BY <2>1, Zenon DEF ServedOwn
  <2>3. Meaning[by] = Meaning[own]
    BY <2>1, <2>2, KeysTell, Zenon DEF ServedOwn
  <2> QED BY <2>2, <2>3, Zenon DEF OwnAsks
<1>2. ASSUME NEW row \in cache, NEW other \in cache, Meaning[row.by] = Meaning[other.by]
      PROVE  row = other
  <2>1. LetIn(row.by) /\ LetIn(other.by)
    BY Zenon DEF MeanInv
  <2>2. KeyOf[row.by] = KeyOf[other.by]
    BY <1>2, <2>1, KeysTell, Zenon
  <2> QED BY <2>2, Zenon DEF MeanInv
<1> QED BY <1>1, <1>2, Zenon DEF RowsKeepMeaning, HitIsOwn, OneRowPerMeaning

\* The rows of the cache and the requests that mean the same are one to one, for
\* any requests: two requests share a row if and only if their bodies mean the
\* same, whichever spelling, surface or leg they came by.
THEOREM MeaningIsKept == Spec => []RowsKeepMeaning
<1>1. Init => AgeInv /\ MeanInv
  BY InitAge, InitMeans
<1>2. AgeInv /\ MeanInv /\ [Next]_vars => (AgeInv /\ MeanInv)'
  BY StepAge, StepMeans
<1>3. AgeInv /\ MeanInv => RowsKeepMeaning
  BY RowsMean
<1> QED BY <1>1, <1>2, <1>3, PTL DEF Spec


-----------------------------------------------------------------------------
(* The first condition that holds.                                          *)

\* Nothing holds before the first condition that does.
LEMMA FirstTrueIs ==
  ASSUME NEW c \in Seq(BOOLEAN)
  PROVE  /\ FirstTrue(c) \in 1..(Len(c) + 1)
         /\ FirstTrue(c) <= Len(c) => c[FirstTrue(c)] = TRUE
         /\ \A j \in 1..(FirstTrue(c) - 1) : c[j] = FALSE
<1> DEFINE n == Len(c)
           Is(i) == (i <= n => c[i]) /\ \A j \in 1..(i - 1) : ~c[j]
           C == {i \in 1..(n + 1) : i <= n => c[i]}
<1>1. n \in Nat /\ \A i \in 1..n : c[i] \in BOOLEAN
  OBVIOUS
<1>2. n + 1 \in C /\ C \subseteq Nat
  BY <1>1
<1>3. PICK i \in C : \A j \in C : i <= j
  BY <1>2, LeastNumber
<1>4. i \in 1..(n + 1) /\ (i <= n => c[i])
  BY <1>3
<1>5. ASSUME NEW j \in 1..(i - 1) PROVE ~c[j]
  <2>1. j \in 1..(n + 1) /\ j <= n /\ ~(i <= j)
    BY <1>1, <1>4, <1>5
  <2> QED BY <1>3, <2>1
<1>6. \E k \in 1..(n + 1) : Is(k)
  BY <1>4, <1>5
<1> DEFINE f == CHOOSE k \in 1..(n + 1) : Is(k)
<1>7. f \in 1..(n + 1) /\ Is(f)
  BY <1>6, Zenon
<1>8. FirstTrue(c) = f
  BY Zenon DEF FirstTrue
<1> HIDE DEF f, n
<1>9. f <= n => f \in 1..n
  BY <1>1, <1>7
<1>10. \A j \in 1..(f - 1) : j \in 1..n
  BY <1>1, <1>7
<1>11. f <= n => c[f] = TRUE
  BY <1>1, <1>7, <1>9, Zenon
<1>12. \A j \in 1..(f - 1) : c[j] = FALSE
  BY <1>1, <1>7, <1>10, Zenon
<1> QED BY <1>7, <1>8, <1>11, <1>12, Zenon DEF n

\* The same, written out for the lengths the code has.
LEMMA FirstOfFour ==
  ASSUME NEW a \in BOOLEAN, NEW b \in BOOLEAN, NEW c \in BOOLEAN, NEW d \in BOOLEAN
  PROVE  FirstTrue(<<a, b, c, d>>) = IF a THEN 1 ELSE IF b THEN 2 ELSE IF c THEN 3 ELSE IF d THEN 4 ELSE 5
<1> DEFINE s == <<a, b, c, d>>
           f == FirstTrue(s)
<1>1. s \in Seq(BOOLEAN) /\ Len(s) = 4 /\ s[1] = a /\ s[2] = b /\ s[3] = c /\ s[4] = d
  OBVIOUS
<1> HIDE DEF s
<1>2. f \in 1..(Len(s) + 1)
  BY <1>1, FirstTrueIs, Zenon
<1>3. f <= Len(s) => s[f] = TRUE
  BY <1>1, FirstTrueIs, Zenon
<1>4. \A j \in 1..(f - 1) : s[j] = FALSE
  BY <1>1, FirstTrueIs, Zenon
<1> HIDE DEF f
<1>5. f \in {1, 2, 3, 4, 5}
  BY <1>1, <1>2
<1>6. f = 1 => a = TRUE
  BY <1>1, <1>3, <1>4
<1>7. f = 2 => a = FALSE /\ b = TRUE
  BY <1>1, <1>3, <1>4
<1>8. f = 3 => a = FALSE /\ b = FALSE /\ c = TRUE
  BY <1>1, <1>3, <1>4
<1>9. f = 4 => a = FALSE /\ b = FALSE /\ c = FALSE /\ d = TRUE
  BY <1>1, <1>3, <1>4
<1>10. f = 5 => a = FALSE /\ b = FALSE /\ c = FALSE /\ d = FALSE
  BY <1>1, <1>3, <1>4
<1> QED BY <1>5, <1>6, <1>7, <1>8, <1>9, <1>10, Zenon DEF f, s

LEMMA FirstOfThree ==
  ASSUME NEW a \in BOOLEAN, NEW b \in BOOLEAN, NEW c \in BOOLEAN
  PROVE  FirstTrue(<<a, b, c>>) = IF a THEN 1 ELSE IF b THEN 2 ELSE IF c THEN 3 ELSE 4
<1> DEFINE s == <<a, b, c>>
           f == FirstTrue(s)
<1>1. s \in Seq(BOOLEAN) /\ Len(s) = 3 /\ s[1] = a /\ s[2] = b /\ s[3] = c
  OBVIOUS
<1> HIDE DEF s
<1>2. f \in 1..(Len(s) + 1)
  BY <1>1, FirstTrueIs, Zenon
<1>3. f <= Len(s) => s[f] = TRUE
  BY <1>1, FirstTrueIs, Zenon
<1>4. \A j \in 1..(f - 1) : s[j] = FALSE
  BY <1>1, FirstTrueIs, Zenon
<1> HIDE DEF f
<1>5. f \in {1, 2, 3, 4}
  BY <1>1, <1>2
<1>6. f = 1 => a = TRUE
  BY <1>1, <1>3, <1>4
<1>7. f = 2 => a = FALSE /\ b = TRUE
  BY <1>1, <1>3, <1>4
<1>8. f = 3 => a = FALSE /\ b = FALSE /\ c = TRUE
  BY <1>1, <1>3, <1>4
<1>9. f = 4 => a = FALSE /\ b = FALSE /\ c = FALSE
  BY <1>1, <1>3, <1>4
<1> QED BY <1>5, <1>6, <1>7, <1>8, <1>9, Zenon DEF f, s

\* The gate a search goes through.
LEMMA GateIs ==
  ASSUME NEW q
  PROVE  Gate(q) = IF Pinned(q.provider) THEN 1 ELSE IF HybridAsked(q) THEN 2
                   ELSE IF XAsked(q) THEN 3 ELSE IF ContentAsked(q) THEN 4 ELSE 5
<1> DEFINE a == Pinned(q.provider)
           b == HybridAsked(q)
           c == XAsked(q)
           d == ContentAsked(q)
<1>1. a \in BOOLEAN
  BY Zenon DEF Pinned
<1>2. b \in BOOLEAN
  BY Zenon DEF HybridAsked
<1>3. c \in BOOLEAN
  BY Zenon DEF XAsked
<1>4. d \in BOOLEAN
  BY Zenon DEF ContentAsked
<1>5. Gate(q) = FirstTrue(<<a, b, c, d>>)
  BY Zenon DEF Gate
<1> HIDE DEF a, b, c, d
<1>6. Gate(q) = IF a THEN 1 ELSE IF b THEN 2 ELSE IF c THEN 3 ELSE IF d THEN 4 ELSE 5
  BY <1>1, <1>2, <1>3, <1>4, <1>5, FirstOfFour, Zenon
<1> QED BY <1>6, Zenon DEF a, b, c, d

\* The intents that a query can be heard with.
Intents == {"comparison", "tutorial", "news", "resource", "status", "exploratory", "factual"}

\* A text always speaks of something.
LEMMA HeardIs == ASSUME NEW text PROVE Heard(text) \in Intents
<1> DEFINE B(i) == Groups[i] \in text /\ ~(Groups[i] = "news" /\ "version" \in text)
           h == [i \in DOMAIN Groups |-> B(i)]
           G == Append(Groups, "factual")
           f == FirstTrue(h)
<1>1. DOMAIN Groups = 1..6
  BY DEF Groups
<1>2. Heard(text) = G[f]
  BY Zenon DEF Heard
<1>3. h = [i \in 1..6 |-> B(i)] /\ \A i : B(i) \in BOOLEAN
  BY <1>1, Zenon
<1> HIDE DEF h, B
<1>4. h \in Seq(BOOLEAN) /\ Len(h) = 6
  BY <1>3
<1>5. f \in 1..(Len(h) + 1)
  BY <1>4, FirstTrueIs, Zenon
<1> HIDE DEF f
<1>6. f \in {1, 2, 3, 4, 5, 6, 7}
  BY <1>4, <1>5
<1>7. /\ G[1] = "comparison" /\ G[2] = "tutorial" /\ G[3] = "news" /\ G[4] = "resource"
      /\ G[5] = "status" /\ G[6] = "exploratory" /\ G[7] = "factual"
  BY DEF Groups
<1> HIDE DEF G
<1>8. G[f] \in Intents
  BY <1>6, <1>7 DEF Intents
<1> QED BY <1>2, <1>8, Zenon

-----------------------------------------------------------------------------
(* The route table.                                                         *)

\* The route table, rule by rule.
LEMMA RulesAre ==
  /\ DOMAIN RULES = 1..13
  /\ RULES[1] = Rule(95, "tavily", "source", "news", "news")
  /\ RULES[2] = Rule(95, "firecrawl", "source", "images", "images")
  /\ RULES[3] = Rule(90, "tavily",    "mode",   "news",        "news")
  /\ RULES[4] = Rule(85, "tavily",    "mode",   "docs",        "none")
  /\ RULES[5] = Rule(85, "tavily",    "mode",   "github",      "none")
  /\ RULES[6] = Rule(85, "tavily",    "mode",   "pdf",         "none")
  /\ RULES[7] = Rule(85, "tavily",    "intent", "news",        "news")
  /\ RULES[8] = Rule(85, "tavily",    "intent", "status",      "news")
  /\ RULES[9] = Rule(80, "tavily",    "intent", "comparison",  "none")
  /\ RULES[10] = Rule(80, "tavily",    "intent", "tutorial",    "none")
  /\ RULES[11] = Rule(75, "tavily",    "intent", "exploratory", "none")
  /\ RULES[12] = Rule(70, "tavily",    "intent", "resource",    "none")
  /\ RULES[13] = Rule(60, "tavily",    "intent", "factual",     "none")
 BY DEF RULES

\* Of some of the rules, one comes first.
LEMMA SomeRuleFirst ==
  ASSUME NEW M, M \subseteq 1..13, M # {}, NEW p \in [1..13 -> 0..100]
  PROVE  \E i \in M : \A j \in M : (p[i] > p[j]) \/ (p[i] = p[j] /\ i <= j)
<1> DEFINE W == {20 * (100 - p[i]) + i : i \in M}
<1>1. \A i \in M : i \in 1..13 /\ p[i] \in 0..100
  OBVIOUS
<1>2. \A i \in M : 20 * (100 - p[i]) + i \in Nat
  BY <1>1
<1>3. W \subseteq Nat /\ W # {}
  BY <1>2
<1>4. PICK u \in W : \A v \in W : u <= v
  BY <1>3, LeastNumber, Zenon
<1>5. PICK i \in M : u = 20 * (100 - p[i]) + i
  BY <1>4
<1>6. ASSUME NEW j \in M PROVE (p[i] > p[j]) \/ (p[i] = p[j] /\ i <= j)
  <2> DEFINE a == p[i]
             b == p[j]
  <2>1. 20 * (100 - a) + i <= 20 * (100 - b) + j
    BY <1>4, <1>5
  <2>2. i \in 1..13 /\ j \in 1..13 /\ a \in 0..100 /\ b \in 0..100
    BY <1>1
  <2> HIDE DEF a, b
  <2>3. a > b \/ (a = b /\ i <= j)
    BY <2>1, <2>2
  <2> QED BY <2>3 DEF a, b
<1> QED BY <1>6

\* Every rule is for a web vendor, and none is above the two for named sources.
LEMMA AnyRule ==
  ASSUME NEW i \in DOMAIN RULES
  PROVE  /\ RULES[i].provider \in {"tavily", "firecrawl"}
         /\ RULES[i].priority \in 0..100
         /\ RULES[i].priority <= 95
         /\ RULES[i].priority = 95 => i \in {1, 2}
<1>1. i \in {1, 2, 3, 4, 5, 6, 7, 8, 9, 10, 11, 12, 13}
  BY RulesAre
<1>2. CASE i = 1
  BY <1>2, RulesAre, SMT DEF Rule
<1>3. CASE i = 2
  BY <1>3, RulesAre, SMT DEF Rule
<1>4. CASE i = 3
  BY <1>4, RulesAre, SMT DEF Rule
<1>5. CASE i = 4
  BY <1>5, RulesAre, SMT DEF Rule
<1>6. CASE i = 5
  BY <1>6, RulesAre, SMT DEF Rule
<1>7. CASE i = 6
  BY <1>7, RulesAre, SMT DEF Rule
<1>8. CASE i = 7
  BY <1>8, RulesAre, SMT DEF Rule
<1>9. CASE i = 8
  BY <1>9, RulesAre, SMT DEF Rule
<1>10. CASE i = 9
  BY <1>10, RulesAre, SMT DEF Rule
<1>11. CASE i = 10
  BY <1>11, RulesAre, SMT DEF Rule
<1>12. CASE i = 11
  BY <1>12, RulesAre, SMT DEF Rule
<1>13. CASE i = 12
  BY <1>13, RulesAre, SMT DEF Rule
<1>14. CASE i = 13
  BY <1>14, RulesAre, SMT DEF Rule
<1> QED BY <1>1, <1>2, <1>3, <1>4, <1>5, <1>6, <1>7, <1>8, <1>9, <1>10, <1>11, <1>12, <1>13, <1>14

\* The rule that decides: one of the matching ones, below none of them.
LEMMA TopRuleIs ==
  ASSUME NEW q, Matching(q) # {}
  PROVE  /\ TopRule(q) \in Matching(q)
         /\ \A j \in Matching(q) : RULES[TopRule(q)].priority >= RULES[j].priority
<1> DEFINE M == Matching(q)
           p == [i \in 1..13 |-> RULES[i].priority]
           First(i) == \A j \in M : \/ RULES[i].priority > RULES[j].priority
                                    \/ RULES[i].priority = RULES[j].priority /\ i <= j
<1>1. M \subseteq 1..13 /\ \A i \in 1..13 : i \in DOMAIN RULES
  BY RulesAre, Zenon DEF Matching
<1>2. p \in [1..13 -> 0..100]
  BY <1>1, AnyRule
<1>3. \E i \in M : \A j \in M : (p[i] > p[j]) \/ (p[i] = p[j] /\ i <= j)
  BY <1>1, <1>2, SomeRuleFirst, Zenon
<1>4. \A i \in M : p[i] = RULES[i].priority
  BY <1>1
<1>5. \E i \in M : First(i)
  BY <1>3, <1>4
<1> DEFINE t == CHOOSE i \in M : First(i)
<1>6. t \in M /\ First(t)
  BY <1>5, Zenon
<1>7. TopRule(q) = t
  BY Zenon DEF TopRule
<1> HIDE DEF t
<1>8. ASSUME NEW j \in M PROVE RULES[t].priority >= RULES[j].priority
  <2> DEFINE a == RULES[t].priority
             b == RULES[j].priority
  <2>1. a \in 0..100 /\ b \in 0..100
    BY <1>1, <1>6, <1>8, AnyRule, Zenon
  <2>2. a > b \/ a = b
    BY <1>6, <1>8, Zenon
  <2> HIDE DEF a, b
  <2>3. a >= b
    BY <2>1, <2>2
  <2> QED BY <2>3, Zenon DEF a, b
<1> QED BY <1>6, <1>7, <1>8, Zenon

\* Some rule matches a search whose intent is known.
LEMMA SomeRuleMatches ==
  ASSUME NEW q, IntentOf(q) \in Intents
  PROVE  Matching(q) # {}
<1>1. IntentOf(q) = "news" => RuleMatches(RULES[7], q)
  BY RulesAre, SMT DEF Rule, RuleMatches
<1>2. IntentOf(q) = "status" => RuleMatches(RULES[8], q)
  BY RulesAre, SMT DEF Rule, RuleMatches
<1>3. IntentOf(q) = "comparison" => RuleMatches(RULES[9], q)
  BY RulesAre, SMT DEF Rule, RuleMatches
<1>4. IntentOf(q) = "tutorial" => RuleMatches(RULES[10], q)
  BY RulesAre, SMT DEF Rule, RuleMatches
<1>5. IntentOf(q) = "exploratory" => RuleMatches(RULES[11], q)
  BY RulesAre, SMT DEF Rule, RuleMatches
<1>6. IntentOf(q) = "resource" => RuleMatches(RULES[12], q)
  BY RulesAre, SMT DEF Rule, RuleMatches
<1>7. IntentOf(q) = "factual" => RuleMatches(RULES[13], q)
  BY RulesAre, SMT DEF Rule, RuleMatches
<1>8. /\ 7 \in DOMAIN RULES /\ 8 \in DOMAIN RULES /\ 9 \in DOMAIN RULES /\ 10 \in DOMAIN RULES
      /\ 11 \in DOMAIN RULES /\ 12 \in DOMAIN RULES /\ 13 \in DOMAIN RULES
  BY RulesAre
<1> QED BY <1>1, <1>2, <1>3, <1>4, <1>5, <1>6, <1>7, <1>8, Zenon DEF Matching, Intents

\* A named source decides.
LEMMA NamedRuleWins ==
  ASSUME NEW q, "news" \in SourcesOf(q) \/ "images" \in SourcesOf(q)
  PROVE  LET rule == RULES[TopRule(q)]
         IN \/ "news" \in SourcesOf(q) /\ rule.provider = "tavily" /\ rule.topic = "news"
            \/ "images" \in SourcesOf(q) /\ rule.provider = "firecrawl" /\ rule.topic = "images"
<1>1. RuleMatches(RULES[1], q) <=> "news" \in SourcesOf(q)
  BY RulesAre, SMT DEF Rule, RuleMatches
<1>2. RuleMatches(RULES[2], q) <=> "images" \in SourcesOf(q)
  BY RulesAre, SMT DEF Rule, RuleMatches
<1>3. 1 \in DOMAIN RULES /\ 2 \in DOMAIN RULES
  BY RulesAre
<1>4. PICK i \in {1, 2} : i \in Matching(q)
  BY <1>1, <1>2, <1>3, Zenon DEF Matching
<1> DEFINE t == TopRule(q)
<1>5. Matching(q) # {}
  BY <1>4
<1>6. t \in Matching(q) /\ RULES[t].priority >= RULES[i].priority
  BY <1>4, <1>5, TopRuleIs, Zenon
<1>7. t \in DOMAIN RULES /\ RuleMatches(RULES[t], q)
  BY <1>6, Zenon DEF Matching
<1>8. RULES[1].priority = 95 /\ RULES[2].priority = 95
  BY RulesAre, SMT DEF Rule
<1>9. RULES[t].priority <= 95 /\ RULES[t].priority \in 0..100
  BY <1>7, AnyRule, Zenon
<1>10. RULES[i].priority = 95
  BY <1>4, <1>8
<1> HIDE DEF t
<1>11. RULES[t].priority = 95
  BY <1>6, <1>9, <1>10
<1>12. t \in {1, 2}
  BY <1>7, <1>11, AnyRule, Zenon
<1>13. /\ RULES[1].provider = "tavily" /\ RULES[1].topic = "news"
       /\ RULES[2].provider = "firecrawl" /\ RULES[2].topic = "images"
  BY RulesAre, SMT DEF Rule
<1> QED BY <1>1, <1>2, <1>7, <1>12, <1>13, Zenon DEF t

-----------------------------------------------------------------------------
(* What the canonical form of a search says of its knobs.                   *)

\* A knob as its canonical form has it: the exact spelling, or nothing.
Chosen(raw) == IF Said(raw) THEN Exact(raw.word) ELSE Absent

\* The search q is dialled for the body b.
StandsFor(q, b) ==
  /\ q.mode = Chosen(b.mode) /\ q.intent = Chosen(b.intent)
  /\ q.strategy = Chosen(b.strategy) /\ q.provider = Chosen(b.provider)
  /\ q.depth = Chosen(b.depth) /\ q.range = Sense(Span(b.range))
  /\ q.from = FoldDate(b.from) /\ q.sources = FoldSources(b.sources)
  /\ q.domains = FoldList(b.domains) /\ q.handles = FoldList(b.handles)
  /\ q.content = b.content /\ q.raw = b.raw /\ q.country = b.country

\* A canonical form stands for the body it was made of.
LEMMA CanonicalStands ==
  ASSUME NEW b, Fit(b), NEW q, q = Canonicalize(b)
  PROVE  StandsFor(q, b)
<1>1. Typed(b) /\ SearchAccepted(b) /\ b = Fields(b)
  BY Zenon DEF Fit, Typed
<1>2. /\ q.content = b.content /\ q.raw = b.raw /\ q.country = b.country
      /\ q.from = FoldDate(b.from) /\ q.sources = FoldSources(b.sources)
      /\ q.domains = FoldList(b.domains) /\ q.handles = FoldList(b.handles)
  BY <1>1, CanonicalIs, Zenon
<1>3. /\ q.mode = Settled(b.mode, Choice(b.mode, VALID_MODES))
      /\ q.intent = Settled(b.intent, Choice(b.intent, VALID_INTENTS))
      /\ q.strategy = Settled(b.strategy, Choice(b.strategy, VALID_STRATEGIES))
      /\ q.provider = Settled(b.provider, Choice(b.provider, VALID_PROVIDERS))
      /\ q.depth = Settled(b.depth, Depth(b.depth))
      /\ q.range = Settled(b.range, TimeRange(b.range))
  BY <1>1, CanonicalIs, Zenon
<1>4. /\ Knob(b.mode) /\ Choice(b.mode, VALID_MODES) # "refused"
      /\ Knob(b.intent) /\ Choice(b.intent, VALID_INTENTS) # "refused"
      /\ Knob(b.strategy) /\ Choice(b.strategy, VALID_STRATEGIES) # "refused"
      /\ Knob(b.provider) /\ Choice(b.provider, VALID_PROVIDERS) # "refused"
      /\ Knob(b.depth) /\ Choice(b.depth, VALID_DEPTHS) # "refused"
      /\ Knob(b.range) /\ TimeRange(b.range) # "refused"
  BY <1>1, Zenon DEF Typed, SearchAccepted, Depth
<1>5. q.mode = Chosen(b.mode)
  BY <1>3, <1>4, ClosedSets, SettledIs, Zenon DEF Chosen
<1>6. q.intent = Chosen(b.intent)
  BY <1>3, <1>4, ClosedSets, SettledIs, Zenon DEF Chosen
<1>7. q.strategy = Chosen(b.strategy)
  BY <1>3, <1>4, ClosedSets, SettledIs, Zenon DEF Chosen
<1>8. q.provider = Chosen(b.provider)
  BY <1>3, <1>4, ClosedSets, SettledIs, Zenon DEF Chosen
<1>9. q.depth = Chosen(b.depth)
  BY <1>3, <1>4, ClosedSets, SettledIs, Zenon DEF Chosen, Depth
<1>10. q.range = Sense(Span(b.range))
  BY <1>3, <1>4, RangeIs, Zenon
<1> QED BY <1>2, <1>5, <1>6, <1>7, <1>8, <1>9, <1>10, Zenon DEF StandsFor

\* A knob pins what was wanted, if anything was.
KnobTells(c, raw) ==
  /\ Wanted(raw) = "any" => ~Pinned(c) /\ Word(c) \in {"none", "auto"}
  /\ Wanted(raw) # "any" => Pinned(c) /\ Word(c) = Wanted(raw) /\ c.word = Wanted(raw)

\* A knob in canonical form wants what the client wanted of it.
LEMMA ChosenTells ==
  ASSUME NEW raw, NEW V, Said(raw) => raw.word \in V, "any" \notin V, "none" \notin V
  PROVE  KnobTells(Chosen(raw), raw) /\ Wanted(raw) \in {"any"} \cup (V \ {"auto"})
<1>1. "none" # "auto" /\ "any" # "auto" /\ "exact" # "absent"
  OBVIOUS
<1>2. Absent.how = "absent"
  BY DEF Absent
<1>3. Exact(raw.word).how = "exact" /\ Exact(raw.word).word = raw.word
  BY DEF Exact
<1>4. CASE ~Said(raw)
  <2>1. Chosen(raw) = Absent /\ Wanted(raw) = "any"
    BY <1>4, Zenon DEF Chosen, Wanted
  <2>2. Word(Absent) = "none"
    BY <1>2, Zenon DEF Word
  <2>3. ~Pinned(Absent)
    BY <2>2, Zenon DEF Pinned
  <2> QED BY <2>1, <2>2, <2>3, Zenon DEF KnobTells
<1>5. CASE Said(raw)
  <2>1. Chosen(raw) = Exact(raw.word) /\ Word(Exact(raw.word)) = raw.word
    BY <1>1, <1>3, <1>5, Zenon DEF Chosen, Word
  <2>2. Wanted(raw) = IF raw.word = "auto" THEN "any" ELSE raw.word
    BY <1>5, Zenon DEF Wanted
  <2>3. raw.word \in V /\ raw.word # "any" /\ raw.word # "none"
    BY <1>5, Zenon
  <2>4. Pinned(Exact(raw.word)) <=> raw.word # "auto"
    BY <2>1, <2>3, Zenon DEF Pinned
  <2> QED BY <1>1, <1>3, <2>1, <2>2, <2>3, <2>4, Zenon DEF KnobTells
<1> QED BY <1>4, <1>5

\* What a search that stands for b has its knobs say.
LEMMA KnobsTell ==
  ASSUME NEW b, Fit(b), NEW q, StandsFor(q, b)
  PROVE  /\ KnobTells(q.mode, b.mode)
         /\ KnobTells(q.intent, b.intent) /\ Wanted(b.intent) \in {"any"} \cup Intents
         /\ KnobTells(q.provider, b.provider)
<1>1. Typed(b) /\ SearchAccepted(b)
  BY Zenon DEF Fit
<1>2. Said(b.mode) => b.mode.word \in VALID_MODES
  BY <1>1, Zenon DEF SearchAccepted, Choice
<1>3. Said(b.intent) => b.intent.word \in VALID_INTENTS
  BY <1>1, Zenon DEF SearchAccepted, Choice
<1>4. Said(b.provider) => b.provider.word \in VALID_PROVIDERS
  BY <1>1, Zenon DEF SearchAccepted, Choice
<1>5. "any" \notin VALID_MODES /\ "none" \notin VALID_MODES
  BY DEF VALID_MODES
<1>6. "any" \notin VALID_INTENTS /\ "none" \notin VALID_INTENTS
  BY DEF VALID_INTENTS
<1>7. "any" \notin VALID_PROVIDERS /\ "none" \notin VALID_PROVIDERS
  BY DEF VALID_PROVIDERS
<1>8. VALID_INTENTS \ {"auto"} = Intents
  BY DEF VALID_INTENTS, Intents
<1>9. KnobTells(q.mode, b.mode)
  BY <1>2, <1>5, ChosenTells, Zenon DEF StandsFor
<1>10. KnobTells(q.intent, b.intent) /\ Wanted(b.intent) \in {"any"} \cup (VALID_INTENTS \ {"auto"})
  BY <1>3, <1>6, ChosenTells, Zenon DEF StandsFor
<1>11. KnobTells(q.provider, b.provider)
  BY <1>4, <1>7, ChosenTells, Zenon DEF StandsFor
<1> QED BY <1>8, <1>9, <1>10, <1>11, Zenon

\* The words of a folded source list: those that are named, X by its own name.
SourceWords(f) == {f[i].word : i \in DOMAIN f}

\* The sources of a canonical form, as words.
LEMMA SourceWordsAre ==
  ASSUME NEW s \in Seq(SourceTexts), ~SourceRefused(s), NEW w, w # ""
  PROVE  w \in SourceWords(FoldSources(s))
           <=> \E i \in DOMAIN s : Said(s[i]) /\ SourceName(s[i]) = w
<1>1. CASE AnySaid(s)
  <2> DEFINE f == FoldSources(s)
             n == SourceNames(s)
  <2>1. DOMAIN f = DOMAIN n /\ \A k \in DOMAIN n : f[k] = Exact(n[k])
    BY <1>1, FoldSourcesIs, Zenon
  <2>2. /\ \A k \in DOMAIN n : \E i \in DOMAIN s : Said(s[i]) /\ n[k] = SourceName(s[i])
        /\ \A i \in DOMAIN s : Said(s[i]) => \E k \in DOMAIN n : n[k] = SourceName(s[i])
    BY SourceNamesAre, Zenon
  <2> HIDE DEF f, n
  <2>3. \A v : Exact(v).word = v
    BY DEF Exact
  <2>4. \A k \in DOMAIN n : f[k].word = n[k]
    BY <2>1, <2>3, Zenon
  <2>5. w \in SourceWords(f) <=> \E k \in DOMAIN n : n[k] = w
    BY <2>1, <2>4 DEF SourceWords
  <2> QED BY <2>2, <2>5, Zenon DEF f
<1>2. CASE ~AnySaid(s)
  <2>a. FoldSources(s) = s
    BY <1>2, FoldSourcesIs, Zenon
  <2>b. ASSUME NEW i \in DOMAIN s PROVE s[i].word = ""
    <3>1. s[i] = [how |-> "blank", word |-> ""]
      BY <1>2, BlanksAre
    <3>2. [how |-> "blank", word |-> ""].word = ""
      OBVIOUS
    <3> QED BY <3>1, <3>2, Zenon
  <2>1. FoldSources(s) = s /\ \A i \in DOMAIN s : s[i].word = ""
    BY <2>a, <2>b, Zenon
  <2>2. w \notin SourceWords(s)
    BY <2>1 DEF SourceWords
  <2> QED BY <1>2, <2>1, <2>2, Zenon DEF AnySaid
<1> QED BY <1>1, <1>2

\* What a search that stands for b has its sources say.
SourcesSay(q, b) ==
  /\ "web" \in SourceWords(q.sources) <=> Named(b, {"web"})
  /\ "news" \in SourceWords(q.sources) <=> Named(b, {"news"})
  /\ "images" \in SourceWords(q.sources) <=> Named(b, {"images"})
  /\ "x" \in SourceWords(q.sources) <=> Named(b, {"x", "social"})
  /\ "social" \notin SourceWords(q.sources)

\* They are the names that the client gave, or the web when it gave none.
LEMMA SourcesTellNames ==
  ASSUME NEW b, Fit(b), NEW q, StandsFor(q, b)
  PROVE  SourcesSay(q, b)
<1> DEFINE s == b.sources
           W == SourceWords(q.sources)
           Says(v) == \E i \in DOMAIN s : Said(s[i]) /\ SourceName(s[i]) = v
<1>1. s \in Seq(SourceTexts) /\ ~SourceRefused(s) /\ q.sources = FoldSources(s)
  BY Zenon DEF Fit, Typed, SearchAccepted, StandsFor
<1>2. \A w : w # "" => (w \in W <=> Says(w))
  BY <1>1, SourceWordsAre, Zenon
<1>3. \A i : /\ SourceName(s[i]) = "web" <=> s[i].word \in {"web"}
             /\ SourceName(s[i]) = "news" <=> s[i].word \in {"news"}
             /\ SourceName(s[i]) = "images" <=> s[i].word \in {"images"}
             /\ SourceName(s[i]) = "x" <=> s[i].word \in {"x", "social"}
             /\ SourceName(s[i]) # "social"
  BY DEF SourceName
<1> HIDE DEF W
<1>4. "web" \in W <=> Named(b, {"web"})
  BY <1>2, <1>3, Zenon DEF Named
<1>5. "news" \in W <=> Named(b, {"news"})
  BY <1>2, <1>3, Zenon DEF Named
<1>6. "images" \in W <=> Named(b, {"images"})
  BY <1>2, <1>3, Zenon DEF Named
<1>7. "x" \in W <=> Named(b, {"x", "social"})
  BY <1>2, <1>3, Zenon DEF Named
<1>8. "social" \notin W
  BY <1>2, <1>3, Zenon
<1> QED BY <1>4, <1>5, <1>6, <1>7, <1>8, Zenon DEF SourcesSay, W

-----------------------------------------------------------------------------
(* The route.                                                               *)

\* A route to a provider, with its topic and whether it blends.
To(q, provider, topic, blend) ==
  [provider |-> provider, topic |-> topic, blend |-> blend,
   hybrid |-> provider = "hybrid", strategy |-> StrategyOf(q)]

\* The route, gate by gate.
LEMMA RouteByGate ==
  ASSUME NEW q
  PROVE  /\ Gate(q) = 1 => Route(q) = To(q, IF q.provider.word = "social" THEN "xai"
                                            ELSE q.provider.word, "none", FALSE)
         /\ Gate(q) = 2 => Route(q) = To(q, "hybrid", "none", FALSE)
         /\ Gate(q) = 3 => Route(q) = To(q, "xai", "none", FALSE)
         /\ Gate(q) = 4 => Route(q) = To(q, "firecrawl", "research", FALSE)
         /\ Gate(q) = 5 /\ Matching(q) # {} =>
              Route(q) = To(q, RULES[TopRule(q)].provider, RULES[TopRule(q)].topic,
                            /\ StrategyOf(q) \in {"balanced", "verify"}
                            /\ RULES[TopRule(q)].provider \in {"tavily", "firecrawl"})
<1> DEFINE g == Gate(q)
<1>0. /\ g = 1 => g # 2 /\ g # 3 /\ g # 4 /\ g # 5
      /\ g = 2 => g # 1 /\ g # 3 /\ g # 4 /\ g # 5
      /\ g = 3 => g # 1 /\ g # 2 /\ g # 4 /\ g # 5
      /\ g = 4 => g # 1 /\ g # 2 /\ g # 3 /\ g # 5
      /\ g = 5 => g # 1 /\ g # 2 /\ g # 3 /\ g # 4
  OBVIOUS
<1>1. g = 1 => Route(q) = To(q, IF q.provider.word = "social" THEN "xai"
                                ELSE q.provider.word, "none", FALSE)
  BY <1>0, Zenon DEF Route, To
<1>2. g = 2 => Route(q) = To(q, "hybrid", "none", FALSE)
  BY <1>0, Zenon DEF Route, To
<1>3. g = 3 => Route(q) = To(q, "xai", "none", FALSE)
  BY <1>0, Zenon DEF Route, To
<1>4. g = 4 => Route(q) = To(q, "firecrawl", "research", FALSE)
  BY <1>0, Zenon DEF Route, To
<1>5. g = 5 /\ Matching(q) # {} =>
              Route(q) = To(q, RULES[TopRule(q)].provider, RULES[TopRule(q)].topic,
                            /\ StrategyOf(q) \in {"balanced", "verify"}
                            /\ RULES[TopRule(q)].provider \in {"tavily", "firecrawl"})
  BY <1>0, Zenon DEF Route, To
<1> QED BY <1>1, <1>2, <1>3, <1>4, <1>5, Zenon

\* What a route says.
Leads(route, provider, topic, blend) ==
  /\ route.provider = provider /\ route.topic = topic /\ route.blend = blend
  /\ route.hybrid \in BOOLEAN /\ (route.hybrid <=> provider = "hybrid")

\* Such a route leads where it says.
LEMMA ToLeads ==
  ASSUME NEW q, NEW p, NEW t, NEW b
  PROVE  Leads(To(q, p, t, b), p, t, b)
<1> DEFINE r == To(q, p, t, b)
<1>1. r.provider = p
  BY SMT DEF To
<1>2. r.topic = t
  BY SMT DEF To
<1>3. r.blend = b
  BY SMT DEF To
<1>4. r.hybrid = (p = "hybrid")
  BY SMT DEF To
<1> HIDE DEF r
<1>5. r.hybrid \in BOOLEAN /\ (r.hybrid <=> p = "hybrid")
  BY <1>4, Zenon
<1> QED BY <1>1, <1>2, <1>3, <1>5, Zenon DEF Leads, r

\* Every search that was let in has an intent, and so some rule for it.
LEMMA IntentIsKnown ==
  ASSUME NEW b, Fit(b), NEW q, StandsFor(q, b)
  PROVE  Matching(q) # {}
<1>1. KnobTells(q.intent, b.intent) /\ Wanted(b.intent) \in {"any"} \cup Intents
  BY KnobsTell, Zenon
<1>2. CASE Pinned(q.intent)
  <2>1. Wanted(b.intent) # "any" /\ q.intent.word = Wanted(b.intent)
    BY <1>1, <1>2, Zenon DEF KnobTells
  <2>2. q.intent.word \in Intents
    BY <1>1, <2>1, Zenon
  <2>3. IntentOf(q) = q.intent.word
    BY <1>2, Zenon DEF IntentOf
  <2> QED BY <2>2, <2>3, SomeRuleMatches, Zenon
<1>3. CASE ~Pinned(q.intent)
  <2>1. IntentOf(q) \in {"news", "resource", "exploratory", Heard(q.text)}
    <3>1. CASE Word(q.mode) = "news"
      BY <1>3, <3>1, Zenon DEF IntentOf
    <3>2. CASE Word(q.mode) \in {"docs", "github", "pdf"}
      BY <1>3, <3>2, Zenon DEF IntentOf
    <3>3. CASE Word(q.mode) = "research"
      BY <1>3, <3>3, Zenon DEF IntentOf
    <3>4. CASE Word(q.mode) \notin {"news", "docs", "github", "pdf", "research"}
      BY <1>3, <3>4, Zenon DEF IntentOf
    <3> QED BY <3>1, <3>2, <3>3, <3>4, Zenon
  <2>2. "news" \in Intents /\ "resource" \in Intents /\ "exploratory" \in Intents
    BY DEF Intents
  <2> QED BY <2>1, <2>2, HeardIs, SomeRuleMatches, Zenon
<1> QED BY <1>2, <1>3

\* What a route is in any case.
RouteOK(q) ==
  /\ Route(q).hybrid \in BOOLEAN /\ Route(q).blend \in BOOLEAN
  /\ Route(q).hybrid <=> Route(q).provider = "hybrid"
  /\ Route(q).blend => Route(q).provider \in {"tavily", "firecrawl"}

\* Where some rule matches, the route is to a known vendor, whatever gate leads there.
LEMMA RouteIsOK ==
  ASSUME NEW q, Matching(q) # {}
  PROVE  /\ RouteOK(q)
         /\ Gate(q) \in 1..5
         /\ Gate(q) = 2 => Route(q).provider = "hybrid"
         /\ Gate(q) = 3 => Route(q).provider = "xai"
         /\ Gate(q) = 4 => Route(q).provider = "firecrawl"
         /\ Gate(q) = 5 => /\ Route(q).provider = RULES[TopRule(q)].provider
                           /\ Route(q).topic = RULES[TopRule(q)].topic
                           /\ Route(q).provider \in {"tavily", "firecrawl"}
         /\ Gate(q) = 1 => Route(q).provider = (IF q.provider.word = "social" THEN "xai"
                                                ELSE q.provider.word)
<1> DEFINE r == Route(q)
           top == RULES[TopRule(q)]
           p1 == IF q.provider.word = "social" THEN "xai" ELSE q.provider.word
           b5 == StrategyOf(q) \in {"balanced", "verify"} /\ top.provider \in {"tavily", "firecrawl"}
<1>1. top.provider \in {"tavily", "firecrawl"}
  BY AnyRule, TopRuleIs, Zenon DEF Matching
<1>2. Gate(q) = 1 \/ Gate(q) = 2 \/ Gate(q) = 3 \/ Gate(q) = 4 \/ Gate(q) = 5
  BY GateIs, Zenon
<1>3. /\ Gate(q) = 1 => Leads(r, p1, "none", FALSE)
      /\ Gate(q) = 2 => Leads(r, "hybrid", "none", FALSE)
      /\ Gate(q) = 3 => Leads(r, "xai", "none", FALSE)
      /\ Gate(q) = 4 => Leads(r, "firecrawl", "research", FALSE)
      /\ Gate(q) = 5 => Leads(r, top.provider, top.topic, b5)
  BY RouteByGate, ToLeads, Zenon
<1>4. b5 \in BOOLEAN /\ (b5 => top.provider \in {"tavily", "firecrawl"})
  BY Zenon
<1>5. Gate(q) \in 1..5
  BY <1>2
<1> HIDE DEF r, top, p1, b5
<1>6. Gate(q) = 1 => r.provider = p1
  BY <1>3, Zenon DEF Leads
<1>7. Gate(q) = 2 => r.provider = "hybrid"
  BY <1>3, Zenon DEF Leads
<1>8. Gate(q) = 3 => r.provider = "xai"
  BY <1>3, Zenon DEF Leads
<1>9. Gate(q) = 4 => r.provider = "firecrawl"
  BY <1>3, Zenon DEF Leads
<1>10. Gate(q) = 5 => r.provider = top.provider /\ r.topic = top.topic
  BY <1>3, Zenon DEF Leads
<1>11. r.hybrid \in BOOLEAN /\ (r.hybrid <=> r.provider = "hybrid")
  BY <1>2, <1>3, Zenon DEF Leads
<1>12. r.blend \in BOOLEAN /\ (r.blend => r.provider \in {"tavily", "firecrawl"})
  BY <1>2, <1>3, <1>4, Zenon DEF Leads
<1> QED BY <1>1, <1>5, <1>6, <1>7, <1>8, <1>9, <1>10, <1>11, <1>12, Zenon
      DEF RouteOK, r, top, p1

-----------------------------------------------------------------------------
(* The plan, and whether it goes where the search asks.                      *)

\* The plan: the first of the pinned depth, the hybrid, the blend.
LEMMA PlanIs ==
  ASSUME NEW q, RouteOK(q)
  PROVE  /\ PlanOf(q).kind \in {"deep", "hybrid", "blend", "single"}
         /\ PlanOf(q).kind = "deep" => DeepCall(q)
         /\ PlanOf(q).kind = "hybrid" <=> ~DeepCall(q) /\ Route(q).hybrid
         /\ PlanOf(q).kind = "blend" => Route(q).blend
         /\ PlanOf(q).kind \in {"blend", "single"} =>
              PlanOf(q).primary = Route(q).provider /\ ~Route(q).hybrid
<1> DEFINE r == Route(q)
           k == PlanKind(q, r)
           a == DeepCall(q)
           b == r.hybrid
           c == r.blend
           p == Planned(k, r)
<1>1. a \in BOOLEAN
  BY Zenon DEF DeepCall
<1>2. b \in BOOLEAN /\ c \in BOOLEAN
  BY Zenon DEF RouteOK
<1>3. k = <<"deep", "hybrid", "blend", "single">>[FirstTrue(<<a, b, c>>)]
  BY Zenon DEF PlanKind
<1>4. PlanOf(q) = p
  BY Zenon DEF PlanOf
<1> HIDE DEF a, b, c, k, r
<1>5. FirstTrue(<<a, b, c>>) = IF a THEN 1 ELSE IF b THEN 2 ELSE IF c THEN 3 ELSE 4
  BY <1>1, <1>2, FirstOfThree, Zenon
<1> DEFINE w == <<"deep", "hybrid", "blend", "single">>
<1>6. w[1] = "deep" /\ w[2] = "hybrid" /\ w[3] = "blend" /\ w[4] = "single"
  OBVIOUS
<1> HIDE DEF w
<1>7. k = IF a THEN "deep" ELSE IF b THEN "hybrid" ELSE IF c THEN "blend" ELSE "single"
  BY <1>3, <1>5, <1>6, Zenon DEF w
<1>8. p.kind = k
  BY DEF Planned
<1>9. k \in {"blend", "single"} => p.primary = r.provider
  <2>1. ASSUME k \in {"blend", "single"} PROVE p = [kind |-> k, primary |-> r.provider]
    <3>1. k # "deep" /\ k # "hybrid"
      BY <2>1
    <3> QED BY <3>1, Zenon DEF Planned
  <2>2. [kind |-> k, primary |-> r.provider].primary = r.provider
    OBVIOUS
  <2> QED BY <2>1, <2>2, Zenon
<1> HIDE DEF p
<1>10. "deep" # "hybrid" /\ "deep" # "blend" /\ "hybrid" # "blend" /\ "single" # "deep"
       /\ "single" # "hybrid" /\ "single" # "blend"
  OBVIOUS
<1> QED BY <1>4, <1>7, <1>8, <1>9, <1>10, Zenon DEF r, a, b, c

\* What the gates ask of a search that stands for b.
GatesSay(q, b) ==
  /\ Pinned(q.provider) <=> Wanted(b.provider) # "any"
  /\ Word(q.mode) = "web" <=> Wanted(b.mode) = "web"
  /\ Word(q.mode) = "social" <=> Wanted(b.mode) = "social"
  /\ SourcesOf(q) = IF Wanted(b.mode) = "web" THEN {"web"} ELSE SourceWords(q.sources)

\* The gates read off a canonical form what its body asks.
LEMMA GatesTell ==
  ASSUME NEW b, Fit(b), NEW q, StandsFor(q, b)
  PROVE  GatesSay(q, b)
<1>1. KnobTells(q.mode, b.mode) /\ KnobTells(q.provider, b.provider)
  BY KnobsTell, Zenon
<1>2. /\ "web" # "any" /\ "social" # "any" /\ "web" \notin {"none", "auto"}
      /\ "social" \notin {"none", "auto"}
  OBVIOUS
<1>3. Pinned(q.provider) <=> Wanted(b.provider) # "any"
  BY <1>1, Zenon DEF KnobTells
<1>4. Word(q.mode) = "web" <=> Wanted(b.mode) = "web"
  BY <1>1, <1>2, Zenon DEF KnobTells
<1>5. Word(q.mode) = "social" <=> Wanted(b.mode) = "social"
  BY <1>1, <1>2, Zenon DEF KnobTells
<1>6. SourcesOf(q) = IF Wanted(b.mode) = "web" THEN {"web"} ELSE SourceWords(q.sources)
  BY <1>4, Zenon DEF SourcesOf, SourceWords
<1> QED BY <1>3, <1>4, <1>5, <1>6, Zenon DEF GatesSay

\* A search goes where its body asks.
LEMMA GoesRight ==
  ASSUME NEW b, Fit(b), NEW q, StandsFor(q, b)
  PROVE  GoesWhereAsked(b, Route(q), PlanOf(q))
<1> DEFINE r == Route(q)
           p == PlanOf(q)
           S == SourcesOf(q)
           wants == Wanted(b.provider)
           mode == Wanted(b.mode)
           web == Named(b, {"web"})
           news == Named(b, {"news"})
           images == Named(b, {"images"})
           social == Named(b, {"x", "social"})
           x == mode = "social" \/ social
<1>1. GatesSay(q, b) /\ SourcesSay(q, b)
  BY GatesTell, SourcesTellNames, Zenon
<1>2. Matching(q) # {}
  BY IntentIsKnown, Zenon
<1>3. RouteOK(q)
  BY <1>2, RouteIsOK, Zenon
<1>4. CASE wants # "any"
  <2>1. Pinned(q.provider)
    BY <1>1, <1>4, Zenon DEF GatesSay
  <2>2. Gate(q) = 1
    BY <2>1, GateIs, Zenon
  <2>3. q.provider.word = wants
    BY <1>4, KnobsTell, Zenon DEF KnobTells
  <2>4. r.provider = IF wants = "social" THEN "xai" ELSE wants
    BY <1>2, <2>2, <2>3, RouteIsOK, Zenon
  <2> QED BY <1>4, <2>4, Zenon DEF GoesWhereAsked
<1>5. CASE wants = "any" /\ mode = "web"
  <2>1. S = {"web"} /\ ~Pinned(q.provider) /\ Word(q.mode) # "social"
    <3>1. "web" # "social"
      OBVIOUS
    <3> QED BY <1>1, <1>5, <3>1, Zenon DEF GatesSay
  <2>2. ~HybridAsked(q)
    BY <2>1 DEF HybridAsked
  <2>3. ~XAsked(q)
    BY <2>1 DEF XAsked
  <2>4. Gate(q) \in {4, 5}
    BY <2>1, <2>2, <2>3, GateIs
  <2>5. r.provider \in {"tavily", "firecrawl"}
    BY <1>2, <2>4, RouteIsOK, Zenon
  <2>6. r.hybrid = FALSE
    <3>1. r.provider # "hybrid"
      BY <2>5
    <3> QED BY <1>3, <3>1, Zenon DEF RouteOK
  <2>7. ~DeepCall(q)
    <3>1. Word(q.provider) \in {"none", "auto"}
      BY <2>1, Zenon DEF Pinned
    <3>2. Word(q.provider) # "exa"
      BY <3>1
    <3> QED BY <3>2, Zenon DEF DeepCall
  <2>8. p.kind \in {"blend", "single"}
    BY <1>3, <2>6, <2>7, PlanIs, Zenon
  <2>9. p.primary = r.provider
    BY <1>3, <2>8, PlanIs, Zenon
  <2>10. OnTheWeb(p) /\ ~r.hybrid
    BY <2>5, <2>6, <2>9, Zenon DEF OnTheWeb
  <2> QED BY <1>5, <2>10, Zenon DEF GoesWhereAsked
<1>6. CASE wants = "any" /\ mode # "web" /\ x
  <2>1. S = SourceWords(q.sources) /\ ~Pinned(q.provider)
    BY <1>1, <1>6, Zenon DEF GatesSay
  <2>2. HybridAsked(q) <=> web /\ social
    <3>1. ("web" \in S <=> web) /\ ("x" \in S <=> social)
      BY <1>1, <2>1, Zenon DEF SourcesSay
    <3>2. {"web", "x"} \subseteq S <=> "web" \in S /\ "x" \in S
      BY Zenon
    <3> QED BY <3>1, <3>2, Zenon DEF HybridAsked
  <2>3. CASE web /\ social
    <3>1. Gate(q) = 2
      BY <2>1, <2>2, <2>3, GateIs, Zenon
    <3>2. r.hybrid = TRUE
      BY <1>2, <1>3, <3>1, RouteIsOK, Zenon DEF RouteOK
    <3> QED BY <1>6, <2>3, <3>2, Zenon DEF GoesWhereAsked
  <2>4. CASE ~(web /\ social)
    <3>1. XAsked(q)
      <4>1. CASE mode = "social"
        BY <1>1, <4>1, Zenon DEF GatesSay, XAsked
      <4>2. CASE social
        <5>1. "x" \in S
          BY <1>1, <2>1, <4>2, Zenon DEF SourcesSay
        <5> QED BY <5>1, Zenon DEF XAsked
      <4> QED BY <1>6, <4>1, <4>2, Zenon
    <3>2. Gate(q) = 3
      BY <2>1, <2>2, <2>4, <3>1, GateIs, Zenon
    <3>3. r.provider = "xai"
      BY <1>2, <3>2, RouteIsOK, Zenon
    <3> QED BY <1>6, <2>4, <3>3, Zenon DEF GoesWhereAsked
  <2> QED BY <2>3, <2>4
<1>7. CASE wants = "any" /\ mode # "web" /\ ~x /\ (news \/ images)
  <2>1. S = SourceWords(q.sources) /\ ~Pinned(q.provider) /\ Word(q.mode) # "social"
    BY <1>1, <1>7, Zenon DEF GatesSay
  <2>2. /\ "x" \notin S /\ "social" \notin S
        /\ ("news" \in S <=> news) /\ ("images" \in S <=> images)
    BY <1>1, <1>7, <2>1, Zenon DEF SourcesSay
  <2>3. ~HybridAsked(q)
    BY <2>2, Zenon DEF HybridAsked
  <2>4. S # {}
    BY <1>7, <2>2, Zenon
  <2>5. ~XAsked(q)
    BY <2>1, <2>2, <2>4, Zenon DEF XAsked
  <2>6. ~ContentAsked(q)
    BY <1>7, <2>2, Zenon DEF ContentAsked
  <2>7. Gate(q) = 5
    BY <2>1, <2>3, <2>5, <2>6, GateIs, Zenon
  <2> DEFINE top == RULES[TopRule(q)]
  <2>8. r.provider = top.provider /\ r.topic = top.topic
    BY <1>2, <2>7, RouteIsOK, Zenon
  <2>9. \/ news /\ r.provider = "tavily" /\ r.topic = "news"
        \/ images /\ r.provider = "firecrawl" /\ r.topic = "images"
    BY <1>7, <2>2, <2>8, NamedRuleWins, Zenon
  <2>10. <<r.provider, r.topic>> \in
           (IF news THEN {<<"tavily", "news">>} ELSE {})
           \cup (IF images THEN {<<"firecrawl", "images">>} ELSE {})
    BY <2>9, Zenon
  <2> QED BY <1>7, <2>10, Zenon DEF GoesWhereAsked
<1>8. CASE wants = "any" /\ mode # "web" /\ ~x /\ ~(news \/ images)
  <2>1. ~Pinned(q.provider)
    BY <1>1, <1>8, Zenon DEF GatesSay
  <2>2. Gate(q) \in {2, 3, 4, 5}
    BY <2>1, GateIs
  <2>3. r.provider \in {"hybrid", "xai", "tavily", "firecrawl"}
    BY <1>2, <2>2, RouteIsOK, Zenon
  <2>4. r.provider # "unreachable"
    BY <2>3
  <2> QED BY <1>8, <2>4, Zenon DEF GoesWhereAsked
<1> QED BY <1>4, <1>5, <1>6, <1>7, <1>8, Zenon

\* No entries, no names.
LEMMA NoNames == Names(<<>>) = <<>> /\ FoldList(<<>>) = <<>>
<1>1. <<>> \in Seq(FilterEntries)
  OBVIOUS
<1>2. Names(<<>>) \in Seq(STRING) /\ FoldList(<<>>) \in Seq(FilterEntries)
      /\ Len(FoldList(<<>>)) = Len(Names(<<>>))
  BY <1>1, FoldListIs, Zenon
<1>3. ASSUME NEW k \in 1..Len(Names(<<>>)) PROVE FALSE
  <2>1. \E i \in DOMAIN <<>> : TRUE
    BY <1>1, FoldListIs, Zenon
  <2> QED BY <2>1
<1>4. Len(Names(<<>>)) = 0
  BY <1>2, <1>3
<1> QED BY <1>2, <1>4

\* The web leg of a research stays on the web.
LEMMA WebLegGoesRight ==
  ASSUME NEW b, Fit(b), NEW q, StandsFor(q, b),
         b.mode = Absent, b.provider = Absent, b.sources = <<>>, b.handles = <<>>
  PROVE  OnTheWeb(PlanOf(q))
<1> DEFINE r == Route(q)
           p == PlanOf(q)
<1>1. GatesSay(q, b) /\ Matching(q) # {}
  BY GatesTell, IntentIsKnown, Zenon
<1>2. RouteOK(q)
  BY <1>1, RouteIsOK, Zenon
<1>3. ~Said(Absent)
  BY DEF Said, Absent
<1>4. Wanted(Absent) = "any" /\ "any" # "web" /\ "any" # "social"
  BY <1>3 DEF Wanted
<1>5. ~Pinned(q.provider) /\ Word(q.mode) # "social"
  BY <1>1, <1>4, Zenon DEF GatesSay
<1>6. q.sources = <<>>
  <2>1. b.sources \in Seq(SourceTexts) /\ ~SourceRefused(b.sources) /\ q.sources = FoldSources(b.sources)
    BY Zenon DEF Fit, Typed, SearchAccepted, StandsFor
  <2>2. DOMAIN <<>> = {}
    OBVIOUS
  <2>3. ~AnySaid(b.sources)
    BY <2>2, Zenon DEF AnySaid
  <2> QED BY <2>1, <2>3, FoldSourcesIs, Zenon
<1>7. q.handles = <<>>
  <2>1. q.handles = FoldList(<<>>) /\ <<>> \in Seq(FilterEntries)
    BY Zenon DEF StandsFor, Fit, Typed
  <2>2. Names(<<>>) = <<>> /\ FoldList(<<>>) = <<>>
    BY NoNames
  <2> QED BY <2>1, <2>2, Zenon
<1>8. SourcesOf(q) = {}
  <2>1. DOMAIN <<>> = {}
    OBVIOUS
  <2>2. SourceWords(<<>>) = {}
    BY <2>1, Zenon DEF SourceWords
  <2> QED BY <1>1, <1>4, <1>6, <2>2, Zenon DEF GatesSay
<1>9. ~HybridAsked(q)
  BY <1>8, Zenon DEF HybridAsked
<1>10. ~XAsked(q)
  BY <1>5, <1>7, <1>8, Zenon DEF XAsked
<1>11. Gate(q) \in {4, 5}
  BY <1>5, <1>9, <1>10, GateIs
<1>12. r.provider \in {"tavily", "firecrawl"}
  BY <1>1, <1>11, RouteIsOK, Zenon
<1>13. r.hybrid = FALSE
  <2>1. r.provider # "hybrid"
    BY <1>12
  <2> QED BY <1>2, <2>1, Zenon DEF RouteOK
<1>14. ~DeepCall(q)
  <2>1. Word(q.provider) \in {"none", "auto"}
    BY <1>5, Zenon DEF Pinned
  <2>2. Word(q.provider) # "exa"
    BY <2>1
  <2> QED BY <2>2, Zenon DEF DeepCall
<1>15. p.kind \in {"blend", "single"}
  BY <1>2, <1>13, <1>14, PlanIs, Zenon
<1>16. p.primary = r.provider
  BY <1>2, <1>15, PlanIs, Zenon
<1> QED BY <1>12, <1>16, Zenon DEF OnTheWeb

-----------------------------------------------------------------------------
(* The calls a search leads to.                                             *)

\* The clients that a leg can dial.
Vendors == {"tavily", "firecrawl", "exa", "xai", "exa-deep"}

\* A leg goes to vendors, and the social half of a hybrid to X alone.
LegOK(q, leg) ==
  /\ \A i \in DOMAIN leg.chain : leg.chain[i] \in Vendors
  /\ leg.social \in BOOLEAN
  /\ leg.social => /\ \A i \in DOMAIN leg.chain : leg.chain[i] = "xai"
                   /\ leg.sources = {"x"} /\ Route(q).hybrid
  /\ Route(q).hybrid /\ ~leg.social => \A i \in DOMAIN leg.chain : leg.chain[i] # "xai"

\* A chain of fallbacks names clients.
LEMMA ChainIs ==
  ASSUME NEW v, NEW i \in DOMAIN FallbackChain(v)
  PROVE  FallbackChain(v)[i] \in Vendors /\ (v = "tavily" => FallbackChain(v)[i] # "xai")
<1>1. /\ \A j \in DOMAIN <<"firecrawl", "exa", "tavily">> :
           <<"firecrawl", "exa", "tavily">>[j] \in Vendors
      /\ \A j \in DOMAIN <<"exa", "firecrawl", "tavily">> :
           <<"exa", "firecrawl", "tavily">>[j] \in Vendors
      /\ \A j \in DOMAIN <<"xai">> : <<"xai">>[j] \in Vendors
      /\ \A j \in DOMAIN <<"tavily", "exa", "firecrawl">> :
           <<"tavily", "exa", "firecrawl">>[j] \in Vendors
  BY DEF Vendors
<1>4. \A j \in DOMAIN <<"tavily", "exa", "firecrawl">> :
        <<"tavily", "exa", "firecrawl">>[j] # "xai"
  OBVIOUS
<1>5. v = "tavily" => FallbackChain(v) = <<"tavily", "exa", "firecrawl">>
  <2>1. "tavily" # "firecrawl" /\ "tavily" # "exa" /\ "tavily" # "xai"
    OBVIOUS
  <2> QED BY <2>1, Zenon DEF FallbackChain
<1>2. "firecrawl" # "exa" /\ "firecrawl" # "xai" /\ "exa" # "xai"
  OBVIOUS
<1>3. FallbackChain(v) \in {<<"firecrawl", "exa", "tavily">>, <<"exa", "firecrawl", "tavily">>,
                            <<"xai">>, <<"tavily", "exa", "firecrawl">>}
  <2>1. CASE v = "firecrawl"
    BY <1>2, <2>1, Zenon DEF FallbackChain
  <2>2. CASE v = "exa"
    BY <1>2, <2>2, Zenon DEF FallbackChain
  <2>3. CASE v = "xai"
    BY <1>2, <2>3, Zenon DEF FallbackChain
  <2>4. CASE v # "firecrawl" /\ v # "exa" /\ v # "xai"
    BY <2>4, Zenon DEF FallbackChain
  <2> QED BY <2>1, <2>2, <2>3, <2>4, Zenon
<1>6. FallbackChain(v)[i] \in Vendors
  BY <1>1, <1>3, Zenon
<1>7. v = "tavily" => FallbackChain(v)[i] # "xai"
  BY <1>4, <1>5, Zenon
<1> QED BY <1>6, <1>7

\* The legs, one of the web and one social.
LEMMA PlainLeg ==
  ASSUME NEW q, NEW chain, \A i \in DOMAIN chain : chain[i] \in Vendors, NEW sources,
         Route(q).hybrid => \A i \in DOMAIN chain : chain[i] # "xai"
  PROVE  LegOK(q, Leg(chain, sources, FALSE))
<1> DEFINE leg == Leg(chain, sources, FALSE)
<1>1. leg.chain = chain
  BY SMT DEF Leg
<1>2. leg.social = FALSE
  BY SMT DEF Leg
<1> HIDE DEF leg
<1> QED BY <1>1, <1>2, Zenon DEF LegOK, leg

LEMMA SocialLeg ==
  ASSUME NEW q, Route(q).hybrid
  PROVE  LegOK(q, Leg(<<"xai">>, {"x"}, TRUE))
<1> DEFINE leg == Leg(<<"xai">>, {"x"}, TRUE)
<1>1. leg.chain = <<"xai">>
  BY SMT DEF Leg
<1>2. leg.social = TRUE
  BY SMT DEF Leg
<1>3. leg.sources = {"x"}
  BY SMT DEF Leg
<1> HIDE DEF leg
<1>4. \A i \in DOMAIN <<"xai">> : <<"xai">>[i] = "xai"
  OBVIOUS
<1>5. "xai" \in Vendors
  BY DEF Vendors
<1> QED BY <1>1, <1>2, <1>3, <1>4, <1>5, Zenon DEF LegOK, leg

\* Every leg of a plan: only the social half of a hybrid is social, and it
\* dials X, as no other leg of a hybrid does.
LEMMA LegsAre ==
  ASSUME NEW q, RouteOK(q), NEW l \in DOMAIN LegsOf(q, PlanOf(q))
  PROVE  LegOK(q, LegsOf(q, PlanOf(q))[l])
<1> DEFINE p == PlanOf(q)
           legs == LegsOf(q, p)
           Lone(v) == Leg(<<v>>, RouteSources(q), FALSE)
           other == IF p.primary = "firecrawl" THEN "tavily" ELSE "firecrawl"
           third == IF Route(q).strategy = "verify" THEN <<Lone("exa")>> ELSE <<>>
<1>1. ASSUME NEW v \in Vendors, v # "xai" PROVE LegOK(q, Lone(v))
  <2>1. \A i \in DOMAIN <<v>> : <<v>>[i] = v
    OBVIOUS
  <2>2. \A i \in DOMAIN <<v>> : <<v>>[i] \in Vendors /\ <<v>>[i] # "xai"
    BY <1>1, <2>1, Zenon
  <2> QED BY <2>2, PlainLeg, Zenon
<1>2. "exa" \in Vendors /\ "tavily" \in Vendors /\ "firecrawl" \in Vendors
  BY DEF Vendors
<1>3. /\ "deep" # "hybrid" /\ "deep" # "blend" /\ "deep" # "single" /\ "hybrid" # "blend"
      /\ "hybrid" # "single" /\ "blend" # "single"
  OBVIOUS
<1>4. CASE p.kind = "deep"
  <2> DEFINE a == Leg(<<"exa-deep">>, {}, FALSE)
  <2>1. legs = <<a>>
    BY <1>3, <1>4, Zenon DEF LegsOf
  <2>2. \A i \in DOMAIN <<"exa-deep">> : <<"exa-deep">>[i] \in Vendors /\ <<"exa-deep">>[i] # "xai"
    BY DEF Vendors
  <2>3. LegOK(q, a)
    BY <2>2, PlainLeg, Zenon
  <2> HIDE DEF legs, a
  <2>4. l \in DOMAIN legs
    BY Zenon DEF legs
  <2>5. legs[l] = a
    BY <2>1, <2>4
  <2> QED BY <2>3, <2>5, Zenon DEF legs
<1>5. CASE p.kind = "hybrid"
  <2> DEFINE a == Leg(FallbackChain("tavily"), {"web"}, FALSE)
             b == Leg(<<"xai">>, {"x"}, TRUE)
  <2>1. legs = <<a, b>>
    BY <1>3, <1>5, Zenon DEF LegsOf
  <2>2. LegOK(q, a)
    BY ChainIs, PlainLeg, Zenon
  <2>3. LegOK(q, b)
    BY <1>5, PlanIs, SocialLeg, Zenon
  <2> HIDE DEF legs, a, b
  <2>4. l \in DOMAIN legs
    BY Zenon DEF legs
  <2>5. legs[l] = a \/ legs[l] = b
    BY <2>1, <2>4
  <2> QED BY <2>2, <2>3, <2>5, Zenon DEF legs
<1>6. CASE p.kind = "blend"
  <2> DEFINE a == Lone(p.primary)
             b == Lone(other)
             c == Lone("exa")
  <2>1. legs = <<a, b>> \o third
    BY <1>3, <1>6, Zenon DEF LegsOf
  <2>2. p.primary = Route(q).provider /\ Route(q).blend
    BY <1>6, PlanIs, Zenon
  <2>3. p.primary \in {"tavily", "firecrawl"}
    BY <2>2, Zenon DEF RouteOK
  <2>4. p.primary \in Vendors /\ other \in Vendors
    BY <1>2, <2>3, Zenon
  <2>9. p.primary # "xai" /\ other # "xai" /\ "exa" # "xai"
    BY <2>3
  <2>5. LegOK(q, a) /\ LegOK(q, b) /\ LegOK(q, c)
    BY <1>1, <1>2, <2>4, <2>9, Zenon
  <2>6. third = <<>> \/ third = <<c>>
    BY Zenon
  <2> HIDE DEF legs, a, b, c, third
  <2>7. l \in DOMAIN legs
    BY Zenon DEF legs
  <2>8. legs[l] = a \/ legs[l] = b \/ legs[l] = c
    <3>1. CASE third = <<>>
      BY <2>1, <2>7, <3>1
    <3>2. CASE third = <<c>>
      BY <2>1, <2>7, <3>2
    <3> QED BY <2>6, <3>1, <3>2, Zenon
  <2> QED BY <2>5, <2>8, Zenon DEF legs
<1>7. CASE p.kind = "single"
  <2> DEFINE a == Leg(FallbackChain(p.primary), RouteSources(q), FALSE)
  <2>1. legs = <<a>>
    BY <1>3, <1>7, Zenon DEF LegsOf
  <2>2. LegOK(q, a)
    BY <1>7, ChainIs, PlainLeg, PlanIs, Zenon
  <2> HIDE DEF legs, a
  <2>3. l \in DOMAIN legs
    BY Zenon DEF legs
  <2>4. legs[l] = a
    BY <2>1, <2>3
  <2> QED BY <2>2, <2>4, Zenon DEF legs
<1> QED BY <1>4, <1>5, <1>6, <1>7, PlanIs, Zenon

\* What a search hands a vendor, and what goes to whom.
DialIs(q, d) ==
  /\ d.vendor \in Vendors /\ d.params = Params(q, d.leg, d.vendor)
  /\ d.leg.social \in BOOLEAN
  /\ d.leg.social => d.vendor = "xai" /\ d.leg.sources = {"x"} /\ Route(q).hybrid
  /\ Route(q).hybrid /\ d.vendor = "xai" => d.leg.social

\* Every call of a search is one client of the chain of one leg.
LEMMA DialsAre ==
  ASSUME NEW q, RouteOK(q), NEW l \in DOMAIN CallsOf(q), NEW d \in CallsOf(q)[l]
  PROVE  DialIs(q, d)
<1> DEFINE legs == LegsOf(q, PlanOf(q))
           D(leg) == {[vendor |-> leg.chain[i], leg |-> leg, params |-> Params(q, leg, leg.chain[i])] :
                        i \in DOMAIN leg.chain}
<1>1. CallsOf(q) = [m \in DOMAIN legs |-> D(legs[m])]
  BY Zenon DEF CallsOf, CallsOfLegs
<1>2. l \in DOMAIN legs /\ d \in D(legs[l])
  BY <1>1, Zenon
<1>3. LegOK(q, legs[l])
  BY <1>2, LegsAre, Zenon
<1> DEFINE leg == legs[l]
<1>4. PICK i \in DOMAIN leg.chain :
        d = [vendor |-> leg.chain[i], leg |-> leg, params |-> Params(q, leg, leg.chain[i])]
  BY <1>2, Zenon
<1> HIDE DEF legs, leg
<1>5. d.vendor = leg.chain[i] /\ d.leg = leg /\ d.params = Params(q, leg, leg.chain[i])
  BY <1>4
<1> QED BY <1>3, <1>4, <1>5, Zenon DEF DialIs, LegOK, leg

-----------------------------------------------------------------------------
(* What a vendor is told.                                                   *)

\* What a leg of q hands a vendor.
HandsOver(q, d) ==
  LET p == d.params
  IN /\ p.domains = (IF d.leg.social THEN <<>> ELSE q.domains)
     /\ p.handles = q.handles /\ p.sources = d.leg.sources
     /\ p.content <=> q.content = "yes" /\ ~d.leg.social
     /\ p.raw <=> q.raw /\ ~(d.vendor = "xai" /\ Route(q).hybrid)
     /\ p.depth = (IF Word(q.depth) \in DeepModes /\ d.vendor # "exa-deep" THEN "none"
                   ELSE Word(q.depth))
     /\ p.from = q.from /\ p.range = Word(q.range) /\ p.country = q.country

\* A leg hands over no more than its search says.
LEMMA HandedOver ==
  ASSUME NEW q, q.raw \in BOOLEAN, NEW d, DialIs(q, d)
  PROVE  HandsOver(q, d)
<1> DEFINE leg == d.leg
           v == d.vendor
           k == LegParams(q, leg, v)
           p == d.params
           w == Word(q.depth)
<1>1. p = [k EXCEPT !.raw = @ /\ ~(v = "xai" /\ Route(q).hybrid)]
  BY Zenon DEF DialIs, Params
<1>2. k = [sources |-> leg.sources, domains |-> IF leg.social THEN <<>> ELSE q.domains,
           handles |-> q.handles, content |-> q.content = "yes" /\ ~leg.social,
           raw |-> q.raw, depth |-> IF w \in DeepModes /\ v # "exa-deep" THEN "none" ELSE w,
           from |-> q.from, range |-> Word(q.range), country |-> q.country]
  BY Zenon DEF LegParams
<1> DEFINE h == Route(q).hybrid
           dom == IF leg.social THEN <<>> ELSE q.domains
           cont == q.content = "yes" /\ ~leg.social
           dep == IF w \in DeepModes /\ v # "exa-deep" THEN "none" ELSE w
           rng == Word(q.range)
           raw == q.raw /\ ~(v = "xai" /\ h)
<1>3. k.raw = q.raw
  BY <1>2
<1>4. p = [k EXCEPT !.raw = raw]
  BY <1>1, <1>3, Zenon
<1> HIDE DEF p, k, leg, v, h, dom, cont, dep, rng, raw, w
<1>5. k = [sources |-> leg.sources, domains |-> dom, handles |-> q.handles, content |-> cont,
           raw |-> q.raw, depth |-> dep, from |-> q.from, range |-> rng, country |-> q.country]
  BY <1>2, Zenon DEF dom, cont, dep, rng
<1>6. p.sources = leg.sources
  BY <1>4, <1>5
<1>7. p.domains = dom
  BY <1>4, <1>5
<1>8. p.handles = q.handles
  BY <1>4, <1>5
<1>9. p.content = cont
  BY <1>4, <1>5
<1>10. p.raw = raw
  BY <1>4, <1>5
<1>11. p.depth = dep
  BY <1>4, <1>5
<1>12. p.from = q.from
  BY <1>4, <1>5
<1>13. p.range = rng
  BY <1>4, <1>5
<1>14. p.country = q.country
  BY <1>4, <1>5
<1> QED BY <1>6, <1>7, <1>8, <1>9, <1>10, <1>11, <1>12, <1>13, <1>14, Zenon
      DEF HandsOver, p, leg, v, dom, cont, dep, raw, rng, h, w

\* What each client makes of its parameters.
SendsIs(v, p, wire) ==
  /\ wire.domains = p.domains
  /\ wire.window = (IF v = "firecrawl" THEN FirecrawlWindow(p) ELSE DatesFirst(p))
  /\ v = "tavily" => /\ wire.country = TavilyCountry(p.country)
                     /\ wire.content <=> p.content \/ p.raw
                     /\ wire.depth = (IF p.depth = "none" THEN "basic" ELSE p.depth)
  /\ v = "firecrawl" => /\ wire.country = FirecrawlCountry(p.country)
                        /\ wire.content <=> p.content
  /\ v = "exa" => (wire.content <=> p.content)
  /\ v = "exa-deep" => /\ wire.content = TRUE
                       /\ wire.depth = (IF p.depth \in DeepModes THEN p.depth ELSE "deep-lite")
  /\ v \in {"exa", "exa-deep", "xai"} => wire.country = NoCountry
  /\ v \in {"firecrawl", "exa", "xai"} => wire.depth = "none"
  /\ v # "xai" => wire.handles = <<>>
  /\ v = "xai" => /\ wire.content = FALSE
                  /\ wire.about = (IF "x" \in p.sources THEN {"x"} ELSE {"web"})
                  /\ wire.handles = (IF "x" \in p.sources THEN p.handles ELSE <<>>)

VendorNames ==
  /\ "tavily" # "firecrawl" /\ "tavily" # "exa" /\ "tavily" # "xai" /\ "tavily" # "exa-deep"
  /\ "firecrawl" # "exa" /\ "firecrawl" # "xai" /\ "firecrawl" # "exa-deep"
  /\ "exa" # "xai" /\ "exa" # "exa-deep" /\ "xai" # "exa-deep"

LEMMA NamesDiffer == VendorNames
BY SMT DEF VendorNames

\* What each client sends.
LEMMA SendsAre ==
  ASSUME NEW v \in Vendors, NEW p
  PROVE  SendsIs(v, p, Sends(v, p))
<1> DEFINE df == DatesFirst(p)
           fw == FirecrawlWindow(p)
           tc == TavilyCountry(p.country)
           fc == FirecrawlCountry(p.country)
           cr == p.content \/ p.raw
           dp == IF p.depth = "none" THEN "basic" ELSE p.depth
           ab == IF "x" \in p.sources THEN {"x"} ELSE {"web"}
           ha == IF "x" \in p.sources THEN p.handles ELSE <<>>
           fa == IF p.sources = {} THEN {"web"} ELSE p.sources
           ed == IF p.depth \in DeepModes THEN p.depth ELSE "deep-lite"
           wire == Sends(v, p)
<1>1. CASE v = "tavily"
  <2>1. wire = [about |-> {"web"}, domains |-> p.domains, handles |-> <<>>, window |-> df,
                country |-> tc, content |-> cr, depth |-> dp]
    BY <1>1, NamesDiffer, Zenon DEF VendorNames, Sends, TavilySends
  <2> HIDE DEF df, tc, cr, dp, wire
  <2>2. wire.domains = p.domains /\ wire.window = df
    BY <2>1
  <2>3. wire.country = tc /\ wire.depth = dp
    BY <2>1
  <2>4. wire.content = cr /\ wire.handles = <<>>
    BY <2>1
  <2> QED BY <1>1, <2>2, <2>3, <2>4, NamesDiffer, Zenon
        DEF VendorNames, SendsIs, df, tc, cr, dp, wire
<1>2. CASE v = "firecrawl"
  <2>1. wire = [about |-> fa, domains |-> p.domains, handles |-> <<>>, window |-> fw,
                country |-> fc, content |-> p.content, depth |-> "none"]
    BY <1>2, NamesDiffer, Zenon DEF VendorNames, Sends, FirecrawlSends
  <2> HIDE DEF fw, fc, fa, wire
  <2>2. wire.domains = p.domains /\ wire.window = fw
    BY <2>1
  <2>3. wire.country = fc /\ wire.content = p.content
    BY <2>1
  <2>4. wire.depth = "none" /\ wire.handles = <<>>
    BY <2>1
  <2> QED BY <1>2, <2>2, <2>3, <2>4, NamesDiffer, Zenon DEF VendorNames, SendsIs, fw, fc, wire
<1>3. CASE v = "exa"
  <2>1. wire = [about |-> {"web"}, domains |-> p.domains, handles |-> <<>>, window |-> df,
                country |-> NoCountry, content |-> p.content, depth |-> "none"]
    BY <1>3, NamesDiffer, Zenon DEF VendorNames, Sends, ExaSends
  <2> HIDE DEF df, wire
  <2>2. wire.domains = p.domains /\ wire.window = df
    BY <2>1
  <2>3. wire.content = p.content
    BY <2>1
  <2>4. wire.depth = "none" /\ wire.handles = <<>> /\ wire.country = NoCountry
    BY <2>1
  <2> QED BY <1>3, <2>2, <2>3, <2>4, NamesDiffer, Zenon DEF VendorNames, SendsIs, df, wire
<1>4. CASE v = "exa-deep"
  <2>1. wire = [[about |-> {"web"}, domains |-> p.domains, handles |-> <<>>, window |-> df,
                 country |-> NoCountry, content |-> p.content, depth |-> "none"]
                  EXCEPT !.content = TRUE, !.depth = ed]
    BY <1>4, NamesDiffer, Zenon DEF VendorNames, Sends, DeepSends, ExaSends
  <2> HIDE DEF df, ed, wire
  <2>2. wire.domains = p.domains /\ wire.window = df
    BY <2>1
  <2>3. wire.content = TRUE
    BY <2>1
  <2>4. wire.depth = ed /\ wire.handles = <<>> /\ wire.country = NoCountry
    BY <2>1
  <2> QED BY <1>4, <2>2, <2>3, <2>4, NamesDiffer, Zenon DEF VendorNames, SendsIs, df, ed, wire
<1>5. CASE v = "xai"
  <2>1. wire = [about |-> ab, domains |-> p.domains, handles |-> ha, window |-> df,
                country |-> NoCountry, content |-> FALSE, depth |-> "none"]
    BY <1>5, NamesDiffer, Zenon DEF VendorNames, Sends, XaiSends
  <2> HIDE DEF df, ab, ha, wire
  <2>2. wire.domains = p.domains /\ wire.window = df
    BY <2>1
  <2>3. wire.content = FALSE /\ wire.about = ab /\ wire.handles = ha
    BY <2>1
  <2>4. wire.depth = "none" /\ wire.country = NoCountry
    BY <2>1
  <2> QED BY <1>5, <2>2, <2>3, <2>4, NamesDiffer, Zenon DEF VendorNames, SendsIs, df, ab, ha, wire
<1> QED BY <1>1, <1>2, <1>3, <1>4, <1>5, Zenon DEF Vendors

-----------------------------------------------------------------------------
(* What a vendor hears, against what was meant.                             *)

\* A date is absent or has a text, and what is a civil date was said.
LEMMA DateSaid ==
  ASSUME NEW raw, Day(raw)
  PROVE  /\ raw.how = "absent" => raw = Absent
         /\ raw.word \in CivilDates => Said(raw)
<1>1. raw = [how |-> raw.how, word |-> raw.word] /\ (raw.how \in {"absent", "blank"} <=> raw.word = "")
  BY Zenon DEF Day, Knob
<1>2. ASSUME raw.how = "absent" PROVE raw = Absent
  <2>1. raw.word = ""
    BY <1>1, <1>2
  <2> QED BY <1>1, <1>2, <2>1, Zenon DEF Absent
<1>3. ASSUME raw.word \in CivilDates PROVE Said(raw)
  <2>1. raw.word # ""
    BY <1>3 DEF CivilDates
  <2> QED BY <1>1, <2>1, Zenon DEF Said
<1> QED BY <1>2, <1>3

\* Both ways of telling a window keep it.
LEMMA WindowsSay ==
  ASSUME NEW b, Fit(b), NEW p, p.from = FoldDate(b.from), p.range = Word(Sense(Span(b.range)))
  PROVE  /\ \A v : v # "firecrawl" => DatesFirst(p) = MeantWindow(b, v)
         /\ FirecrawlWindow(p) = MeantWindow(b, "firecrawl")
<1>1. Typed(b) /\ SearchAccepted(b) /\ Day(b.from) /\ Knob(b.range) /\ TimeRange(b.range) # "refused"
  BY Zenon DEF Fit, Typed, SearchAccepted
<1> DEFINE day == [form |-> "dates", word |-> b.from.word]
           range == IF Said(b.range) THEN [form |-> "range", word |-> Window[b.range.word]]
                    ELSE NoWindow
<1>2. ASSUME b.from # Absent
      PROVE  /\ p.from.how # "absent" /\ Dates(p) = day
             /\ p.from.how = "exact" \/ b.from.word \notin CivilDates
  <2>1. b.from.how # "absent"
    BY <1>1, <1>2, DateSaid, Zenon
  <2>2. b.from.word \in CivilDates => Said(b.from)
    BY <1>1, DateSaid, Zenon
  <2>3. "folded" # "absent" /\ "exact" # "absent" /\ Exact(b.from.word).how = "exact"
    BY DEF Exact
  <2>4. p.from.word = b.from.word /\ p.from.how # "absent"
    BY <1>1, <2>1, <2>3, DateIs, Zenon
  <2>5. Said(b.from) => p.from.how = "exact"
    BY <1>1, <2>3, DateIs, Zenon
  <2> QED BY <2>2, <2>4, <2>5, Zenon DEF Dates
<1>3. RangeOf(p) = IF Said(b.range) THEN [form |-> "range", word |-> Window[b.range.word]]
                   ELSE NoWindow
  <2>1. "any" \notin Ranges /\ "none" \notin Ranges /\ "exact" # "absent"
    BY DEF Ranges
  <2>2. CASE Said(b.range)
    <3>1. Span(b.range) = Window[b.range.word] /\ Span(b.range) \in Ranges
      BY <1>1, <2>2, RangeIs, Zenon DEF Span
    <3>2. Sense(Span(b.range)) = Exact(Span(b.range))
      BY <2>1, <3>1, Zenon DEF Sense
    <3>3. Exact(Span(b.range)).how = "exact" /\ Exact(Span(b.range)).word = Span(b.range)
      BY DEF Exact
    <3>4. p.range = Span(b.range)
      BY <2>1, <3>2, <3>3, Zenon DEF Word
    <3> QED BY <2>1, <2>2, <3>1, <3>4, Zenon DEF RangeOf
  <2>3. CASE ~Said(b.range)
    <3>1. Sense(Span(b.range)) = Absent
      BY <2>3, Zenon DEF Span, Sense
    <3>2. Absent.how = "absent"
      BY DEF Absent
    <3>3. p.range = "none"
      BY <3>1, <3>2, Zenon DEF Word
    <3> QED BY <2>3, <3>3, Zenon DEF RangeOf
  <2> QED BY <2>2, <2>3
<1>4. ASSUME b.from = Absent PROVE p.from.how = "absent"
  <2>1. Absent.how = "absent" /\ "absent" # "folded" /\ "absent" # "exact"
    BY DEF Absent
  <2> QED BY <1>1, <1>4, <2>1, DateIs, Zenon
<1> HIDE DEF day, range
<1>5. DatesFirst(p) = IF b.from # Absent THEN day ELSE range
  BY <1>2, <1>3, <1>4, Zenon DEF DatesFirst, range
<1>6. FirecrawlWindow(p) = IF b.from # Absent /\ b.from.word \in CivilDates THEN day ELSE range
  <2>1. CASE b.from = Absent
    <3>1. "absent" # "exact"
      OBVIOUS
    <3> QED BY <1>3, <1>4, <2>1, <3>1, Zenon DEF FirecrawlWindow, range
  <2>2. CASE b.from # Absent
    <3>1. p.from.word = b.from.word
      BY <1>1, DateIs, Zenon
    <3> QED BY <1>2, <1>3, <2>2, <3>1, Zenon DEF FirecrawlWindow, range
  <2> QED BY <2>1, <2>2
<1>7. \A v : v # "firecrawl" => MeantWindow(b, v) = IF b.from # Absent THEN day ELSE range
  BY Zenon DEF MeantWindow, day, range
<1>8. MeantWindow(b, "firecrawl") =
        IF b.from # Absent /\ b.from.word \in CivilDates THEN day ELSE range
  BY Zenon DEF MeantWindow, day, range
<1> QED BY <1>5, <1>6, <1>7, <1>8, Zenon

\* The depth a vendor is told.
LEMMA DepthsSay ==
  ASSUME NEW b, Fit(b), NEW v \in Vendors, NEW p, NEW wire, SendsIs(v, p, wire),
         p.depth = (IF Word(Chosen(b.depth)) \in DeepModes /\ v # "exa-deep" THEN "none"
                    ELSE Word(Chosen(b.depth)))
  PROVE  wire.depth = IF Said(b.depth) /\ TakesDepth(v, b.depth.word)
                      THEN b.depth.word ELSE UnaskedDepth(v)
<1> DEFINE w == Word(Chosen(b.depth))
<1>1. Said(b.depth) => b.depth.word \in VALID_DEPTHS
  <2>1. Depth(b.depth) # "refused"
    BY Zenon DEF Fit, SearchAccepted
  <2> QED BY <2>1, Zenon DEF Depth, Choice
<1>2. "none" \notin VALID_DEPTHS /\ "none" \notin DeepModes
  BY DEF VALID_DEPTHS, DeepModes
<1>3. Said(b.depth) => w = b.depth.word
  <2>1. Exact(b.depth.word).how = "exact" /\ Exact(b.depth.word).word = b.depth.word /\ "exact" # "absent"
    BY DEF Exact
  <2> QED BY <2>1, Zenon DEF Chosen, Word
<1>4. ~Said(b.depth) => w = "none"
  <2>1. Absent.how = "absent"
    BY DEF Absent
  <2> QED BY <2>1, Zenon DEF Chosen, Word
<1> HIDE DEF w
<1>5. p.depth = IF w \in DeepModes /\ v # "exa-deep" THEN "none" ELSE w
  BY Zenon DEF w
<1>6. CASE v = "tavily"
  <2>1. wire.depth = IF p.depth = "none" THEN "basic" ELSE p.depth
    BY <1>6, Zenon DEF SendsIs
  <2>2. UnaskedDepth(v) = "basic" /\ v # "exa-deep"
    BY <1>6 DEF UnaskedDepth
  <2>3. TakesDepth(v, b.depth.word) <=> b.depth.word \notin DeepModes
    BY <1>6, <2>2, Zenon DEF TakesDepth
  <2>4. CASE Said(b.depth)
    <3>1. w = b.depth.word /\ w # "none"
      BY <1>1, <1>2, <1>3, <2>4, Zenon
    <3> QED BY <1>5, <2>1, <2>2, <2>3, <2>4, <3>1, Zenon
  <2>5. CASE ~Said(b.depth)
    <3>1. w = "none"
      BY <1>4, <2>5
    <3> QED BY <1>2, <1>5, <2>1, <2>2, <2>5, <3>1, Zenon
  <2> QED BY <2>4, <2>5
<1>7. CASE v = "exa-deep"
  <2>1. wire.depth = IF p.depth \in DeepModes THEN p.depth ELSE "deep-lite"
    BY <1>7, Zenon DEF SendsIs
  <2>2. UnaskedDepth(v) = "deep-lite" /\ v # "tavily"
    BY <1>7 DEF UnaskedDepth
  <2>3. TakesDepth(v, b.depth.word) <=> b.depth.word \in DeepModes
    BY <1>7, <2>2, Zenon DEF TakesDepth
  <2>4. p.depth = w
    BY <1>5, <1>7, Zenon
  <2> QED BY <1>2, <1>3, <1>4, <2>1, <2>2, <2>3, <2>4, Zenon
<1>8. CASE v \in {"firecrawl", "exa", "xai"}
  <2>1. wire.depth = "none"
    BY <1>8, Zenon DEF SendsIs
  <2>2. UnaskedDepth(v) = "none" /\ v # "tavily" /\ v # "exa-deep"
    BY <1>8 DEF UnaskedDepth
  <2> QED BY <2>1, <2>2, Zenon DEF TakesDepth
<1> QED BY <1>6, <1>7, <1>8, Zenon DEF Vendors

\* A country keeps its place however a client spells it.
LEMMA PlacesKept ==
  ASSUME NEW c \in Countries
  PROVE  /\ TavilyCountry(c).place = c.place /\ TavilyCountry(c).how \in {"unset", "name"}
         /\ FirecrawlCountry(c).place = c.place
<1>1. c = [how |-> c.how, place |-> c.place]
  BY DEF Countries
<1>2. NoCountry.how = "unset"
  BY DEF NoCountry
<1>3. [c EXCEPT !.how = "name"].place = c.place /\ [c EXCEPT !.how = "name"].how = "name"
  BY <1>1
<1>4. [c EXCEPT !.how = "code"].place = c.place
  BY <1>1
<1> QED BY <1>2, <1>3, <1>4, Zenon DEF TavilyCountry, FirecrawlCountry

\* The social half of a hybrid is never refused.
LEMMA SocialIsTaken ==
  ASSUME NEW q, NEW d, DialIs(q, d), HandsOver(q, d), d.leg.social
  PROVE  ~Refuses(d.vendor, d.params)
<1> DEFINE p == d.params
<1>1. d.vendor = "xai" /\ d.leg.sources = {"x"} /\ Route(q).hybrid
  BY Zenon DEF DialIs
<1>2. p.domains = <<>> /\ p.sources = {"x"} /\ ~p.content /\ ~p.raw
  BY <1>1, Zenon DEF HandsOver
<1>3. "x" \in {"x"} /\ ~({"web", "x"} \subseteq {"x"})
  OBVIOUS
<1>4. ~XaiRefuses(p)
  BY <1>2, <1>3, Zenon DEF XaiRefuses
<1>5. Refuses("xai", p) = XaiRefuses(p)
  BY NamesDiffer, Zenon DEF VendorNames, Refuses
<1> QED BY <1>1, <1>4, <1>5, Zenon

\* What is not refused says what is meant.
LEMMA WireSays ==
  ASSUME NEW b, Fit(b), NEW q, StandsFor(q, b), NEW d, DialIs(q, d), HandsOver(q, d),
         ~Refuses(d.vendor, d.params)
  PROVE  SaysWhatIsMeant(b, d)
<1> DEFINE v == d.vendor
           p == d.params
           wire == Sends(v, p)
           social == d.leg.social
<1>1. Typed(b) /\ SearchAccepted(b)
  BY Zenon DEF Fit
<1>2. v \in Vendors /\ social \in BOOLEAN
  BY Zenon DEF DialIs
<1>3. SendsIs(v, p, wire)
  BY <1>2, SendsAre, Zenon
<1>4. /\ q.content = b.content /\ q.raw = b.raw /\ q.country = b.country
      /\ q.domains = FoldList(b.domains) /\ q.handles = FoldList(b.handles)
      /\ q.from = FoldDate(b.from) /\ q.range = Sense(Span(b.range))
  BY Zenon DEF StandsFor
<1>5. /\ p.domains = (IF social THEN <<>> ELSE q.domains) /\ p.handles = q.handles
      /\ p.content <=> q.content = "yes" /\ ~social
      /\ p.raw <=> q.raw /\ ~(v = "xai" /\ Route(q).hybrid)
      /\ p.from = q.from /\ p.range = Word(q.range) /\ p.country = q.country
  BY Zenon DEF HandsOver
<1>6. Names(FoldList(b.domains)) = Names(b.domains) /\ Names(FoldList(b.handles)) = Names(b.handles)
  BY <1>1, FoldListTwice, Zenon DEF Typed
<1>7. wire.window = MeantWindow(b, v)
  <2>1. /\ v # "firecrawl" => DatesFirst(p) = MeantWindow(b, v)
        /\ FirecrawlWindow(p) = MeantWindow(b, "firecrawl")
    BY <1>4, <1>5, WindowsSay, Zenon
  <2> QED BY <1>3, <2>1, Zenon DEF SendsIs
<1>8. p.country \in Countries /\ p.country = b.country
  BY <1>1, <1>4, <1>5, Zenon DEF Typed
<1>9. v = "exa-deep" => p.country = NoCountry
  <2>1. Refuses("exa-deep", p) = DeepRefuses(p)
    BY NamesDiffer, Zenon DEF VendorNames, Refuses
  <2> QED BY <2>1, Zenon DEF DeepRefuses
<1>10. v = "xai" => ~p.content /\ ~p.raw
  <2>1. Refuses("xai", p) = XaiRefuses(p)
    BY NamesDiffer, Zenon DEF VendorNames, Refuses
  <2>2. v = "xai" => ~XaiRefuses(p)
    BY <2>1, Zenon DEF v, p
  <2> QED BY <2>2, Zenon DEF XaiRefuses
<1>11. Route(q).hybrid /\ v = "xai" => social
  BY Zenon DEF DialIs
<1>12. wire.depth = IF Said(b.depth) /\ TakesDepth(v, b.depth.word)
                    THEN b.depth.word ELSE UnaskedDepth(v)
  <2>1. q.depth = Chosen(b.depth)
    BY Zenon DEF StandsFor
  <2>2. p.depth = (IF Word(Chosen(b.depth)) \in DeepModes /\ v # "exa-deep" THEN "none"
                   ELSE Word(Chosen(b.depth)))
    BY <2>1, Zenon DEF HandsOver
  <2> HIDE DEF v, p, wire
  <2> QED BY <1>2, <1>3, <2>2, DepthsSay, Zenon
<1> HIDE DEF v, p, wire, social
<1>13. Names(wire.domains) = (IF social THEN <<>> ELSE Names(b.domains))
  BY <1>3, <1>4, <1>5, <1>6, NoNames, Zenon DEF SendsIs
<1>14. wire.country.place = (IF v \in {"exa", "xai"} THEN NoCountry ELSE b.country).place
  <2>1. CASE v \in {"exa", "xai"}
    <3>1. wire.country = NoCountry
      BY <1>3, <2>1, Zenon DEF SendsIs
    <3> QED BY <2>1, <3>1, Zenon
  <2>2. CASE v \in {"tavily", "firecrawl"}
    <3>1. wire.country.place = b.country.place
      BY <1>3, <1>8, <2>2, PlacesKept, Zenon DEF SendsIs
    <3>2. v \notin {"exa", "xai"}
      BY <2>2
    <3> QED BY <3>1, <3>2, Zenon
  <2>3. CASE v = "exa-deep"
    <3>1. wire.country = NoCountry /\ b.country = NoCountry
      BY <1>3, <1>8, <1>9, <2>3, Zenon DEF SendsIs
    <3> QED BY <3>1, Zenon
  <2> QED BY <1>2, <2>1, <2>2, <2>3, Zenon DEF Vendors
<1>15. v = "tavily" => wire.country.how \in {"unset", "name"}
  BY <1>3, <1>8, PlacesKept, Zenon DEF SendsIs
<1>16. Names(wire.handles) = (IF v = "xai" /\ wire.about = {"x"} THEN Names(b.handles) ELSE <<>>)
  <2>1. {"web"} # {"x"}
    OBVIOUS
  <2> QED BY <1>3, <1>4, <1>5, <1>6, <2>1, NoNames, Zenon DEF SendsIs
<1>17. wire.content <=> \/ v = "exa-deep"
                        \/ b.content = "yes" /\ ~social
                        \/ b.raw /\ v = "tavily"
  <2>1. social => v = "xai"
    BY Zenon DEF DialIs, v, social
  <2>2. CASE v = "tavily"
    BY <1>3, <1>4, <1>5, <2>2, NamesDiffer, Zenon DEF SendsIs, VendorNames
  <2>3. CASE v \in {"firecrawl", "exa"}
    <3>1. v # "tavily" /\ v # "exa-deep"
      BY <2>3
    <3> QED BY <1>3, <1>4, <1>5, <2>3, <3>1, Zenon DEF SendsIs
  <2>4. CASE v = "exa-deep"
    BY <1>3, <2>4, Zenon DEF SendsIs
  <2>5. CASE v = "xai"
    BY <1>3, <1>4, <1>5, <1>10, <2>5, NamesDiffer, Zenon DEF SendsIs, VendorNames
  <2> QED BY <1>2, <2>2, <2>3, <2>4, <2>5, Zenon DEF Vendors
<1>18. b.raw => v # "xai" \/ social
  BY <1>4, <1>5, <1>10, <1>11, Zenon
<1> QED BY <1>7, <1>12, <1>13, <1>14, <1>15, <1>16, <1>17, <1>18, Zenon
      DEF SaysWhatIsMeant, v, p, wire, social

-----------------------------------------------------------------------------
(* Calls at their dial.                                                     *)

\* Every call is refused, and never the social one, or says what is meant.
LEMMA DialsHonour ==
  ASSUME NEW ask, LetIn(ask), ask.surface # "research",
         NEW l \in DOMAIN CallsFor[ask], NEW d \in CallsFor[ask][l]
  PROVE  IF Refuses(d.vendor, d.params) THEN ~d.leg.social ELSE SaysWhatIsMeant(Sought(ask), d)
<1> DEFINE q == Query[ask]
           b == Sought(ask)
<1>1. Fit(b) /\ q = Canonicalize(b) /\ ask \in DOMAIN Query
  BY SoughtFit, Zenon
<1>2. CallsFor[ask] = CallsOf(q)
  BY <1>1, Zenon DEF CallsFor
<1>3. StandsFor(q, b)
  BY <1>1, CanonicalStands, Zenon
<1>4. RouteOK(q)
  BY <1>1, <1>3, IntentIsKnown, RouteIsOK, Zenon
<1>5. DialIs(q, d)
  BY <1>2, <1>4, DialsAre, Zenon
<1>6. q.raw \in BOOLEAN
  BY <1>1, <1>3, Zenon DEF StandsFor, Fit, Typed
<1> HIDE DEF q, b
<1>7. HandsOver(q, d)
  BY <1>5, <1>6, HandedOver
<1>8. Refuses(d.vendor, d.params) => ~d.leg.social
  BY <1>5, <1>7, SocialIsTaken, Zenon
<1>9. ~Refuses(d.vendor, d.params) => SaysWhatIsMeant(b, d)
  BY <1>1, <1>3, <1>5, <1>7, WireSays, Zenon
<1> QED BY <1>8, <1>9, Zenon DEF b

\* Every route goes where the client named; a web leg stays on the web.
LEMMA RoutesHonour ==
  ASSUME NEW ask, LetIn(ask), ask.surface # "research"
  PROVE  IF ask.surface = "web" THEN OnTheWeb(PlanFor[ask])
         ELSE GoesWhereAsked(Body(ask.of), Route(Query[ask]), PlanFor[ask])
<1> DEFINE q == Query[ask]
           b == Sought(ask)
<1>1. Fit(b) /\ q = Canonicalize(b) /\ ask \in DOMAIN Query
  BY SoughtFit, Zenon
<1>2. PlanFor[ask] = PlanOf(q)
  BY <1>1, Zenon DEF PlanFor
<1>3. StandsFor(q, b)
  BY <1>1, CanonicalStands, Zenon
<1>4. CASE ask.surface = "web"
  <2>1. b = WebLeg(Body(ask.of))
    <3>1. "web" # "search"
      OBVIOUS
    <3> QED BY <1>4, <3>1, Zenon DEF Sought
  <2>2. b.mode = Absent /\ b.provider = Absent /\ b.sources = <<>> /\ b.handles = <<>>
    BY <2>1, WebHolds, Zenon DEF WebIs
  <2> HIDE DEF q, b
  <2>3. OnTheWeb(PlanOf(q))
    BY <1>1, <1>3, <2>2, WebLegGoesRight, Zenon
  <2> QED BY <1>2, <1>4, <2>3, Zenon DEF q
<1>5. CASE ask.surface # "web"
  <2>1. ask.surface = "search"
    BY <1>5, AskIs, Zenon DEF LetIn
  <2>2. b = Body(ask.of)
    BY <2>1, Zenon DEF Sought
  <2> HIDE DEF q, b
  <2>3. GoesWhereAsked(b, Route(q), PlanOf(q))
    BY <1>1, <1>3, GoesRight, Zenon
  <2> QED BY <1>2, <1>5, <2>2, <2>3, Zenon DEF q
<1> QED BY <1>4, <1>5

\* A call that dials was let in, so what it asks is honoured.
LEMMA AsksHonoured == AgeInv /\ MeanInv => AskIsHonoured
<1> SUFFICES ASSUME AgeInv, MeanInv PROVE AskIsHonoured
  OBVIOUS
<1>1. ASSUME NEW c \in Calls, call[c].stage = "dial", call[c].ask \in DOMAIN Query
      PROVE  LetIn(call[c].ask) /\ call[c].ask.surface # "research"
  <2>1. LetIn(call[c].ask)
    BY <1>1, RunsLetIn, StageNames, Zenon
  <2>2. DOMAIN Query = {a \in Asks : a.surface # "research"}
    BY Zenon DEF Query
  <2> QED BY <1>1, <2>1, <2>2, Zenon
<1>2. RouteHonoursAsk
  BY <1>1, RoutesHonour, Zenon DEF RouteHonoursAsk
<1>3. WireHonoursAsk
  <2> SUFFICES ASSUME NEW c \in Calls, call[c].stage = "dial", call[c].ask \in DOMAIN Query,
                      NEW l \in DOMAIN CallsFor[call[c].ask],
                      NEW d \in CallsFor[call[c].ask][l]
               PROVE  IF Refuses(d.vendor, d.params) THEN ~d.leg.social
                      ELSE SaysWhatIsMeant(IF call[c].ask.surface = "web"
                                           THEN WebLeg(Body(call[c].ask.of))
                                           ELSE Body(call[c].ask.of), d)
    BY Zenon DEF WireHonoursAsk
  <2> DEFINE ask == call[c].ask
  <2>1. LetIn(ask) /\ ask.surface # "research"
    BY <1>1, Zenon
  <2>2. ask.surface \in {"search", "web"}
    <3>1. ask.surface \in {"search", "web", "research"}
      BY <2>1, AskIs, Zenon DEF LetIn
    <3> QED BY <2>1, <3>1
  <2>3. Sought(ask) = IF ask.surface = "web" THEN WebLeg(Body(ask.of)) ELSE Body(ask.of)
    <3>1. "search" # "web"
      OBVIOUS
    <3> QED BY <2>2, <3>1, Zenon DEF Sought
  <2>4. IF Refuses(d.vendor, d.params) THEN ~d.leg.social ELSE SaysWhatIsMeant(Sought(ask), d)
    BY <2>1, DialsHonour, Zenon
  <2> QED BY <2>3, <2>4, Zenon
<1> QED BY <1>2, <1>3, Zenon DEF AskIsHonoured

\* Whatever a client spells, the route of its search and every request that
\* leaves on it honour what it named, for any requests. Of what a vendor cannot
\* say some is refused; all that is left out instead is what is listed before
\* SaysWhatIsMeant.
THEOREM AsksAreHonoured == Spec => []AskIsHonoured
<1>1. Init => AgeInv /\ MeanInv
  BY InitAge, InitMeans
<1>2. AgeInv /\ MeanInv /\ [Next]_vars => (AgeInv /\ MeanInv)'
  BY StepAge, StepMeans
<1> QED BY <1>1, <1>2, AsksHonoured, PTL DEF Spec

-----------------------------------------------------------------------------
(* Lists to fuse, and their spots.                                          *)

\* Lists that vendors can bring.
FusableLists == [items : Seq(Rows), weight : {7, 10}]

Fusable(lists) ==
  /\ lists \in Seq(FusableLists)
  /\ \A l \in DOMAIN lists : Len(lists[l].items) <= Places

LEMMA ListIs ==
  ASSUME NEW lists, Fusable(lists), NEW l \in DOMAIN lists
  PROVE  /\ l \in Nat /\ lists[l].items \in Seq(Rows) /\ lists[l].weight \in {7, 10}
         /\ DOMAIN lists[l].items = 1..Len(lists[l].items) /\ Len(lists[l].items) \in 0..Places
         /\ \A i \in DOMAIN lists[l].items : lists[l].items[i] \in Rows /\ i \in 1..Places
<1>1. lists[l] \in FusableLists /\ l \in Nat
  BY DEF Fusable
<1>2. lists[l].items \in Seq(Rows) /\ lists[l].weight \in {7, 10}
  BY <1>1 DEF FusableLists
<1>3. Len(lists[l].items) <= Places /\ Places \in Nat
  BY FusionAssumption DEF Fusable
<1> DEFINE items == lists[l].items
<1> HIDE DEF items
<1>4. items \in Seq(Rows) /\ Len(items) <= Places /\ Places \in Nat
  BY <1>2, <1>3 DEF items
<1>5. DOMAIN items = 1..Len(items) /\ Len(items) \in 0..Places
  <2>1. DOMAIN items = 1..Len(items) /\ Len(items) \in Nat
    BY <1>4
  <2> QED BY <1>4, <2>1
<1>6. \A i \in DOMAIN items : items[i] \in Rows /\ i \in 1..Places
  BY <1>4
<1> QED BY <1>1, <1>2, <1>5, <1>6, Zenon DEF items

LEMMA SpotIs ==
  ASSUME NEW lists, Fusable(lists)
  PROVE  /\ \A l \in DOMAIN lists : \A i \in DOMAIN lists[l].items : <<l, i>> \in Spots(lists)
         /\ \A spot \in Spots(lists) :
              /\ spot = <<spot[1], spot[2]>>
              /\ spot[1] \in DOMAIN lists /\ spot[2] \in DOMAIN lists[spot[1]].items
              /\ spot[1] \in Nat /\ spot[2] \in 1..Places
              /\ ItemAt(lists, spot) \in Rows
<1> DEFINE At(l) == {l} \X DOMAIN lists[l].items
<1>1. Spots(lists) = UNION {At(l) : l \in DOMAIN lists}
  BY Zenon DEF Spots
<1>2. ASSUME NEW l \in DOMAIN lists, NEW i \in DOMAIN lists[l].items
      PROVE  <<l, i>> \in Spots(lists)
  <2>1. <<l, i>> \in At(l)
    OBVIOUS
  <2> HIDE DEF At
  <2> QED BY <1>1, <2>1, Zenon
<1>3. ASSUME NEW spot \in Spots(lists)
      PROVE  /\ spot = <<spot[1], spot[2]>>
             /\ spot[1] \in DOMAIN lists /\ spot[2] \in DOMAIN lists[spot[1]].items
             /\ spot[1] \in Nat /\ spot[2] \in 1..Places
             /\ ItemAt(lists, spot) \in Rows
  <2> HIDE DEF At
  <2>1. PICK l \in DOMAIN lists : spot \in At(l)
    BY <1>1, Zenon
  <2>2. spot = <<spot[1], spot[2]>> /\ spot[1] = l /\ spot[2] \in DOMAIN lists[l].items
    BY <2>1 DEF At
  <2> QED BY <2>1, <2>2, ListIs, Zenon DEF ItemAt
<1> QED BY <1>2, <1>3, Zenon

LEMMA SpotsFinite ==
  ASSUME NEW lists, Fusable(lists)
  PROVE  IsFiniteSet(Spots(lists))
<1> DEFINE box == (1..Len(lists)) \X (1..Places)
<1>1. Len(lists) \in Nat /\ DOMAIN lists = 1..Len(lists)
  BY DEF Fusable
<1>2. IsFiniteSet(1..Len(lists)) /\ IsFiniteSet(1..Places)
  <2>1. 1 \in Int /\ Places \in Int /\ Len(lists) \in Int
    BY <1>1, FusionAssumption
  <2> QED BY <2>1, FS_Interval, Zenon
<1>3. IsFiniteSet(box)
  BY <1>2, FS_Product, Zenon
<1>4. ASSUME NEW spot \in Spots(lists) PROVE spot \in box
  <2>1. spot = <<spot[1], spot[2]>> /\ spot[1] \in 1..Len(lists) /\ spot[2] \in 1..Places
    BY <1>1, SpotIs, Zenon
  <2> QED BY <2>1, Zenon
<1>5. Spots(lists) \in SUBSET box
  BY <1>4, Zenon
<1> QED BY <1>3, <1>5, FS_Subset, Zenon

\* The ordinals order the spots.
LEMMA SpotsInOrder ==
  ASSUME NEW lists, Fusable(lists), NEW a \in Spots(lists), NEW b \in Spots(lists)
  PROVE  /\ ~Precedes(a, a)
         /\ a # b => Precedes(a, b) \/ Precedes(b, a)
         /\ \A c \in Spots(lists) : Precedes(a, b) /\ Precedes(b, c) => Precedes(a, c)
<1>1. \A c \in Spots(lists) : c[1] \in Nat /\ c[2] \in Nat /\ c = <<c[1], c[2]>>
  <2>1. \A k \in 1..Places : k \in Nat
    BY FusionAssumption
  <2> QED BY <2>1, SpotIs, Zenon
<1>2. a # b => a[1] # b[1] \/ a[2] # b[2]
  BY <1>1, Zenon
<1>3. ~Precedes(a, a) /\ (a # b => Precedes(a, b) \/ Precedes(b, a))
  BY <1>1, <1>2 DEF Precedes
<1>4. \A c \in Spots(lists) : Precedes(a, b) /\ Precedes(b, c) => Precedes(a, c)
  BY <1>1 DEF Precedes
<1> QED BY <1>3, <1>4, Zenon

\* Some spot of a set of them comes first.
LEMMA LeastSpot ==
  ASSUME NEW lists, Fusable(lists), NEW I, I \subseteq Spots(lists), I # {}
  PROVE  \E a \in I : \A b \in I : ~Precedes(b, a)
<1>1. \A c \in I : c[1] \in Nat /\ c[2] \in Nat
  <2>1. \A k \in 1..Places : k \in Nat
    BY FusionAssumption
  <2> QED BY <2>1, SpotIs, Zenon
<1> DEFINE L == {c[1] : c \in I}
<1>2. L \subseteq Nat /\ L # {}
  BY <1>1
<1>3. PICK l \in L : \A m \in L : l <= m
  BY <1>2, LeastNumber
<1> DEFINE J == {c[2] : c \in {d \in I : d[1] = l}}
<1>4. J \subseteq Nat /\ J # {}
  BY <1>1, <1>3
<1>5. PICK i \in J : \A j \in J : i <= j
  BY <1>4, LeastNumber
<1>6. PICK a \in I : a[1] = l /\ a[2] = i
  BY <1>5
<1>7. ASSUME NEW b \in I, Precedes(b, a) PROVE FALSE
  <2>1. b[1] \in L /\ l <= b[1] /\ b[1] \in Nat /\ l \in Nat
    BY <1>1, <1>2, <1>3
  <2>2. b[1] = l /\ b[2] < i
    BY <1>1, <1>6, <1>7, <2>1 DEF Precedes
  <2>3. b[2] \in J
    BY <2>2
  <2>4. i <= b[2] /\ b[2] \in Nat /\ i \in Nat
    BY <1>1, <1>4, <1>5, <2>3
  <2> QED BY <2>2, <2>4
<1> QED BY <1>6, <1>7, Zenon

-----------------------------------------------------------------------------
(* Entries.                                                                 *)

\* Every key has one first spot.
LEMMA FirstIs ==
  ASSUME NEW lists, Fusable(lists)
  PROVE  /\ Firsts(lists) \subseteq Spots(lists)
         /\ \A spot \in Spots(lists) : \E f \in Firsts(lists) : KeyAt(lists, f) = KeyAt(lists, spot)
         /\ \A f, g \in Firsts(lists) : KeyAt(lists, f) = KeyAt(lists, g) => f = g
<1>1. Firsts(lists) \subseteq Spots(lists)
  BY DEF Firsts
<1>2. ASSUME NEW spot \in Spots(lists)
      PROVE  \E f \in Firsts(lists) : KeyAt(lists, f) = KeyAt(lists, spot)
  <2> DEFINE A == Alike(lists, spot)
  <2>1. spot \in A /\ A \subseteq Spots(lists)
    BY DEF Alike
  <2>2. PICK f \in A : \A b \in A : ~Precedes(b, f)
    BY <2>1, LeastSpot, Zenon
  <2>3. f \in Spots(lists) /\ KeyAt(lists, f) = KeyAt(lists, spot)
    BY <2>2 DEF Alike
  <2>4. Alike(lists, f) = A
    BY <2>3, Zenon DEF Alike
  <2>5. f \in Firsts(lists)
    BY <2>2, <2>3, <2>4, Zenon DEF Firsts
  <2> QED BY <2>3, <2>5
<1>3. ASSUME NEW f \in Firsts(lists), NEW g \in Firsts(lists), KeyAt(lists, f) = KeyAt(lists, g), f # g
      PROVE  FALSE
  <2>1. f \in Alike(lists, g) /\ g \in Alike(lists, f)
    BY <1>1, <1>3, Zenon DEF Alike
  <2>2. ~Precedes(f, g) /\ ~Precedes(g, f)
    BY <2>1, Zenon DEF Firsts
  <2> QED BY <1>1, <1>3, <2>2, SpotsInOrder, Zenon
<1> QED BY <1>1, <1>2, <1>3, Zenon

\* What stands for an entry is one of its items.
LEMMA RichestIs ==
  ASSUME NEW lists, Fusable(lists), NEW spot \in Spots(lists)
  PROVE  /\ Richest(lists, spot) \in Spots(lists)
         /\ KeyAt(lists, Richest(lists, spot)) = KeyAt(lists, spot)
<1> DEFINE A == Alike(lists, spot)
           R(a) == Richness(ItemAt(lists, a))
           Poor(a) == 4 - R(a)
           N == {Poor(a) : a \in A}
<1>1. spot \in A /\ A \subseteq Spots(lists)
  BY DEF Alike
<1>2. \A a \in A : R(a) \in 0..4
  <2>1. \A row \in Rows : row.snippet + row.body \in 0..4
    BY DEF Rows
  <2> QED BY <1>1, <2>1, SpotIs, Zenon DEF Richness
<1> HIDE DEF A, R
<1>3. N \subseteq Nat /\ N # {}
  BY <1>1, <1>2
<1>4. PICK p \in N : \A o \in N : p <= o
  BY <1>3, LeastNumber
<1> DEFINE B == {a \in A : Poor(a) = p}
<1>5. B \subseteq A /\ B # {}
  BY <1>4
<1>6. PICK rich \in B : \A other \in B : ~Precedes(other, rich)
  BY <1>1, <1>5, LeastSpot, Zenon
<1>7. ASSUME NEW other \in A
      PROVE  R(rich) > R(other) \/ (R(rich) = R(other) /\ ~Precedes(other, rich))
  <2>1. R(rich) \in 0..4 /\ R(other) \in 0..4 /\ Poor(rich) = p /\ p <= Poor(other)
    BY <1>2, <1>4, <1>5, <1>6
  <2>2. CASE other \in B
    BY <1>6, <2>1, <2>2
  <2>3. CASE other \notin B
    BY <2>1, <2>3
  <2> QED BY <2>2, <2>3
<1>8. \E r \in A : \A other \in A : R(r) > R(other) \/ (R(r) = R(other) /\ ~Precedes(other, r))
  BY <1>5, <1>6, <1>7, Zenon
<1>9. Richest(lists, spot) = CHOOSE r \in A : \A other \in A :
                               R(r) > R(other) \/ (R(r) = R(other) /\ ~Precedes(other, r))
  BY Zenon DEF Richest, A, R
<1>10. Richest(lists, spot) \in A
  BY <1>8, <1>9, Zenon
<1> QED BY <1>10 DEF A, Alike

-----------------------------------------------------------------------------
(* Shares and scores.                                                       *)

Unit(rank) == Scale \div (RRF_K + rank)

LEMMA DivideExact ==
  ASSUME NEW d \in Nat, d > 0, NEW k \in Nat
  PROVE  (k * d) \div d = k
OBVIOUS

LEMMA DividesExactly ==
  ASSUME NEW d \in Nat, d > 0, NEW a \in Nat, a % d = 0
  PROVE  a \div d \in Nat /\ (a \div d) * d = a
OBVIOUS

\* The unit of a rank, of which there is less the greater the rank.
LEMMA UnitIs ==
  ASSUME NEW rank \in 0..(Places - 1)
  PROVE  /\ Unit(rank) \in Nat /\ Unit(rank) > 0
         /\ Unit(rank) * (60 + rank) = Scale
<1> DEFINE d == 60 + rank
<1>1. Places \in Nat /\ Scale \in Nat /\ Scale > 0 /\ rank \in Nat
  BY FusionAssumption
<1>2. Scale % d = 0
  BY FusionAssumption DEF RRF_K
<1>3. d \in Nat /\ d > 0
  BY <1>1
<1>4. Unit(rank) = Scale \div d
  BY DEF Unit, RRF_K
<1> HIDE DEF d
<1>5. Unit(rank) \in Nat /\ Unit(rank) * d = Scale
  BY <1>1, <1>2, <1>3, <1>4, DividesExactly
<1>6. Unit(rank) # 0
  BY <1>1, <1>3, <1>5
<1> QED BY <1>5, <1>6 DEF d

LEMMA UnitFalls ==
  ASSUME NEW i \in 0..(Places - 1), NEW j \in 0..(Places - 1), j < i
  PROVE  Unit(i) < Unit(j)
<1> DEFINE u == Unit(i)
           v == Unit(j)
           d == 60 + i
           e == 60 + j
<1>1. u \in Nat /\ v \in Nat /\ u > 0 /\ u * d = v * e
  BY UnitIs
<1>2. d \in Nat /\ e \in Nat /\ e < d /\ e > 0
  BY FusionAssumption
<1> HIDE DEF u, v, d, e
<1>3. v <= u => v * e <= u * e
  BY <1>1, <1>2
<1>4. u * e < u * d
  BY <1>1, <1>2
<1>5. u * d \in Nat /\ v * e \in Nat /\ u * e \in Nat
  BY <1>1, <1>2
<1>6. u < v
  BY <1>1, <1>3, <1>4, <1>5
<1> QED BY <1>6 DEF u, v

\* Shares are exact.
LEMMA ContributionIs ==
  ASSUME NEW w \in {7, 10}, NEW item, NEW rank \in 0..(Places - 1)
  PROVE  /\ Quality(item) \in {1, 4}
         /\ Contribution(w, item, rank) = w * Quality(item) * Unit(rank)
         /\ Unit(rank) \in Nat
<1> DEFINE z == w * Quality(item)
           u == Unit(rank)
           d == 60 + rank
<1>1. Quality(item) \in {1, 4}
  BY DEF Quality
<1>2. z \in Nat
  BY <1>1
<1>3. u \in Nat /\ u * d = Scale
  BY UnitIs
<1>4. d \in Nat /\ d > 0
  BY FusionAssumption
<1>5. Contribution(w, item, rank) = (z * Scale) \div d
  BY DEF Contribution, RRF_K
<1> HIDE DEF z, u, d
<1>6. z * u \in Nat /\ z * Scale = (z * u) * d
  BY <1>2, <1>3, <1>4
<1>7. Contribution(w, item, rank) = z * u
  BY <1>4, <1>5, <1>6, DivideExact
<1> QED BY <1>1, <1>3, <1>7 DEF z, u

\* A better place of no less quality has the greater share.
LEMMA ContributionGrows ==
  ASSUME NEW w \in {7, 10}, NEW x, NEW y, NEW i \in 1..Places, NEW j \in 1..Places, j < i,
         Quality(y) >= Quality(x)
  PROVE  Contribution(w, x, i - 1) < Contribution(w, y, j - 1)
<1>1. i - 1 \in 0..(Places - 1) /\ j - 1 \in 0..(Places - 1) /\ j - 1 < i - 1
  BY FusionAssumption
<1>2. /\ Quality(x) \in {1, 4} /\ Quality(y) \in {1, 4}
      /\ Contribution(w, x, i - 1) = w * Quality(x) * Unit(i - 1)
      /\ Contribution(w, y, j - 1) = w * Quality(y) * Unit(j - 1)
  BY <1>1, ContributionIs
<1> DEFINE a == w * Quality(x)
           b == w * Quality(y)
           u == Unit(i - 1)
           v == Unit(j - 1)
<1>3. u \in Nat /\ v \in Nat /\ u < v
  BY <1>1, UnitIs, UnitFalls
<1>4. a \in {7, 28, 10, 40} /\ b \in {7, 28, 10, 40} /\ a <= b
  BY <1>2
<1>5. Contribution(w, x, i - 1) = a * u /\ Contribution(w, y, j - 1) = b * v
  BY <1>2
<1> HIDE DEF a, b, u, v
<1>6. a * u < b * v
  BY <1>3, <1>4
<1> QED BY <1>5, <1>6

\* Two shares within the first twenty places are more than any one share.
LEMMA TwoAreMore ==
  ASSUME NEW i \in 1..Places, i <= 20
  PROVE  /\ Unit(0) \in Nat /\ Unit(i - 1) \in Nat
         /\ Unit(0) > 0 /\ 40 * Unit(0) < 56 * Unit(i - 1)
<1> DEFINE u == Unit(0)
           v == Unit(i - 1)
           r == i - 1
<1>1. r \in 0..(Places - 1) /\ 0 \in 0..(Places - 1) /\ r \in 0..19
  BY FusionAssumption
<1>2. u \in Nat /\ v \in Nat /\ u > 0 /\ v > 0 /\ u * 60 = v * (60 + r)
  <2>1. u \in Nat /\ u > 0 /\ u * (60 + 0) = Scale
    BY <1>1, UnitIs
  <2>2. v \in Nat /\ v > 0 /\ v * (60 + r) = Scale
    BY <1>1, UnitIs
  <2> QED BY <2>1, <2>2
<1> HIDE DEF u, v, r
<1>3. v * (60 + r) <= v * 79
  BY <1>1, <1>2
<1>4. 60 * u <= 79 * v
  BY <1>1, <1>2, <1>3
<1>5. 40 * u < 56 * v
  BY <1>2, <1>4
<1> QED BY <1>2, <1>5 DEF u, v

\* One list's shares of the entry of a spot, and every list's.
LegShares(lists, l, spot) == [i \in DOMAIN lists[l].items |-> Share(lists, l, i, spot)]

LegScores(lists, spot) == [l \in DOMAIN lists |-> Total(LegShares(lists, l, spot))]

LEMMA SharesAre ==
  ASSUME NEW lists, Fusable(lists), NEW l \in DOMAIN lists, NEW spot
  PROVE  /\ LegShares(lists, l, spot) \in Seq(Nat)
         /\ Len(LegShares(lists, l, spot)) = Len(lists[l].items)
         /\ \A i \in DOMAIN lists[l].items :
              /\ LegShares(lists, l, spot)[i] = Share(lists, l, i, spot)
              /\ Contribution(lists[l].weight, lists[l].items[i], i - 1) \in Nat
<1>1. /\ lists[l].weight \in {7, 10} /\ Len(lists[l].items) \in 0..Places
      /\ DOMAIN lists[l].items = 1..Len(lists[l].items)
      /\ \A i \in DOMAIN lists[l].items : i \in 1..Places
  BY ListIs, Zenon
<1>2. ASSUME NEW i \in DOMAIN lists[l].items
      PROVE  Contribution(lists[l].weight, lists[l].items[i], i - 1) \in Nat
  <2> DEFINE x == lists[l].items[i]
             w == lists[l].weight
             r == i - 1
  <2>1. r \in 0..(Places - 1)
    BY <1>1, FusionAssumption
  <2>2. w \in {7, 10}
    BY <1>1
  <2> HIDE DEF x, w, r
  <2>3. /\ Quality(x) \in {1, 4} /\ Contribution(w, x, r) = w * Quality(x) * Unit(r)
        /\ Unit(r) \in Nat
    BY <2>1, <2>2, ContributionIs
  <2>4. Contribution(w, x, r) \in Nat
    BY <2>2, <2>3
  <2> QED BY <2>4, Zenon DEF x, w, r
<1>3. \A i \in DOMAIN lists[l].items : Share(lists, l, i, spot) \in Nat
  <2>1. 0 \in Nat
    OBVIOUS
  <2> QED BY <1>2, <2>1, Zenon DEF Share
<1> DEFINE n == Len(lists[l].items)
           S(i) == Share(lists, l, i, spot)
<1>4. n \in Nat /\ \A i \in 1..n : S(i) \in Nat
  BY <1>1, <1>3
<1>5. LegShares(lists, l, spot) = [i \in 1..n |-> S(i)]
  BY <1>1, Zenon DEF LegShares
<1> HIDE DEF n, S
<1>6. [i \in 1..n |-> S(i)] \in Seq(Nat) /\ Len([i \in 1..n |-> S(i)]) = n
      /\ \A i \in 1..n : [k \in 1..n |-> S(k)][i] = S(i)
  BY <1>4
<1> QED BY <1>1, <1>2, <1>5, <1>6, Zenon DEF n, S

LEMMA ScoreIs ==
  ASSUME NEW lists, Fusable(lists), NEW spot
  PROVE  /\ LegScores(lists, spot) \in Seq(Nat) /\ Len(LegScores(lists, spot)) = Len(lists)
         /\ \A l \in DOMAIN lists : LegScores(lists, spot)[l] = Total(LegShares(lists, l, spot))
         /\ Score(lists, spot) = Total(LegScores(lists, spot))
         /\ Score(lists, spot) \in Nat
<1> DEFINE n == Len(lists)
           T(l) == Total(LegShares(lists, l, spot))
<1>1. n \in Nat /\ DOMAIN lists = 1..n
  BY DEF Fusable
<1>2. \A l \in 1..n : T(l) \in Nat
  BY <1>1, SharesAre, TotalType, Zenon
<1>3. LegScores(lists, spot) = [l \in 1..n |-> T(l)]
  BY <1>1, Zenon DEF LegScores
<1>4. Score(lists, spot) = Total(LegScores(lists, spot))
  BY Zenon DEF Score, LegScores, LegShares
<1> HIDE DEF n, T
<1>5. [l \in 1..n |-> T(l)] \in Seq(Nat) /\ Len([l \in 1..n |-> T(l)]) = n
      /\ \A l \in 1..n : [k \in 1..n |-> T(k)][l] = T(l)
  BY <1>1, <1>2
<1>6. Total(LegScores(lists, spot)) \in Nat
  BY <1>3, <1>5, TotalType, Zenon
<1> QED BY <1>1, <1>3, <1>4, <1>5, <1>6, Zenon DEF n, T

-----------------------------------------------------------------------------
(* What a greater score follows from.                                       *)

\* The places of a spot's entry in one list.
KeyIn(lists, l, spot) ==
  {i \in DOMAIN lists[l].items : KeyAt(lists, <<l, i>>) = KeyAt(lists, spot)}

\* In a list, y's entry has a place before x's one, and no worse.
Better(lists, l, y, x) ==
  /\ \A i, j \in KeyIn(lists, l, x) : i = j
  /\ \A i \in KeyIn(lists, l, x) :
       \E j \in KeyIn(lists, l, y) :
         j < i /\ Quality(lists[l].items[j]) >= Quality(lists[l].items[i])

\* A place adds its share, to the list's sum and to nothing else.
LEMMA LegShareIs ==
  ASSUME NEW lists, Fusable(lists), NEW l \in DOMAIN lists, NEW spot, NEW i \in DOMAIN lists[l].items
  PROVE  /\ i \in 1..Len(LegShares(lists, l, spot)) /\ i \in 1..Places
         /\ i \in KeyIn(lists, l, spot)
              => LegShares(lists, l, spot)[i] = Contribution(lists[l].weight, lists[l].items[i], i - 1)
         /\ i \notin KeyIn(lists, l, spot) => LegShares(lists, l, spot)[i] = 0
<1>1. i \in 1..Len(LegShares(lists, l, spot)) /\ i \in 1..Places
  <2>1. Len(LegShares(lists, l, spot)) = Len(lists[l].items)
    BY SharesAre, Zenon
  <2>2. DOMAIN lists[l].items = 1..Len(lists[l].items) /\ i \in 1..Places
    BY ListIs, Zenon
  <2> QED BY <2>1, <2>2
<1>2. LegShares(lists, l, spot)[i] = Share(lists, l, i, spot)
  BY SharesAre, Zenon
<1> QED BY <1>1, <1>2, Zenon DEF KeyIn, Share

LEMMA LegOfNone ==
  ASSUME NEW lists, Fusable(lists), NEW l \in DOMAIN lists, NEW spot, KeyIn(lists, l, spot) = {}
  PROVE  Total(LegShares(lists, l, spot)) = 0
<1> DEFINE s == LegShares(lists, l, spot)
<1>1. s \in Seq(Nat) /\ \A i \in 1..Len(s) : i \in DOMAIN lists[l].items
  <2>1. s \in Seq(Nat) /\ Len(s) = Len(lists[l].items)
    BY SharesAre, Zenon
  <2>2. DOMAIN lists[l].items = 1..Len(lists[l].items)
    BY ListIs, Zenon
  <2> HIDE DEF s
  <2> QED BY <2>1, <2>2
<1>2. \A i \in 1..Len(s) : s[i] = 0
  BY <1>1, LegShareIs, Zenon
<1> HIDE DEF s
<1>3. Total(s) = 0
  BY <1>1, <1>2, TotalOfNone, Zenon
<1> QED BY <1>3 DEF s

LEMMA LegOfOne ==
  ASSUME NEW lists, Fusable(lists), NEW l \in DOMAIN lists, NEW spot,
         NEW i \in KeyIn(lists, l, spot), \A j \in KeyIn(lists, l, spot) : i = j
  PROVE  Total(LegShares(lists, l, spot)) = Contribution(lists[l].weight, lists[l].items[i], i - 1)
<1> DEFINE s == LegShares(lists, l, spot)
<1>1. s \in Seq(Nat) /\ \A k \in 1..Len(s) : k \in DOMAIN lists[l].items
  <2>1. s \in Seq(Nat) /\ Len(s) = Len(lists[l].items)
    BY SharesAre, Zenon
  <2>2. DOMAIN lists[l].items = 1..Len(lists[l].items)
    BY ListIs, Zenon
  <2> HIDE DEF s
  <2> QED BY <2>1, <2>2
<1>2. i \in DOMAIN lists[l].items
  BY Zenon DEF KeyIn
<1>3. i \in 1..Len(s) /\ s[i] = Contribution(lists[l].weight, lists[l].items[i], i - 1)
  <2>1. i \in 1..Len(s)
    BY <1>2, LegShareIs, Zenon
  <2>2. i \in KeyIn(lists, l, spot)
    OBVIOUS
  <2>3. LegShares(lists, l, spot)[i] = Contribution(lists[l].weight, lists[l].items[i], i - 1)
    BY <1>2, <2>2, LegShareIs, SMT
  <2> QED BY <2>1, <2>3
<1>4. \A k \in 1..Len(s) : k # i => s[k] = 0
  BY <1>1, LegShareIs, Zenon
<1> HIDE DEF s
<1>5. Total(s) = s[i]
  BY <1>1, <1>3, <1>4, TotalOfOne, Zenon
<1> QED BY <1>3, <1>5, Zenon DEF s

LEMMA LegHasOne ==
  ASSUME NEW lists, Fusable(lists), NEW l \in DOMAIN lists, NEW spot, NEW i \in KeyIn(lists, l, spot)
  PROVE  Contribution(lists[l].weight, lists[l].items[i], i - 1) <= Total(LegShares(lists, l, spot))
<1> DEFINE s == LegShares(lists, l, spot)
<1>1. s \in Seq(Nat)
  BY SharesAre, Zenon
<1>2. i \in DOMAIN lists[l].items
  BY Zenon DEF KeyIn
<1>3. i \in 1..Len(s) /\ s[i] = Contribution(lists[l].weight, lists[l].items[i], i - 1)
  BY <1>2, LegShareIs, Zenon
<1> HIDE DEF s
<1>4. s[i] <= Total(s)
  BY <1>1, <1>3, TotalHasOne, Zenon
<1> QED BY <1>3, <1>4, Zenon DEF s

LEMMA BetterLeg ==
  ASSUME NEW lists, Fusable(lists), NEW l \in DOMAIN lists, NEW x, NEW y, Better(lists, l, y, x)
  PROVE  /\ Total(LegShares(lists, l, x)) <= Total(LegShares(lists, l, y))
         /\ KeyIn(lists, l, x) # {} => Total(LegShares(lists, l, x)) < Total(LegShares(lists, l, y))
<1> DEFINE a == Total(LegShares(lists, l, x))
           b == Total(LegShares(lists, l, y))
<1>1. a \in Nat /\ b \in Nat
  BY SharesAre, TotalType, Zenon
<1>2. CASE KeyIn(lists, l, x) = {}
  <2>1. a = 0
    BY <1>2, LegOfNone, Zenon
  <2> HIDE DEF a, b
  <2>2. a <= b
    BY <1>1, <2>1
  <2> QED BY <1>2, <2>2, Zenon DEF a, b
<1>3. ASSUME NEW i \in KeyIn(lists, l, x) PROVE a < b
  <2>1. PICK j \in KeyIn(lists, l, y) : j < i /\ Quality(lists[l].items[j]) >= Quality(lists[l].items[i])
    BY <1>3, Zenon DEF Better
  <2> DEFINE w == lists[l].weight
             c == Contribution(w, lists[l].items[i], i - 1)
             d == Contribution(w, lists[l].items[j], j - 1)
  <2>2. i \in DOMAIN lists[l].items /\ j \in DOMAIN lists[l].items
    BY <1>3, <2>1, Zenon DEF KeyIn
  <2>3. i \in 1..Places /\ j \in 1..Places /\ w \in {7, 10}
    BY <2>2, ListIs, Zenon
  <2>4. a = c
    BY <1>3, LegOfOne, Zenon DEF Better
  <2>5. d <= b
    BY <2>1, LegHasOne, Zenon
  <2>6. c < d
    BY <2>1, <2>3, ContributionGrows, Zenon
  <2>7. c \in Nat /\ d \in Nat
    BY <2>2, SharesAre, Zenon
  <2> HIDE DEF a, b, c, d
  <2> QED BY <1>1, <2>4, <2>5, <2>6, <2>7
<1>4. CASE KeyIn(lists, l, x) # {}
  <2>1. PICK i : i \in KeyIn(lists, l, x)
    BY <1>4, Zenon
  <2>2. a < b
    BY <1>3, <2>1, Zenon
  <2> HIDE DEF a, b
  <2>3. a <= b
    BY <1>1, <2>2
  <2> QED BY <2>2, <2>3, Zenon DEF a, b
<1> QED BY <1>2, <1>4, Zenon

\* An entry that every list of another's has before it, and no worse, scores
\* more than that.
LEMMA BetterScore ==
  ASSUME NEW lists, Fusable(lists), NEW x, NEW y, \A l \in DOMAIN lists : Better(lists, l, y, x),
         NEW k \in DOMAIN lists, KeyIn(lists, k, x) # {}
  PROVE  Score(lists, x) < Score(lists, y)
<1> DEFINE s == LegScores(lists, x)
           t == LegScores(lists, y)
<1>1. s \in Seq(Nat) /\ t \in Seq(Nat) /\ Len(s) = Len(lists) /\ Len(t) = Len(lists)
  BY ScoreIs, Zenon
<1>2. ASSUME NEW l \in DOMAIN lists
      PROVE  s[l] <= t[l] /\ (KeyIn(lists, l, x) # {} => s[l] < t[l])
  <2>1. s[l] = Total(LegShares(lists, l, x)) /\ t[l] = Total(LegShares(lists, l, y))
    BY ScoreIs, Zenon
  <2>2. /\ Total(LegShares(lists, l, x)) <= Total(LegShares(lists, l, y))
        /\ KeyIn(lists, l, x) # {} => Total(LegShares(lists, l, x)) < Total(LegShares(lists, l, y))
    BY BetterLeg, Zenon
  <2> HIDE DEF s, t
  <2> QED BY <2>1, <2>2
<1>3. s[k] < t[k]
  BY <1>2, Zenon
<1>4. DOMAIN lists = 1..Len(lists)
  BY DEF Fusable
<1>5. Score(lists, x) = Total(s) /\ Score(lists, y) = Total(t)
  BY ScoreIs, Zenon
<1> HIDE DEF s, t
<1>6. Total(s) < Total(t)
  BY <1>1, <1>2, <1>3, <1>4, TotalGrows
<1> QED BY <1>5, <1>6

\* What two lists bring in good quality scores more than what is met once.
LEMMA AgreedScore ==
  ASSUME NEW lists, Fusable(lists), NEW x, NEW y,
         NEW m \in DOMAIN lists, NEW h \in KeyIn(lists, m, x), \A j \in KeyIn(lists, m, x) : h = j,
         \A l \in DOMAIN lists : l # m => KeyIn(lists, l, x) = {},
         NEW k \in DOMAIN lists, NEW l \in DOMAIN lists, k < l,
         NEW i \in KeyIn(lists, k, y), i <= 20, Quality(lists[k].items[i]) = 4,
         NEW j \in KeyIn(lists, l, y), j <= 20, Quality(lists[l].items[j]) = 4
  PROVE  Score(lists, x) < Score(lists, y)
<1> DEFINE C(n, p) == Contribution(lists[n].weight, lists[n].items[p], p - 1)
           s == LegScores(lists, x)
           t == LegScores(lists, y)
<1>1. s \in Seq(Nat) /\ t \in Seq(Nat) /\ Len(s) = Len(lists) /\ Len(t) = Len(lists)
  BY ScoreIs, Zenon
<1>2. DOMAIN lists = 1..Len(lists)
  BY DEF Fusable
<1>3. Score(lists, x) = Total(s) /\ Score(lists, y) = Total(t)
  BY ScoreIs, Zenon
<1>4. s[m] = C(m, h) /\ \A n \in DOMAIN lists : n # m => s[n] = 0
  <2>1. \A n \in DOMAIN lists : s[n] = Total(LegShares(lists, n, x))
    BY ScoreIs, Zenon
  <2>2. Total(LegShares(lists, m, x)) = C(m, h)
    BY LegOfOne, Zenon
  <2>3. \A n \in DOMAIN lists : n # m => Total(LegShares(lists, n, x)) = 0
    BY LegOfNone, Zenon
  <2> HIDE DEF s, C
  <2> QED BY <2>1, <2>2, <2>3
<1>5. C(k, i) <= t[k] /\ C(l, j) <= t[l]
  <2>1. t[k] = Total(LegShares(lists, k, y)) /\ t[l] = Total(LegShares(lists, l, y))
    BY ScoreIs, Zenon
  <2>2. C(k, i) <= Total(LegShares(lists, k, y)) /\ C(l, j) <= Total(LegShares(lists, l, y))
    BY LegHasOne, Zenon
  <2> HIDE DEF t, C
  <2> QED BY <2>1, <2>2
<1>6. ASSUME NEW n \in DOMAIN lists, NEW p \in DOMAIN lists[n].items
      PROVE  /\ C(n, p) \in Nat /\ C(n, p) <= 40 * Unit(0)
             /\ Quality(lists[n].items[p]) = 4 => 28 * Unit(p - 1) <= C(n, p)
             /\ p \in 1..Places
  <2> DEFINE w == lists[n].weight
             q == Quality(lists[n].items[p])
             u == Unit(p - 1)
             v == Unit(0)
             c == C(n, p)
  <2>1. w \in {7, 10} /\ p \in 1..Places
    BY <1>6, ListIs, Zenon
  <2>2. p - 1 \in 0..(Places - 1) /\ 0 \in 0..(Places - 1) /\ (p - 1 = 0 \/ 0 < p - 1)
    BY <2>1, FusionAssumption
  <2>3. q \in {1, 4} /\ c = w * q * u
    BY <2>1, <2>2, ContributionIs
  <2>4. u \in Nat /\ v \in Nat /\ u <= v
    BY <2>2, UnitIs, UnitFalls
  <2>5. w * q \in {7, 10, 28, 40} /\ (q = 4 => w * q \in {28, 40})
    BY <2>1, <2>3
  <2> DEFINE z == w * q
  <2>6. c = z * u /\ z \in {7, 10, 28, 40} /\ (q = 4 => z \in {28, 40})
    BY <2>3, <2>5
  <2> HIDE DEF w, q, u, v, c, z
  <2>7. c \in Nat /\ c <= 40 * v /\ (q = 4 => 28 * u <= c)
    BY <2>4, <2>6
  <2> QED BY <2>1, <2>7 DEF c, q, u, v
<1>7. h \in DOMAIN lists[m].items /\ i \in DOMAIN lists[k].items /\ j \in DOMAIN lists[l].items
  BY Zenon DEF KeyIn
<1>8. /\ C(m, h) \in Nat /\ C(k, i) \in Nat /\ C(l, j) \in Nat
      /\ C(m, h) < C(k, i) + C(l, j)
  <2> DEFINE u == Unit(0)
             v == Unit(i - 1)
             w == Unit(j - 1)
  <2>1. C(m, h) \in Nat /\ C(m, h) <= 40 * u /\ C(k, i) \in Nat /\ C(l, j) \in Nat
    BY <1>6, <1>7
  <2>2. 28 * v <= C(k, i) /\ 28 * w <= C(l, j)
    BY <1>6, <1>7
  <2>3. i \in 1..Places /\ j \in 1..Places
    BY <1>6, <1>7
  <2>4. u \in Nat /\ v \in Nat /\ w \in Nat /\ 40 * u < 56 * v /\ 40 * u < 56 * w
    BY <2>3, TwoAreMore
  <2> HIDE DEF u, v, w, C
  <2> QED BY <2>1, <2>2, <2>4
<1> HIDE DEF s, t, C
<1>9. Total(s) = s[m]
  BY <1>1, <1>2, <1>4, TotalOfOne, Zenon
<1>10. t[k] + t[l] <= Total(t)
  BY <1>1, <1>2, TotalHasTwo, Zenon
<1>11. t[k] \in Nat /\ t[l] \in Nat /\ Total(t) \in Nat
  <2>1. Total(t) \in Nat
    BY <1>1, TotalType, Zenon
  <2> QED BY <1>1, <1>2, <2>1
<1> QED BY <1>3, <1>4, <1>5, <1>8, <1>9, <1>10, <1>11

-----------------------------------------------------------------------------
(* The fused list.                                                          *)

EntryOf(lists, spot) ==
  [score |-> Score(lists, spot), at |-> spot, item |-> ItemAt(lists, Richest(lists, spot))]

\* An entry has the spot it is first met at.
LEMMA EntriesAre ==
  ASSUME NEW lists, Fusable(lists)
  PROVE  /\ IsFiniteSet(Entries(lists))
         /\ \A e \in Entries(lists) :
              /\ e.at \in Firsts(lists) /\ e = EntryOf(lists, e.at)
              /\ e.score = Score(lists, e.at) /\ e.score \in Nat
              /\ e.item = ItemAt(lists, Richest(lists, e.at)) /\ e.item \in Rows
         /\ \A spot \in Firsts(lists) : \E e \in Entries(lists) : e.at = spot
<1> DEFINE F == Firsts(lists)
           E == Entries(lists)
           g == [spot \in F |-> EntryOf(lists, spot)]
<1>1. E = {EntryOf(lists, spot) : spot \in F}
  BY Zenon DEF Entries, EntryOf
<1>2. IsFiniteSet(F)
  BY FirstIs, SpotsFinite, FS_Subset, Zenon
<1>3. \A spot : /\ EntryOf(lists, spot).at = spot
                /\ EntryOf(lists, spot).score = Score(lists, spot)
                /\ EntryOf(lists, spot).item = ItemAt(lists, Richest(lists, spot))
  BY SMT DEF EntryOf
<1>4. ASSUME NEW spot \in F PROVE ItemAt(lists, Richest(lists, spot)) \in Rows /\ Score(lists, spot) \in Nat
  <2>1. spot \in Spots(lists)
    BY FirstIs, Zenon
  <2>2. Richest(lists, spot) \in Spots(lists)
    BY <2>1, RichestIs, Zenon
  <2> QED BY <2>2, SpotIs, ScoreIs, Zenon
<1> HIDE DEF F, E
<1>5. IsFiniteSet(E)
  <2>1. g \in [F -> E]
    BY <1>1
  <2>2. \A e \in E : \E spot \in F : g[spot] = e
    BY <1>1
  <2>3. g \in Surjection(F, E)
    BY <2>1, <2>2, Zenon DEF Surjection
  <2> QED BY <1>2, <2>3, FS_Surjection, Zenon
<1>6. ASSUME NEW e \in E
      PROVE  /\ e.at \in F /\ e = EntryOf(lists, e.at)
             /\ e.score = Score(lists, e.at) /\ e.score \in Nat
             /\ e.item = ItemAt(lists, Richest(lists, e.at)) /\ e.item \in Rows
  <2>1. PICK spot \in F : e = EntryOf(lists, spot)
    BY <1>1, Zenon
  <2>2. e.at = spot /\ e.score = Score(lists, spot) /\ e.item = ItemAt(lists, Richest(lists, spot))
    BY <1>3, <2>1, Zenon
  <2> QED BY <1>4, <2>1, <2>2, Zenon
<1>7. \A spot \in F : \E e \in E : e.at = spot
  BY <1>1, <1>3, Zenon
<1> QED BY <1>5, <1>6, <1>7, Zenon DEF F, E

AheadIn(entries) == [e \in entries |-> {f \in entries : AheadOf(f, e)}]

LEMMA EntriesLineUp ==
  ASSUME NEW lists, Fusable(lists)
  PROVE  Lines(Entries(lists), AheadIn(Entries(lists)))
<1> DEFINE E == Entries(lists)
           A == AheadIn(E)
<1>1. \A e \in E : e.score \in Nat /\ e.at \in Spots(lists) /\ e = EntryOf(lists, e.at)
  BY EntriesAre, FirstIs, Zenon
<1>2. A \in [E -> SUBSET E] /\ \A e, f \in E : f \in A[e] <=> AheadOf(f, e)
  BY DEF AheadIn
<1> HIDE DEF E, A
<1>3. ASSUME NEW e \in E PROVE ~AheadOf(e, e)
  <2>1. ~Precedes(e.at, e.at)
    BY <1>1, SpotsInOrder, Zenon
  <2> QED BY <1>1, <2>1 DEF AheadOf
<1>4. ASSUME NEW e \in E, NEW f \in E, e # f PROVE AheadOf(e, f) \/ AheadOf(f, e)
  <2>1. e.at # f.at
    BY <1>1, <1>4, Zenon
  <2>2. Precedes(e.at, f.at) \/ Precedes(f.at, e.at)
    BY <1>1, <2>1, SpotsInOrder, Zenon
  <2>3. e.score \in Nat /\ f.score \in Nat
    BY <1>1
  <2> QED BY <2>2, <2>3 DEF AheadOf
<1>5. ASSUME NEW e \in E, NEW f \in E, NEW g \in E, AheadOf(e, f), AheadOf(f, g) PROVE AheadOf(e, g)
  <2>1. Precedes(e.at, f.at) /\ Precedes(f.at, g.at) => Precedes(e.at, g.at)
    BY <1>1, SpotsInOrder, Zenon
  <2>2. e.score \in Nat /\ f.score \in Nat /\ g.score \in Nat
    BY <1>1
  <2> QED BY <1>5, <2>1, <2>2 DEF AheadOf
<1> QED BY <1>2, <1>3, <1>4, <1>5, Zenon DEF Lines, E, A

\* The k-th of the fused list is the richest item of the k-th best entry.
LEMMA FusedIs ==
  ASSUME NEW lists, Fusable(lists)
  PROVE  /\ ReciprocalRankFusion(lists) \in Seq(Rows)
         /\ \E first \in [1..Len(ReciprocalRankFusion(lists)) -> Firsts(lists)] :
              /\ \A k \in 1..Len(ReciprocalRankFusion(lists)) :
                   ReciprocalRankFusion(lists)[k] = ItemAt(lists, Richest(lists, first[k]))
              /\ \A i, j \in 1..Len(ReciprocalRankFusion(lists)) :
                   i < j => first[i] # first[j] /\ Score(lists, first[i]) >= Score(lists, first[j])
              /\ \A f \in Firsts(lists) : \E k \in 1..Len(ReciprocalRankFusion(lists)) : first[k] = f
<1> DEFINE E == Entries(lists)
           A == AheadIn(E)
           n == Cardinality(E)
           line == InLine(E, A)
           R == ReciprocalRankFusion(lists)
           Kth(k) == CHOOSE e \in E : Cardinality({f \in E : AheadOf(f, e)}) = k - 1
<1>1. /\ n \in Nat /\ line \in [1..n -> E]
      /\ \A i, j \in 1..n : i < j => line[i] \in A[line[j]]
      /\ \A e \in E : \E k \in 1..n : line[k] = e
  BY EntriesAre, EntriesLineUp, InLineIs
<1>2. \A e, f \in E : f \in A[e] <=> AheadOf(f, e)
  BY DEF AheadIn
<1>3. R = [k \in 1..n |-> Kth(k).item]
  BY Zenon DEF ReciprocalRankFusion
<1>4. ASSUME NEW k \in 1..n PROVE Kth(k) = line[k]
  <2> DEFINE L(m) == CHOOSE e \in E : Cardinality(A[e]) = m - 1
  <2>1. \A e \in E : A[e] = {f \in E : AheadOf(f, e)}
    BY DEF AheadIn
  <2>2. line = [m \in 1..n |-> L(m)]
    BY Zenon DEF InLine
  <2>3. line[k] = L(k)
    BY <2>2, Zenon
  <2> HIDE DEF E, A, line
  <2>4. \A e : e \in E /\ Cardinality({f \in E : AheadOf(f, e)}) = k - 1
               <=> e \in E /\ Cardinality(A[e]) = k - 1
    BY <2>1, Zenon
  <2>5. Kth(k) = L(k)
    BY <2>4, Zenon
  <2> QED BY <2>3, <2>5, Zenon
<1> DEFINE first == [k \in 1..n |-> line[k].at]
<1>5. \A e \in E : /\ e.at \in Firsts(lists) /\ e = EntryOf(lists, e.at)
                   /\ e.score = Score(lists, e.at) /\ e.score \in Nat
                   /\ e.item = ItemAt(lists, Richest(lists, e.at)) /\ e.item \in Rows
  BY EntriesAre, Zenon
<1>6. \A f \in Firsts(lists) : \E e \in E : e.at = f
  BY EntriesAre, Zenon
<1>7. \A e \in E : ~AheadOf(e, e)
  <2>1. \A e \in E : e \notin A[e]
    BY EntriesLineUp, Zenon DEF Lines
  <2> QED BY <1>2, <2>1, Zenon
<1> HIDE DEF E, A, n, line, R, Kth
<1>8. ASSUME NEW k \in 1..n
      PROVE  R[k] = line[k].item /\ R[k] \in Rows /\ line[k] \in E /\ first[k] = line[k].at
  BY <1>1, <1>3, <1>4, <1>5
<1>9. R \in Seq(Rows) /\ Len(R) = n
  <2>1. R = [k \in 1..n |-> R[k]]
    BY <1>3
  <2> QED BY <1>1, <1>8, <2>1
<1>10. first \in [1..n -> Firsts(lists)]
  BY <1>1, <1>5
<1> HIDE DEF first
<1>11. \A k \in 1..n : R[k] = ItemAt(lists, Richest(lists, first[k]))
  BY <1>5, <1>8, Zenon
<1>12. ASSUME NEW i \in 1..n, NEW j \in 1..n, i < j
       PROVE  first[i] # first[j] /\ Score(lists, first[i]) >= Score(lists, first[j])
  <2>1. AheadOf(line[i], line[j])
    BY <1>1, <1>2, <1>8, <1>12, Zenon
  <2>2. line[i] # line[j]
    BY <1>7, <1>8, <2>1, Zenon
  <2>3. first[i] # first[j]
    BY <1>5, <1>8, <2>2, Zenon
  <2>4. line[i].score >= line[j].score
    <3>1. line[i].score \in Nat /\ line[j].score \in Nat
      BY <1>5, <1>8, Zenon
    <3> QED BY <2>1, <3>1 DEF AheadOf
  <2> QED BY <1>5, <1>8, <2>3, <2>4, Zenon
<1>13. ASSUME NEW f \in Firsts(lists) PROVE \E k \in 1..n : first[k] = f
  <2>1. PICK e \in E : e.at = f
    BY <1>6, Zenon
  <2>2. PICK k \in 1..n : line[k] = e
    BY <1>1, <2>1, Zenon
  <2> QED BY <1>8, <2>1, <2>2, Zenon
<1> QED BY <1>9, <1>10, <1>11, <1>12, <1>13, Zenon DEF R

\* No near copies: of a text, the first.
LEMMA DedupeIs ==
  ASSUME NEW items \in Seq(Rows)
  PROVE  /\ DedupeNearDuplicates(items) \in Seq(Rows)
         /\ \E at \in [1..Len(DedupeNearDuplicates(items)) -> DOMAIN items] :
              /\ \A i, j \in 1..Len(DedupeNearDuplicates(items)) :
                   i < j => at[i] < at[j] /\ (items[at[i]].text = "" \/ items[at[i]].text # items[at[j]].text)
              /\ \A k \in 1..Len(DedupeNearDuplicates(items)) : DedupeNearDuplicates(items)[k] = items[at[k]]
              /\ \A i \in DOMAIN items : \E k \in 1..Len(DedupeNearDuplicates(items)) :
                   at[k] = i \/ (items[at[k]].text = items[i].text /\ items[i].text # "")
<1> DEFINE I == {i \in DOMAIN items :
                   items[i].text = "" \/ \A j \in 1..(i - 1) : items[j].text # items[i].text}
           D == DedupeNearDuplicates(items)
           c == Cardinality(I)
<1>1. D = Picked(items, I)
  BY Zenon DEF DedupeNearDuplicates
<1>2. I \subseteq DOMAIN items
  OBVIOUS
<1>3. \A i \in I : items[i].text = "" \/ \A j \in 1..(i - 1) : items[j].text # items[i].text
  OBVIOUS
<1>4. \A i \in DOMAIN items :
        items[i].text = "" \/ (\A j \in 1..(i - 1) : items[j].text # items[i].text) => i \in I
  OBVIOUS
<1>5. DOMAIN items = 1..Len(items) /\ Len(items) \in Nat
  OBVIOUS
<1> HIDE DEF I, D
<1>6. D \in Seq(Rows) /\ Len(D) = c
  BY <1>1, <1>2, PickedIs, Zenon
<1>7. PICK at \in [1..c -> I] :
        /\ Ascends(at, c)
        /\ \A k \in 1..c : D[k] = items[at[k]]
        /\ \A i \in I : \E k \in 1..c : at[k] = i
  BY <1>1, <1>2, PickedIs
<1> HIDE DEF c
<1>8. at \in [1..c -> DOMAIN items]
  BY <1>2, <1>7
<1>9. ASSUME NEW i \in 1..c, NEW j \in 1..c, i < j
      PROVE  at[i] < at[j] /\ (items[at[i]].text = "" \/ items[at[i]].text # items[at[j]].text)
  <2>1. at[i] < at[j]
    BY <1>7, <1>9, Zenon DEF Ascends
  <2>2. at[i] \in I /\ at[j] \in I /\ at[i] \in Nat /\ at[j] \in Nat /\ at[i] > 0
    BY <1>2, <1>5, <1>7
  <2>3. at[i] \in 1..(at[j] - 1)
    BY <2>1, <2>2
  <2>4. items[at[j]].text = "" \/ items[at[i]].text # items[at[j]].text
    BY <1>3, <2>2, <2>3, Zenon
  <2> QED BY <2>1, <2>4, Zenon
<1>10. ASSUME NEW i \in DOMAIN items
       PROVE  \E k \in 1..c : at[k] = i \/ (items[at[k]].text = items[i].text /\ items[i].text # "")
  <2>1. CASE i \in I
    BY <1>7, <2>1, Zenon
  <2>2. CASE i \notin I
    <3>1. items[i].text # ""
      BY <1>4, <2>2, Zenon
    <3> DEFINE J == {j \in DOMAIN items : items[j].text = items[i].text}
    <3>2. i \in J /\ J \subseteq Nat
      BY <1>5
    <3>3. PICK j \in J : \A m \in J : j <= m
      BY <3>2, LeastNumber
    <3>4. j \in DOMAIN items /\ items[j].text = items[i].text /\ j \in Nat
      BY <1>5, <3>3
    <3>5. \A m \in 1..(j - 1) : items[m].text # items[j].text
      <4> SUFFICES ASSUME NEW m \in 1..(j - 1), items[m].text = items[j].text PROVE FALSE
        OBVIOUS
      <4>1. m \in DOMAIN items /\ ~(j <= m)
        BY <1>5, <3>4
      <4>2. m \in J
        BY <3>4, <4>1
      <4> QED BY <3>3, <4>1, <4>2
    <3>6. j \in I
      BY <1>4, <3>4, <3>5, Zenon
    <3>7. PICK k \in 1..c : at[k] = j
      BY <1>7, <3>6, Zenon
    <3> QED BY <3>1, <3>4, <3>7, Zenon
  <2> QED BY <2>1, <2>2
<1>11. at \in [1..Len(D) -> DOMAIN items]
  BY <1>6, <1>8
<1>12. \A k \in 1..Len(D) : D[k] = items[at[k]]
  BY <1>6, <1>7
<1>13. \A i, j \in 1..Len(D) :
         i < j => at[i] < at[j] /\ (items[at[i]].text = "" \/ items[at[i]].text # items[at[j]].text)
  BY <1>6, <1>9
<1>14. \A i \in DOMAIN items : \E k \in 1..Len(D) :
         at[k] = i \/ (items[at[k]].text = items[i].text /\ items[i].text # "")
  BY <1>6, <1>10
<1> QED BY <1>6, <1>11, <1>12, <1>13, <1>14, Zenon DEF D

-----------------------------------------------------------------------------
(* What is shown of several legs.                                           *)

LegRecs == [served : BOOLEAN, items : Seq(Rows), answers : BOOLEAN]

\* Legs that vendors can bring.
LegsOK(legs) ==
  /\ legs \in Seq(LegRecs)
  /\ \A l \in DOMAIN legs : Len(legs[l].items) <= Places

ListsOf(legs) == [l \in DOMAIN legs |-> [items |-> legs[l].items, weight |-> IF l = 1 THEN 10 ELSE 7]]

LEMMA ListsOfAre ==
  ASSUME NEW legs, LegsOK(legs)
  PROVE  /\ Fusable(ListsOf(legs)) /\ DOMAIN ListsOf(legs) = DOMAIN legs
         /\ \A l \in DOMAIN legs : ListsOf(legs)[l].items = legs[l].items
<1> DEFINE w(l) == IF l = 1 THEN 10 ELSE 7
           L(l) == [items |-> legs[l].items, weight |-> w(l)]
           n == Len(legs)
<1>1. n \in Nat /\ DOMAIN legs = 1..n /\ \A l \in DOMAIN legs : legs[l] \in LegRecs
  BY DEF LegsOK
<1>2. \A l \in DOMAIN legs : legs[l].items \in Seq(Rows)
  BY <1>1 DEF LegRecs
<1>3. ListsOf(legs) = [l \in 1..n |-> L(l)]
  BY <1>1, Zenon DEF ListsOf
<1>4. \A l : w(l) \in {7, 10}
  OBVIOUS
<1> HIDE DEF w, n
<1>5. \A l \in 1..n : L(l) \in FusableLists /\ L(l).items = legs[l].items
  BY <1>1, <1>2, <1>4 DEF FusableLists
<1> HIDE DEF L
<1>6. [l \in 1..n |-> L(l)] \in Seq(FusableLists) /\ \A l \in 1..n : [k \in 1..n |-> L(k)][l] = L(l)
  BY <1>1, <1>5
<1>7. DOMAIN ListsOf(legs) = DOMAIN legs /\ \A l \in DOMAIN legs : ListsOf(legs)[l].items = legs[l].items
  BY <1>1, <1>3, <1>5
<1>8. \A l \in DOMAIN ListsOf(legs) : Len(ListsOf(legs)[l].items) <= Places
  BY <1>7 DEF LegsOK
<1> QED BY <1>3, <1>6, <1>7, <1>8, Zenon DEF Fusable

\* The first of the fused and deduped list, up to the limit.
Cut(lists, limit) ==
  LET all == DedupeNearDuplicates(ReciprocalRankFusion(lists))
  IN SubSeq(all, 1, IF limit < Len(all) THEN limit ELSE Len(all))

\* Item k shown is the richest of the entry of first[k], entries come by their
\* score, and only the limit or a near copy leaves one out.
ShowsBy(lists, limit, shown, first) ==
  /\ first \in [1..Len(shown) -> Firsts(lists)]
  /\ \A k \in 1..Len(shown) : shown[k] = ItemAt(lists, Richest(lists, first[k]))
  /\ \A i, j \in 1..Len(shown) :
       i < j => /\ first[i] # first[j] /\ Score(lists, first[i]) >= Score(lists, first[j])
                /\ shown[i].text = "" \/ shown[i].text # shown[j].text
  /\ \/ Len(shown) = limit
     \/ \A f \in Firsts(lists) : \E k \in 1..Len(shown) :
          \/ first[k] = f
          \/ shown[k].text = ItemAt(lists, Richest(lists, f)).text /\ shown[k].text # ""

LEMMA CutShows ==
  ASSUME NEW lists, Fusable(lists), NEW limit \in Nat \ {0}
  PROVE  /\ Cut(lists, limit) \in Seq(Rows) /\ Len(Cut(lists, limit)) <= limit
         /\ Spots(lists) # {} => Cut(lists, limit) # <<>>
         /\ \E first : ShowsBy(lists, limit, Cut(lists, limit), first)
<1> DEFINE R == ReciprocalRankFusion(lists)
           D == DedupeNearDuplicates(R)
           s == Cut(lists, limit)
           F == Firsts(lists)
           Top(f) == ItemAt(lists, Richest(lists, f))
<1>1. R \in Seq(Rows)
  BY FusedIs, Zenon
<1>2. PICK fr \in [1..Len(R) -> F] :
        /\ \A k \in 1..Len(R) : R[k] = Top(fr[k])
        /\ \A i, j \in 1..Len(R) :
             i < j => fr[i] # fr[j] /\ Score(lists, fr[i]) >= Score(lists, fr[j])
        /\ \A f \in F : \E k \in 1..Len(R) : fr[k] = f
  BY FusedIs
<1> HIDE DEF R
<1>3. D \in Seq(Rows) /\ DOMAIN R = 1..Len(R) /\ Len(R) \in Nat
  <2>1. D \in Seq(Rows)
    BY <1>1, DedupeIs, Zenon
  <2>2. DOMAIN R = 1..Len(R) /\ Len(R) \in Nat
    BY <1>1
  <2> QED BY <2>1, <2>2
<1>4. PICK at \in [1..Len(D) -> DOMAIN R] :
        /\ \A i, j \in 1..Len(D) :
             i < j => at[i] < at[j] /\ (R[at[i]].text = "" \/ R[at[i]].text # R[at[j]].text)
        /\ \A k \in 1..Len(D) : D[k] = R[at[k]]
        /\ \A i \in DOMAIN R : \E k \in 1..Len(D) :
             at[k] = i \/ (R[at[k]].text = R[i].text /\ R[i].text # "")
  BY <1>1, DedupeIs
<1>5. s = SubSeq(D, 1, IF limit < Len(D) THEN limit ELSE Len(D))
  BY Zenon DEF Cut, R
<1> HIDE DEF D, s
<1>6. /\ s \in Seq(Rows) /\ Len(s) \in Nat /\ Len(s) <= limit
      /\ Len(s) = limit \/ Len(s) = Len(D)
      /\ \A k \in 1..Len(s) : k \in 1..Len(D) /\ s[k] = D[k]
  <2>1. Len(D) \in Nat /\ limit \in Nat
    BY <1>3
  <2>2. CASE limit < Len(D)
    <3>1. s = SubSeq(D, 1, limit)
      BY <1>5, <2>2
    <3> QED BY <1>3, <2>1, <2>2, <3>1
  <2>3. CASE ~(limit < Len(D))
    <3>1. s = SubSeq(D, 1, Len(D))
      BY <1>5, <2>3
    <3> QED BY <1>3, <2>1, <2>3, <3>1
  <2> QED BY <2>2, <2>3
<1> DEFINE first == [k \in 1..Len(s) |-> fr[at[k]]]
<1>7. ASSUME NEW k \in 1..Len(s)
      PROVE  /\ k \in 1..Len(D) /\ at[k] \in 1..Len(R) /\ first[k] = fr[at[k]] /\ fr[at[k]] \in F
             /\ s[k] = R[at[k]] /\ R[at[k]] = Top(fr[at[k]])
  <2>1. k \in 1..Len(D) /\ s[k] = D[k] /\ D[k] = R[at[k]]
    BY <1>4, <1>6
  <2>2. at[k] \in 1..Len(R)
    BY <1>3, <1>4, <2>1
  <2>3. fr[at[k]] \in F /\ R[at[k]] = Top(fr[at[k]])
    BY <1>2, <2>2
  <2> QED BY <2>1, <2>2, <2>3
<1>8. first \in [1..Len(s) -> F]
  BY <1>7
<1> HIDE DEF first, Top
<1>9. \A k \in 1..Len(s) : s[k] = Top(first[k])
  BY <1>7, Zenon
<1>10. ASSUME NEW i \in 1..Len(s), NEW j \in 1..Len(s), i < j
       PROVE  /\ first[i] # first[j] /\ Score(lists, first[i]) >= Score(lists, first[j])
              /\ s[i].text = "" \/ s[i].text # s[j].text
  <2>1. at[i] < at[j] /\ (R[at[i]].text = "" \/ R[at[i]].text # R[at[j]].text)
    BY <1>4, <1>7, <1>10, Zenon
  <2>2. fr[at[i]] # fr[at[j]] /\ Score(lists, fr[at[i]]) >= Score(lists, fr[at[j]])
    BY <1>2, <1>7, <2>1, Zenon
  <2> QED BY <1>7, <2>1, <2>2, Zenon
<1>11. ASSUME Len(s) # limit, NEW f \in F
       PROVE  \E k \in 1..Len(s) : first[k] = f \/ (s[k].text = Top(f).text /\ s[k].text # "")
  <2>1. Len(s) = Len(D)
    BY <1>6, <1>11
  <2>2. PICK i \in 1..Len(R) : fr[i] = f
    BY <1>2, Zenon
  <2>3. R[i] = Top(f)
    BY <1>2, <2>2, Zenon
  <2>4. PICK k \in 1..Len(D) : at[k] = i \/ (R[at[k]].text = R[i].text /\ R[i].text # "")
    BY <1>3, <1>4, Zenon
  <2>5. k \in 1..Len(s)
    BY <2>1
  <2>6. s[k] = R[at[k]] /\ first[k] = fr[at[k]]
    BY <1>7, <2>5, Zenon
  <2> QED BY <2>2, <2>3, <2>4, <2>5, <2>6, Zenon
<1>12. ASSUME Spots(lists) # {} PROVE s # <<>>
  <2>1. PICK f : f \in F
    BY <1>12, FirstIs, Zenon
  <2>2. PICK i \in 1..Len(R) : fr[i] = f
    BY <1>2, <2>1, Zenon
  <2>3. PICK k \in 1..Len(D) : TRUE
    BY <1>3, <1>4, Zenon
  <2>4. Len(s) # 0
    BY <1>6, <2>3
  <2> QED BY <2>4
<1>13. ShowsBy(lists, limit, s, first)
  BY <1>8, <1>9, <1>10, <1>11, Zenon DEF ShowsBy, Top
<1> QED BY <1>6, <1>12, <1>13, Zenon DEF s

-----------------------------------------------------------------------------
(* What a key tells.                                                        *)

\* Equal keys are equal addresses, or equal texts of items without one, or the
\* key of one item; and whoever has an address goes by it.
LEMMA KeyTells ==
  ASSUME NEW lists, Fusable(lists), NEW a \in Spots(lists), NEW b \in Spots(lists)
  PROVE  LET x == ItemAt(lists, a)
             y == ItemAt(lists, b)
         IN /\ KeyAt(lists, a) = KeyAt(lists, b) => a = b \/ Same(x, y)
            /\ x.page # "" => (KeyAt(lists, a) = KeyAt(lists, b) <=> x.page = y.page)
<1> DEFINE x == ItemAt(lists, a)
           y == ItemAt(lists, b)
<1>1. x \in Rows /\ y \in Rows
  BY SpotIs, Zenon
<1>2. KeyAt(lists, a) = ResultKey(x, a) /\ KeyAt(lists, b) = ResultKey(y, b)
  BY DEF KeyAt
<1> HIDE DEF x, y
<1>3. /\ x.page # "" => ResultKey(x, a) = <<"page", x.page>>
      /\ x.page = "" /\ x.text # "" => ResultKey(x, a) = <<"text", x.text>>
      /\ x.page = "" /\ x.text = "" => ResultKey(x, a) = <<"stub", a>>
  BY DEF ResultKey
<1>4. /\ y.page # "" => ResultKey(y, b) = <<"page", y.page>>
      /\ y.page = "" /\ y.text # "" => ResultKey(y, b) = <<"text", y.text>>
      /\ y.page = "" /\ y.text = "" => ResultKey(y, b) = <<"stub", b>>
  BY DEF ResultKey
<1>5. \A t, v : <<"page", t>> # <<"text", v>> /\ <<"page", t>> # <<"stub", v>> /\ <<"text", t>> # <<"stub", v>>
  OBVIOUS
<1>6. \A s, t, v : <<s, t>> = <<s, v>> => t = v
  OBVIOUS
<1> DEFINE X == ResultKey(x, a)
           Y == ResultKey(y, b)
<1> HIDE DEF X, Y
<1>7. ASSUME X = Y PROVE a = b \/ Same(x, y)
  <2>1. CASE x.page # ""
    <3>1. X = <<"page", x.page>>
      BY <1>3, <2>1, Zenon DEF X
    <3>2. y.page # ""
      BY <1>4, <1>5, <1>7, <3>1, Zenon DEF Y
    <3>3. x.page = y.page
      BY <1>4, <1>6, <1>7, <3>1, <3>2, Zenon DEF Y
    <3> QED BY <2>1, <3>3, Zenon DEF Same
  <2>2. CASE x.page = "" /\ x.text # ""
    <3>1. X = <<"text", x.text>>
      BY <1>3, <2>2, Zenon DEF X
    <3>2. y.page = "" /\ y.text # ""
      BY <1>4, <1>5, <1>7, <3>1, Zenon DEF Y
    <3>3. x.text = y.text
      BY <1>4, <1>6, <1>7, <3>1, <3>2, Zenon DEF Y
    <3> QED BY <2>2, <3>3, Zenon DEF Same
  <2>3. CASE x.page = "" /\ x.text = ""
    <3>1. X = <<"stub", a>>
      BY <1>3, <2>3, Zenon DEF X
    <3>2. y.page = "" /\ y.text = ""
      BY <1>4, <1>5, <1>7, <3>1, Zenon DEF Y
    <3>3. a = b
      BY <1>4, <1>6, <1>7, <3>1, <3>2, Zenon DEF Y
    <3> QED BY <3>3, Zenon
  <2> QED BY <2>1, <2>2, <2>3, Zenon
<1>8. ASSUME x.page # "" PROVE X = Y <=> x.page = y.page
  <2>1. X = <<"page", x.page>>
    BY <1>3, <1>8, Zenon DEF X
  <2>2. ASSUME X = Y PROVE x.page = y.page
    <3>1. y.page # ""
      BY <1>4, <1>5, <2>1, <2>2, Zenon DEF Y
    <3> QED BY <1>4, <1>6, <2>1, <2>2, <3>1, Zenon DEF Y
  <2>3. ASSUME x.page = y.page PROVE X = Y
    <3>1. Y = <<"page", y.page>>
      BY <1>4, <1>8, <2>3, Zenon DEF Y
    <3> QED BY <2>1, <2>3, <3>1
  <2> QED BY <2>2, <2>3, Zenon
<1> QED BY <1>2, <1>7, <1>8, Zenon DEF x, y, X, Y

\* The places of the entry of an item with an address are those of its address.
LEMMA PageKeys ==
  ASSUME NEW legs, LegsOK(legs), NEW spot \in Spots(ListsOf(legs)), NEW x,
         x.page = ItemAt(ListsOf(legs), Richest(ListsOf(legs), spot)).page, x.page # "",
         NEW l \in DOMAIN legs
  PROVE  KeyIn(ListsOf(legs), l, spot) = PlacesOf(x, legs[l].items)
<1> DEFINE L == ListsOf(legs)
           r == Richest(L, spot)
<1>1. /\ Fusable(L) /\ DOMAIN L = DOMAIN legs
      /\ \A m \in DOMAIN legs : L[m].items = legs[m].items
  BY ListsOfAre, Zenon
<1>2. r \in Spots(L) /\ KeyAt(L, r) = KeyAt(L, spot)
  BY <1>1, RichestIs, Zenon
<1>3. ASSUME NEW i \in DOMAIN legs[l].items
      PROVE  KeyAt(L, <<l, i>>) = KeyAt(L, spot) <=> legs[l].items[i].page = x.page
  <2>1. <<l, i>> \in Spots(L)
    BY <1>1, <1>3, SpotIs, Zenon
  <2>2. ItemAt(L, <<l, i>>) = legs[l].items[i]
    BY <1>1 DEF ItemAt
  <2>3. KeyAt(L, r) = KeyAt(L, <<l, i>>) <=> ItemAt(L, r).page = ItemAt(L, <<l, i>>).page
    BY <1>1, <1>2, <2>1, KeyTells, Zenon
  <2> QED BY <1>2, <2>2, <2>3, Zenon
<1> HIDE DEF L
<1>4. KeyIn(L, l, spot) = {i \in DOMAIN legs[l].items : KeyAt(L, <<l, i>>) = KeyAt(L, spot)}
  BY <1>1 DEF KeyIn
<1>5. PlacesOf(x, legs[l].items) = {i \in DOMAIN legs[l].items : legs[l].items[i].page = x.page}
  BY DEF PlacesOf
<1>6. KeyIn(L, l, spot) = PlacesOf(x, legs[l].items)
  BY <1>3, <1>4, <1>5
<1> QED BY <1>6 DEF L

-----------------------------------------------------------------------------
(* The answer of several legs is well fused.                                *)

LEMMA PairIs ==
  ASSUME NEW l, NEW S, NEW u \in {l} \X S
  PROVE  u = <<l, u[2]>> /\ u[2] \in S
<1>1. u = <<u[1], u[2]>> /\ u[1] \in {l} /\ u[2] \in S
  OBVIOUS
<1> QED BY <1>1

LEMMA AtMostOne ==
  ASSUME NEW S, IsFiniteSet(S), Cardinality(S) <= 1
  PROVE  \A a, b \in S : a = b
<1>1. Cardinality(S) \in Nat
  BY FS_CardinalityType, Zenon
<1>2. CASE Cardinality(S) = 0
  BY <1>2, FS_EmptySet, Zenon
<1>3. CASE Cardinality(S) = 1
  <2>1. PICK e : S = {e}
    BY <1>3, FS_Singleton, Zenon
  <2> QED BY <2>1
<1> QED BY <1>1, <1>2, <1>3

\* The places of a page in a leg are few.
LEMMA PlacesAre ==
  ASSUME NEW legs, LegsOK(legs), NEW l \in DOMAIN legs, NEW x
  PROVE  /\ PlacesOf(x, legs[l].items) \subseteq 1..Places
         /\ IsFiniteSet(PlacesOf(x, legs[l].items))
<1>1. Fusable(ListsOf(legs)) /\ l \in DOMAIN ListsOf(legs) /\ ListsOf(legs)[l].items = legs[l].items
  BY ListsOfAre, Zenon
<1>2. \A i \in DOMAIN legs[l].items : i \in 1..Places
  BY <1>1, ListIs, Zenon
<1>3. PlacesOf(x, legs[l].items) \subseteq 1..Places
  BY <1>2 DEF PlacesOf
<1>4. IsFiniteSet(1..Places)
  <2>1. 1 \in Int /\ Places \in Int
    BY FusionAssumption
  <2> QED BY <2>1, FS_Interval, Zenon
<1> QED BY <1>3, <1>4, FS_Subset, Zenon

\* Whoever outranks has the greater score.
LEMMA OutranksScores ==
  ASSUME NEW legs, LegsOK(legs),
         NEW s \in Firsts(ListsOf(legs)), NEW t \in Firsts(ListsOf(legs)), NEW x, NEW y,
         x = ItemAt(ListsOf(legs), Richest(ListsOf(legs), s)), x.page # "",
         y = ItemAt(ListsOf(legs), Richest(ListsOf(legs), t)), y.page # "",
         Outranks(y, x, legs)
  PROVE  Score(ListsOf(legs), s) < Score(ListsOf(legs), t)
<1> DEFINE L == ListsOf(legs)
<1>1. /\ Fusable(L) /\ DOMAIN L = DOMAIN legs
      /\ \A m \in DOMAIN legs : L[m].items = legs[m].items
  BY ListsOfAre, Zenon
<1>2. s \in Spots(L) /\ t \in Spots(L)
  BY <1>1, FirstIs, Zenon
<1>3. ASSUME NEW l \in DOMAIN legs
      PROVE  /\ KeyIn(L, l, s) = PlacesOf(x, legs[l].items)
             /\ KeyIn(L, l, t) = PlacesOf(y, legs[l].items)
  BY <1>2, PageKeys, Zenon
<1>4. /\ s = <<s[1], s[2]>> /\ s[1] \in DOMAIN legs /\ s[2] \in DOMAIN L[s[1]].items
      /\ s[2] \in KeyIn(L, s[1], s)
  <2>1. s = <<s[1], s[2]>> /\ s[1] \in DOMAIN legs /\ s[2] \in DOMAIN L[s[1]].items
    BY <1>1, <1>2, SpotIs, Zenon
  <2>2. KeyAt(L, <<s[1], s[2]>>) = KeyAt(L, s)
    BY <2>1, Zenon
  <2> HIDE DEF L
  <2> QED BY <2>1, <2>2 DEF KeyIn
<1> HIDE DEF L
<1>5. CASE Ahead(y, x, legs)
  <2>1. ASSUME NEW l \in DOMAIN L PROVE Better(L, l, t, s)
    <3> DEFINE P == PlacesOf(x, legs[l].items)
               Q == PlacesOf(y, legs[l].items)
    <3>1. l \in DOMAIN legs /\ L[l].items = legs[l].items
      BY <1>1, <2>1, Zenon
    <3>2. Cardinality(P) <= 1 /\ IsFiniteSet(P)
      BY <1>5, <3>1, PlacesAre, Zenon DEF Ahead
    <3>3. \A i \in P : \E j \in Q : j < i /\ Quality(legs[l].items[j]) >= Quality(legs[l].items[i])
      BY <1>5, <3>1, Zenon DEF Ahead
    <3>4. KeyIn(L, l, s) = P /\ KeyIn(L, l, t) = Q
      BY <1>3, <3>1, Zenon
    <3> HIDE DEF P, Q
    <3>5. \A a, b \in P : a = b
      BY <3>2, AtMostOne, Zenon
    <3> QED BY <3>1, <3>3, <3>4, <3>5, Zenon DEF Better
  <2>2. s[1] \in DOMAIN L /\ KeyIn(L, s[1], s) # {}
    BY <1>1, <1>4, Zenon
  <2>3. Score(L, s) < Score(L, t)
    BY <1>1, <2>1, <2>2, BetterScore, Zenon
  <2> QED BY <2>3 DEF L
<1>6. CASE Agreed(y, legs) /\ FoundOnce(x, legs)
  <2> DEFINE P(l) == PlacesOf(x, legs[l].items)
             U == UNION {{l} \X P(l) : l \in DOMAIN legs}
  <2>1. Cardinality(U) = 1
    BY <1>6, Zenon DEF FoundOnce
  <2>2. ASSUME NEW l \in DOMAIN legs, NEW i \in P(l) PROVE <<l, i>> \in U
    <3>1. <<l, i>> \in {l} \X P(l)
      BY <2>2
    <3> QED BY <3>1, Zenon
  <2>3. IsFiniteSet(U)
    <3>1. ASSUME NEW u \in U PROVE u \in Spots(L)
      <4>1. PICK l \in DOMAIN legs : u \in {l} \X P(l)
        BY <3>1, Zenon
      <4>2. u = <<l, u[2]>> /\ u[2] \in P(l)
        BY <4>1, PairIs, Zenon
      <4>3. u[2] \in DOMAIN legs[l].items
        BY <4>2 DEF PlacesOf
      <4>4. <<l, u[2]>> \in Spots(L)
        BY <1>1, <4>1, <4>3, SpotIs, Zenon
      <4> QED BY <4>2, <4>4, Zenon
    <3>2. U \in SUBSET Spots(L)
      BY <3>1, Zenon
    <3> QED BY <1>1, <3>2, SpotsFinite, FS_Subset, Zenon
  <2> HIDE DEF U
  <2>4. \A u, v \in U : u = v
    <3>1. PICK e : U = {e}
      BY <2>1, <2>3, FS_Singleton, Zenon
    <3> QED BY <3>1
  <2> DEFINE m == s[1]
             h == s[2]
  <2>5. m \in DOMAIN L /\ h \in KeyIn(L, m, s) /\ h \in P(m) /\ <<m, h>> \in U
    BY <1>1, <1>3, <1>4, <2>2, Zenon
  <2> HIDE DEF m, h
  <2>6. \A p, q, u, v : <<p, q>> = <<u, v>> => p = u /\ q = v
    OBVIOUS
  <2>7. ASSUME NEW j \in KeyIn(L, m, s) PROVE h = j
    <3>1. m \in DOMAIN legs /\ j \in P(m)
      BY <1>1, <1>3, <2>5, <2>7, Zenon
    <3>2. <<m, j>> \in U
      BY <2>2, <3>1, Zenon
    <3>3. <<m, h>> = <<m, j>>
      BY <2>4, <2>5, <3>2, Zenon
    <3> QED BY <2>6, <3>3, Zenon
  <2>8. ASSUME NEW l \in DOMAIN L, l # m, NEW j \in KeyIn(L, l, s) PROVE FALSE
    <3>1. l \in DOMAIN legs /\ j \in P(l)
      BY <1>1, <1>3, <2>8, Zenon
    <3>2. <<l, j>> \in U
      BY <2>2, <3>1, Zenon
    <3>3. <<m, h>> = <<l, j>>
      BY <2>4, <2>5, <3>2, Zenon
    <3> QED BY <2>6, <2>8, <3>3, Zenon
  <2>9. \A l \in DOMAIN L : l # m => KeyIn(L, l, s) = {}
    BY <2>8, Zenon
  <2>10. PICK k \in DOMAIN legs, l \in DOMAIN legs :
           k < l /\ \A n \in {k, l} :
             \E j \in PlacesOf(y, legs[n].items) : j <= 20 /\ Quality(legs[n].items[j]) = 4
    BY <1>6, Zenon DEF Agreed
  <2>11. PICK i \in PlacesOf(y, legs[k].items) : i <= 20 /\ Quality(legs[k].items[i]) = 4
    BY <2>10
  <2>12. PICK j \in PlacesOf(y, legs[l].items) : j <= 20 /\ Quality(legs[l].items[j]) = 4
    BY <2>10
  <2>13. /\ k \in DOMAIN L /\ l \in DOMAIN L /\ i \in KeyIn(L, k, t) /\ j \in KeyIn(L, l, t)
         /\ Quality(L[k].items[i]) = 4 /\ Quality(L[l].items[j]) = 4
    BY <1>1, <1>3, <2>11, <2>12, Zenon
  <2>14. Score(L, s) < Score(L, t)
    BY <1>1, <2>5, <2>7, <2>9, <2>10, <2>11, <2>12, <2>13, AgreedScore, Zenon
  <2> QED BY <2>14 DEF L
<1> QED BY <1>5, <1>6, Zenon DEF Outranks

LEMMA WithinHas ==
  ASSUME NEW legs, NEW l \in DOMAIN legs, NEW i \in DOMAIN legs[l].items
  PROVE  legs[l].items[i] \in Within(legs)
<1>1. legs[l].items[i] \in {legs[l].items[k] : k \in DOMAIN legs[l].items}
  BY Zenon
<1> QED BY <1>1, Zenon DEF Within

LEMMA FusedWell ==
  ASSUME NEW legs, LegsOK(legs), NEW m \in DOMAIN legs, legs[m].items # <<>>
  PROVE  /\ WellFused(legs, Cut(ListsOf(legs), MaxResults))
         /\ Cut(ListsOf(legs), MaxResults) \in Seq(Rows)
<1> DEFINE L == ListsOf(legs)
           shown == Cut(L, MaxResults)
           n == Len(shown)
           F == Firsts(L)
           Top(f) == ItemAt(L, Richest(L, f))
<1>1. /\ Fusable(L) /\ DOMAIN L = DOMAIN legs
      /\ \A l \in DOMAIN legs : L[l].items = legs[l].items
  BY ListsOfAre, Zenon
<1>2. MaxResults \in Nat \ {0}
  BY CacheAssumption
<1>3. /\ shown \in Seq(Rows) /\ n <= MaxResults
      /\ Spots(L) # {} => shown # <<>>
      /\ \E first : ShowsBy(L, MaxResults, shown, first)
  BY <1>1, <1>2, CutShows, Zenon
<1>4. PICK first : ShowsBy(L, MaxResults, shown, first)
  BY <1>3, Zenon
<1>5. DOMAIN shown = 1..n /\ n \in Nat
  BY <1>3
<1>6. Spots(L) # {}
  <2>1. legs[m].items \in Seq(Rows)
    BY <1>1, ListIs, Zenon
  <2>2. 1 \in DOMAIN legs[m].items
    BY <2>1
  <2> QED BY <1>1, <2>2, SpotIs, Zenon
<1> HIDE DEF shown, n
<1>7. /\ \A k \in 1..n : first[k] \in F /\ shown[k] = Top(first[k])
      /\ \A i, j \in 1..n :
           i < j => /\ first[i] # first[j] /\ Score(L, first[i]) >= Score(L, first[j])
                    /\ shown[i].text = "" \/ shown[i].text # shown[j].text
      /\ \/ n = MaxResults
         \/ \A f \in F : \E k \in 1..n :
              first[k] = f \/ (shown[k].text = Top(f).text /\ shown[k].text # "")
  <2> HIDE DEF L, F
  <2>1. first \in [1..n -> F]
    BY <1>4, Zenon DEF ShowsBy, n, F
  <2> QED BY <1>4, <2>1, Zenon DEF ShowsBy, n, F
<1>8. ASSUME NEW f \in F
      PROVE  /\ f \in Spots(L) /\ Richest(L, f) \in Spots(L)
             /\ KeyAt(L, Richest(L, f)) = KeyAt(L, f) /\ Score(L, f) \in Nat
  <2>1. f \in Spots(L)
    BY <1>1, FirstIs, Zenon
  <2> QED BY <1>1, <2>1, RichestIs, ScoreIs, Zenon
<1>9. ASSUME NEW i \in 1..n, NEW j \in 1..n, i < j
      PROVE  ~Same(shown[i], shown[j])
  <2>1. first[i] \in F /\ first[j] \in F /\ first[i] # first[j]
    BY <1>7, <1>9, Zenon
  <2>2. ASSUME shown[i].page = shown[j].page, shown[i].page # "" PROVE FALSE
    <3>1. KeyAt(L, Richest(L, first[i])) = KeyAt(L, Richest(L, first[j]))
      <4> DEFINE a == Richest(L, first[i])
                 b == Richest(L, first[j])
      <4>1. a \in Spots(L) /\ b \in Spots(L)
        BY <1>8, <2>1, Zenon
      <4>2. shown[i] = ItemAt(L, a) /\ shown[j] = ItemAt(L, b)
        BY <1>7, Zenon
      <4> HIDE DEF a, b, L
      <4>3. ItemAt(L, a).page # "" /\ ItemAt(L, a).page = ItemAt(L, b).page
        BY <2>2, <4>2, Zenon
      <4>4. KeyAt(L, a) = KeyAt(L, b)
        BY <1>1, <4>1, <4>3, KeyTells, Zenon
      <4> QED BY <4>4 DEF a, b
    <3>2. KeyAt(L, first[i]) = KeyAt(L, first[j])
      BY <1>8, <2>1, <3>1, Zenon
    <3> QED BY <1>1, <2>1, <3>2, FirstIs, Zenon
  <2>3. shown[i].text = "" \/ shown[i].text # shown[j].text
    BY <1>7, <1>9, Zenon
  <2> QED BY <2>2, <2>3, Zenon DEF Same
<1>10. ASSUME NEW i \in 1..n, NEW j \in 1..n, i < j, shown[i].page # "", shown[j].page # ""
       PROVE  ~Outranks(shown[j], shown[i], legs)
  <2>1. first[i] \in F /\ first[j] \in F /\ Score(L, first[i]) >= Score(L, first[j])
    BY <1>7, <1>10, Zenon
  <2>2. ASSUME Outranks(shown[j], shown[i], legs) PROVE Score(L, first[i]) < Score(L, first[j])
    <3>1. shown[i] = ItemAt(L, Richest(L, first[i])) /\ shown[j] = ItemAt(L, Richest(L, first[j]))
      BY <1>7, Zenon
    <3> QED BY <1>10, <2>1, <2>2, <3>1, OutranksScores, Zenon
  <2> DEFINE a == Score(L, first[i])
             b == Score(L, first[j])
  <2>3. a \in Nat /\ b \in Nat
    BY <1>8, <2>1, Zenon
  <2>4. a >= b /\ (Outranks(shown[j], shown[i], legs) => a < b)
    BY <2>1, <2>2, Zenon
  <2> HIDE DEF a, b
  <2>5. ~(a >= b /\ a < b)
    BY <2>3
  <2> QED BY <2>4, <2>5, Zenon
<1>11. ASSUME NEW x \in Within(legs), n # MaxResults
       PROVE  \E y \in Within(legs), i \in 1..n :
                (y = x \/ Same(x, y)) /\ (shown[i] = y \/ Same(y, shown[i]))
  <2>1. PICK l \in DOMAIN legs : \E i \in DOMAIN legs[l].items : x = legs[l].items[i]
    BY <1>11, Zenon DEF Within
  <2>0. PICK i \in DOMAIN legs[l].items : x = legs[l].items[i]
    BY <2>1
  <2>2. <<l, i>> \in Spots(L) /\ x = ItemAt(L, <<l, i>>)
    <3>1. <<l, i>> \in Spots(L)
      BY <1>1, <2>0, SpotIs, Zenon
    <3>2. ItemAt(L, <<l, i>>) = L[l].items[i]
      BY DEF ItemAt
    <3> QED BY <1>1, <2>0, <3>1, <3>2, Zenon
  <2>3. PICK f \in F : KeyAt(L, f) = KeyAt(L, <<l, i>>)
    BY <1>1, <2>2, FirstIs, Zenon
  <2> DEFINE r == Richest(L, f)
             y == ItemAt(L, r)
  <2>4. r \in Spots(L) /\ KeyAt(L, <<l, i>>) = KeyAt(L, r)
    BY <1>8, <2>3, Zenon
  <2>5. y \in Within(legs)
    <3>1. r[1] \in DOMAIN legs /\ r[2] \in DOMAIN legs[r[1]].items /\ L[r[1]].items = legs[r[1]].items
      BY <1>1, <2>4, SpotIs, Zenon
    <3>2. y = legs[r[1]].items[r[2]]
      BY <3>1, Zenon DEF ItemAt
    <3> QED BY <3>1, <3>2, WithinHas, Zenon
  <2>6. y = x \/ Same(x, y)
    BY <1>1, <2>2, <2>4, KeyTells, Zenon
  <2>7. PICK k \in 1..n : first[k] = f \/ (shown[k].text = Top(f).text /\ shown[k].text # "")
    BY <1>7, <1>11, Zenon
  <2>8. shown[k] = y \/ Same(y, shown[k])
    BY <1>7, <2>7, Zenon DEF Same
  <2> QED BY <2>5, <2>6, <2>8, Zenon
<1>12. shown # <<>> /\ n <= MaxResults
  BY <1>3, <1>6, Zenon DEF shown, n
<1> DEFINE Shown(i, j) == /\ ~Same(shown[i], shown[j])
                          /\ "" \notin {shown[i].page, shown[j].page} => ~Outranks(shown[j], shown[i], legs)
<1>13. ASSUME NEW i \in 1..n, NEW j \in 1..n, i < j PROVE Shown(i, j)
  <2>1. "" \notin {shown[i].page, shown[j].page} => shown[i].page # "" /\ shown[j].page # ""
    OBVIOUS
  <2> QED BY <1>9, <1>10, <1>13, <2>1, Zenon
<1>14. WellFused(legs, shown)
  <2> HIDE DEF Shown
  <2>1. \A i, j \in DOMAIN shown : i < j => Shown(i, j)
    BY <1>5, <1>13, Zenon
  <2> USE DEF Shown
  <2>2. Len(shown) = n
    BY DEF n
  <2>3. \A x \in Within(legs) :
          Len(shown) = MaxResults
          \/ \E y \in Within(legs), i \in DOMAIN shown :
               (y = x \/ Same(x, y)) /\ (shown[i] = y \/ Same(y, shown[i]))
    BY <1>5, <1>11, <2>2, Zenon
  <2> QED BY <1>12, <2>1, <2>2, <2>3, Zenon DEF WellFused
<1> QED BY <1>3, <1>14, Zenon DEF shown

\* The leg whose text is given has as many items in the answer as any other.
LEMMA PickedWell ==
  ASSUME NEW legs, LegsOK(legs), NEW shown
  PROVE  WellPicked(legs, shown, PickAnswer(legs, shown))
<1> DEFINE A == {l \in DOMAIN legs : legs[l].answers}
           Shown(l) == Representatives(legs[l].items, shown)
           Best(l) == l \in A /\ \A k \in A : Shown(l) > Shown(k) \/ (Shown(l) = Shown(k) /\ l <= k)
<1>1. A \subseteq Nat
  BY DEF LegsOK
<1>2. ASSUME NEW l \in A PROVE Shown(l) \in Nat /\ Shown(l) <= Places
  <2> DEFINE items == legs[l].items
             I == {i \in DOMAIN items : items[i].page # "" /\ \E j \in DOMAIN shown : shown[j].page = items[i].page}
  <2>1. Fusable(ListsOf(legs)) /\ l \in DOMAIN ListsOf(legs) /\ ListsOf(legs)[l].items = items
    BY ListsOfAre, Zenon
  <2>2. \A i \in DOMAIN items : i \in 1..Places
    BY <2>1, ListIs, Zenon
  <2> HIDE DEF items
  <2>3. I \in SUBSET (1..Places)
    BY <2>2
  <2>4. 1 \in Int /\ Places \in Int /\ (IF 1 > Places THEN 0 ELSE Places - 1 + 1) = Places
    BY FusionAssumption
  <2>5. IsFiniteSet(1..Places) /\ Cardinality(1..Places) = Places
    BY <2>4, FS_Interval, Zenon
  <2>6. IsFiniteSet(I) /\ Cardinality(I) <= Places
    <3>1. IsFiniteSet(I) /\ Cardinality(I) <= Cardinality(1..Places)
      BY <2>3, <2>5, FS_Subset, Zenon
    <3> QED BY <2>5, <3>1, Zenon
  <2>7. Cardinality(I) \in Nat
    BY <2>6, FS_CardinalityType, Zenon
  <2>8. Shown(l) = Cardinality(I)
    BY Zenon DEF Representatives, items
  <2> QED BY <2>6, <2>7, <2>8, Zenon
<1>3. ASSUME A # {} PROVE \E l : Best(l)
  <2> HIDE DEF A, Shown
  <2> DEFINE Lost(l) == Places - Shown(l)
             N == {Lost(l) : l \in A}
  <2>1. N \subseteq Nat /\ N # {}
    BY <1>2, <1>3, FusionAssumption
  <2>2. PICK p \in N : \A o \in N : p <= o
    BY <2>1, LeastNumber, Zenon
  <2> DEFINE B == {l \in A : Lost(l) = p}
  <2>3. B \subseteq Nat /\ B # {}
    BY <1>1, <2>2
  <2>4. PICK l \in B : \A k \in B : l <= k
    BY <2>3, LeastNumber, Zenon
  <2>5. ASSUME NEW k \in A PROVE Shown(l) > Shown(k) \/ (Shown(l) = Shown(k) /\ l <= k)
    <3>1. Shown(l) \in Nat /\ Shown(k) \in Nat /\ Lost(l) = p /\ p <= Lost(k) /\ l \in A
          /\ Places \in Nat
      BY <1>2, <2>2, <2>4, FusionAssumption
    <3>2. CASE k \in B
      BY <2>4, <3>1, <3>2
    <3>3. CASE k \notin B
      BY <2>5, <3>1, <3>3
    <3> QED BY <3>2, <3>3
  <2> QED BY <2>4, <2>5
<1> HIDE DEF A, Shown
<1>4. ASSUME NEW l \in A
      PROVE  /\ PickAnswer(legs, shown) \in A
             /\ Shown(l) <= Shown(PickAnswer(legs, shown))
  <2>1. PickAnswer(legs, shown) = CHOOSE k : Best(k)
    <3>1. PickAnswer(legs, shown) =
            IF A = {} THEN 0
            ELSE CHOOSE k \in A : \A j \in A : Shown(k) > Shown(j) \/ (Shown(k) = Shown(j) /\ k <= j)
      BY Zenon DEF PickAnswer, A, Shown
    <3>2. A # {}
      BY <1>4, Zenon
    <3> QED BY <3>1, <3>2, Zenon
  <2> DEFINE b == PickAnswer(legs, shown)
  <2>2. Best(b)
    <3>1. \E k : Best(k)
      BY <1>3, <1>4, Zenon
    <3> HIDE DEF Best
    <3> QED BY <2>1, <3>1, Zenon
  <2> HIDE DEF b
  <2>3. b \in A /\ (Shown(b) > Shown(l) \/ Shown(b) = Shown(l))
    BY <2>2
  <2>4. Shown(b) \in Nat /\ Shown(l) \in Nat
    BY <1>2, <2>3
  <2> DEFINE u == Shown(b)
             v == Shown(l)
  <2>5. u \in Nat /\ v \in Nat /\ (u > v \/ u = v)
    BY <2>3, <2>4, Zenon
  <2> HIDE DEF u, v
  <2>6. v <= u
    BY <2>5
  <2> QED BY <2>3, <2>6, Zenon DEF b, u, v
<1>5. 0 \notin DOMAIN legs
  BY DEF LegsOK
<1>6. ASSUME NEW l \in DOMAIN legs, legs[l].answers
      PROVE  /\ PickAnswer(legs, shown) # 0
             /\ Representatives(legs[l].items, shown)
                  <= Representatives(legs[PickAnswer(legs, shown)].items, shown)
  <2>1. l \in A
    BY <1>6, Zenon DEF A
  <2>2. PickAnswer(legs, shown) \in DOMAIN legs
    BY <1>4, <2>1, Zenon DEF A
  <2>3. PickAnswer(legs, shown) # 0
    BY <1>5, <2>2, Zenon
  <2> QED BY <1>4, <2>1, <2>3, Zenon DEF Shown
<1> QED BY <1>6, Zenon DEF WellPicked

-----------------------------------------------------------------------------
(* What legs bring.                                                         *)

\* A client keeps rows.
LEMMA RowKept ==
  ASSUME NEW row \in Rows, NEW sent
  PROVE  /\ TavilyItem(row, sent) \in Rows /\ WebItem(row, sent) \in Rows
         /\ DeepItem(row) \in Rows /\ XaiItem(row) \in Rows
<1> DEFINE body == IF sent.content THEN row.body ELSE 0
           snippet == IF row.snippet = 0 THEN row.body ELSE row.snippet
<1>1. row.body \in 0..2 /\ row.snippet \in 0..2 /\ 0 \in 0..2
  BY DEF Rows
<1>2. body \in 0..2 /\ snippet \in 0..2
  BY <1>1, Zenon
<1>3. TavilyItem(row, sent) = [row EXCEPT !.body = body]
  BY Zenon DEF TavilyItem
<1>4. WebItem(row, sent) = [row EXCEPT !.snippet = snippet, !.body = body]
  BY Zenon DEF WebItem
<1>5. DeepItem(row) = [row EXCEPT !.snippet = 0]
  BY Zenon DEF DeepItem
<1>6. XaiItem(row) = [row EXCEPT !.snippet = 0, !.body = 0]
  BY Zenon DEF XaiItem
<1> HIDE DEF body, snippet
<1>7. \A b, s \in 0..2 : /\ [row EXCEPT !.body = b] \in Rows
                         /\ [row EXCEPT !.snippet = s] \in Rows
                         /\ [row EXCEPT !.snippet = s, !.body = b] \in Rows
  BY DEF Rows
<1>8. TavilyItem(row, sent) \in Rows
  BY <1>2, <1>3, <1>7, Zenon
<1>9. WebItem(row, sent) \in Rows
  BY <1>2, <1>4, <1>7, Zenon
<1>10. DeepItem(row) \in Rows
  BY <1>1, <1>5, <1>7, Zenon
<1>11. XaiItem(row) \in Rows
  BY <1>1, <1>6, <1>7, Zenon
<1> QED BY <1>8, <1>9, <1>10, <1>11, Zenon

\* No more of them than were found.
LEMMA FewAddressed ==
  ASSUME NEW rows \in Seq(Rows), Len(rows) <= Places
  PROVE  Addressed(rows) \in Seq(Rows) /\ Len(Addressed(rows)) <= Places
<1> DEFINE I == {i \in DOMAIN rows : rows[i].page # ""}
           n == Len(rows)
<1>1. n \in Nat /\ DOMAIN rows = 1..n /\ I \subseteq DOMAIN rows
  <2>1. n \in Nat /\ DOMAIN rows = 1..n
    OBVIOUS
  <2>2. I \subseteq DOMAIN rows
    BY Zenon
  <2> QED BY <2>1, <2>2, Zenon
<1>2. Addressed(rows) \in Seq(Rows) /\ Len(Addressed(rows)) = Cardinality(I)
  BY PickedIs, Zenon DEF Addressed
<1> HIDE DEF I, n
<1>3. Cardinality(I) \in Nat /\ Cardinality(I) <= n
  <2>1. 1 \in Int /\ n \in Int
    BY <1>1
  <2>2. IsFiniteSet(1..n) /\ Cardinality(1..n) = (IF 1 > n THEN 0 ELSE n - 1 + 1)
    BY <2>1, FS_Interval, Zenon
  <2>3. I \in SUBSET (1..n)
    BY <1>1, Zenon
  <2>4. IsFiniteSet(I) /\ Cardinality(I) <= Cardinality(1..n)
    BY <2>2, <2>3, FS_Subset, Zenon
  <2>5. Cardinality(I) \in Nat
    BY <2>4, FS_CardinalityType, Zenon
  <2>6. (IF 1 > n THEN 0 ELSE n - 1 + 1) = n
    BY <1>1
  <2> QED BY <2>2, <2>4, <2>5, <2>6, Zenon
<1>4. n <= Places /\ Places \in Nat
  BY FusionAssumption DEF n
<1>5. Cardinality(I) <= Places
  BY <1>1, <1>3, <1>4
<1> QED BY <1>2, <1>5, Zenon

LEMMA ItemsAre ==
  ASSUME NEW d, d.vendor \in Vendors, NEW rows \in Seq(Rows), Len(rows) <= Places
  PROVE  Items(d, rows) \in Seq(Rows) /\ Len(Items(d, rows)) <= Places
<1> DEFINE sent == Sends(d.vendor, d.params)
           v == d.vendor
           kept == IF v \in {"xai", "exa-deep"} THEN Addressed(rows) ELSE rows
           K(i) == CASE v = "tavily"             -> TavilyItem(kept[i], sent)
                     [] v \in {"firecrawl", "exa"} -> WebItem(kept[i], sent)
                     [] v = "exa-deep"           -> DeepItem(kept[i])
                     [] v = "xai"                -> XaiItem(kept[i])
<1>1. Items(d, rows) = [i \in DOMAIN kept |-> K(i)]
  BY Zenon DEF Items
<1>2. kept \in Seq(Rows) /\ Len(kept) <= Places
  BY FewAddressed, Zenon
<1>3. /\ v = "tavily" \/ v = "firecrawl" \/ v = "exa" \/ v = "exa-deep" \/ v = "xai"
  BY DEF Vendors
<1>4. VendorNames
  BY NamesDiffer
<1> HIDE DEF kept, v, sent
<1>5. DOMAIN kept = 1..Len(kept) /\ Len(kept) \in Nat /\ \A i \in DOMAIN kept : kept[i] \in Rows
  BY <1>2
<1>6. ASSUME NEW i \in DOMAIN kept PROVE K(i) \in Rows
  <2>1. kept[i] \in Rows
    BY <1>5, <1>6
  <2>2. /\ TavilyItem(kept[i], sent) \in Rows /\ WebItem(kept[i], sent) \in Rows
        /\ DeepItem(kept[i]) \in Rows /\ XaiItem(kept[i]) \in Rows
    BY <2>1, RowKept, Zenon
  <2>3. CASE v = "tavily"
    BY <1>4, <2>2, <2>3, Zenon DEF VendorNames
  <2>4. CASE v \in {"firecrawl", "exa"}
    <3>1. K(i) = WebItem(kept[i], sent)
      BY <1>4, <2>4, Zenon DEF VendorNames
    <3> QED BY <2>2, <3>1, Zenon
  <2>5. CASE v = "exa-deep"
    <3>1. v # "tavily" /\ v \notin {"firecrawl", "exa"} /\ v # "xai"
      BY <2>5
    <3>2. K(i) = DeepItem(kept[i])
      BY <2>5, <3>1, Zenon
    <3> QED BY <2>2, <3>2, Zenon
  <2>6. CASE v = "xai"
    <3>1. v # "tavily" /\ v \notin {"firecrawl", "exa"} /\ v # "exa-deep"
      BY <2>6
    <3>2. K(i) = XaiItem(kept[i])
      BY <2>6, <3>1, Zenon
    <3> QED BY <2>2, <3>2, Zenon
  <2>7. v = "firecrawl" \/ v = "exa" => v \in {"firecrawl", "exa"}
    OBVIOUS
  <2> QED BY <1>3, <2>3, <2>4, <2>5, <2>6, <2>7, Zenon
<1> HIDE DEF K
<1>7. [i \in 1..Len(kept) |-> K(i)] \in Seq(Rows) /\ Len([i \in 1..Len(kept) |-> K(i)]) = Len(kept)
  BY <1>5, <1>6
<1> QED BY <1>1, <1>2, <1>5, <1>7, Zenon

\* A leg brings items, no more of them than are counted exactly.
LegFits(leg) == leg \in LegRecs /\ Len(leg.items) <= Places

LEMMA BroughtFits ==
  ASSUME NEW ds, \A d \in ds : d.vendor \in Vendors, NEW i, NEW leg \in Brought(ds, i)
  PROVE  LegFits(leg)
<1>1. NoLeg.items = <<>> /\ LegFits(NoLeg)
  <2>1. NoLeg \in LegRecs /\ NoLeg.items = <<>>
    BY DEF NoLeg, LegRecs
  <2>2. Len(<<>>) <= Places
    BY FusionAssumption
  <2> QED BY <2>1, <2>2, Zenon DEF LegFits
<1>2. ASSUME leg # NoLeg PROVE LegFits(leg)
  <2> DEFINE finds == IF i \in Alone THEN Finds ELSE {NoFind}
             L(d, find) == [served |-> TRUE, items |-> Items(d, find.rows),
                            answers |-> find.answers /\ d.vendor \notin {"firecrawl", "exa"}]
  <2>1. PICK d \in ds, find \in finds : leg = L(d, find)
    <3> DEFINE D == {x \in ds : ~Refuses(x.vendor, x.params)}
               G == {L(d, find) : d \in D, find \in finds}
    <3>1. leg \in {NoLeg} \cup G
      BY DEF Brought
    <3>2. leg \in G
      <4> HIDE DEF G
      <4> QED BY <1>2, <3>1, Zenon
    <3> HIDE DEF finds, L
    <3>3. \E d \in D, find \in finds : leg = L(d, find)
      BY <3>2
    <3> QED BY <3>3, Zenon
  <2>2. find \in [rows : Seq(Rows), answers : BOOLEAN] /\ Len(find.rows) <= Places
    <3>1. NoFind \in [rows : Seq(Rows), answers : BOOLEAN] /\ NoFind.rows = <<>>
      BY DEF NoFind
    <3>2. Len(<<>>) <= Places
      BY FusionAssumption
    <3>3. CASE find \in Finds
      BY <3>3, CacheAssumption, Zenon
    <3>4. CASE find = NoFind
      BY <3>1, <3>2, <3>4, Zenon
    <3> QED BY <3>3, <3>4, Zenon
  <2>3. find.rows \in Seq(Rows) /\ find.answers \in BOOLEAN
    BY <2>2
  <2> DEFINE items == Items(d, find.rows)
             answers == find.answers /\ d.vendor \notin {"firecrawl", "exa"}
  <2>4. items \in Seq(Rows) /\ Len(items) <= Places
    BY <2>2, <2>3, ItemsAre, Zenon
  <2>5. answers \in BOOLEAN
    BY <2>3, Zenon
  <2>6. leg = [served |-> TRUE, items |-> items, answers |-> answers]
    BY <2>1, Zenon
  <2> HIDE DEF items, answers
  <2>7. leg \in LegRecs /\ leg.items = items
    BY <2>4, <2>5, <2>6 DEF LegRecs
  <2> QED BY <2>4, <2>7, Zenon DEF LegFits
<1> QED BY <1>1, <1>2, Zenon

LEMMA WaysAre ==
  ASSUME NEW n \in 1..3, NEW calls, DOMAIN calls = 1..n, Len(calls) = n,
         \A l \in 1..n : \A d \in calls[l] : d.vendor \in Vendors,
         NEW i, NEW legs \in Ways(calls, i)
  PROVE  LegsOK(legs) /\ DOMAIN legs = 1..n /\ Len(legs) = n
<1> DEFINE B(l) == Brought(calls[l], i)
<1>1. ASSUME NEW l \in 1..n, NEW leg \in B(l) PROVE LegFits(leg)
  BY <1>1, BroughtFits, Zenon
<1>2. ASSUME legs \in Seq(LegRecs), \A l \in DOMAIN legs : LegFits(legs[l])
      PROVE  LegsOK(legs)
  BY <1>2, Zenon DEF LegsOK, LegFits
<1>3. CASE n = 1
  <2>1. legs \in {<<x>> : x \in B(1)}
    <3>1. Len(calls) = 1
      BY <1>3
    <3>2. Ways(calls, i) = {<<x>> : x \in Brought(calls[1], i)}
      BY <3>1 DEF Ways
    <3> QED BY <3>2, Zenon
  <2>2. PICK x \in B(1) : legs = <<x>>
    BY <2>1, Zenon
  <2>3. LegFits(x)
    <3>1. 1 \in 1..n
      BY <1>3
    <3> QED BY <1>1, <3>1, Zenon
  <2>4. x \in LegRecs
    BY <2>3, Zenon DEF LegFits
  <2>5. <<x>> \in Seq(LegRecs) /\ DOMAIN <<x>> = 1..1 /\ Len(<<x>>) = 1 /\ <<x>>[1] = x
    BY <2>4
  <2>6. \A l \in 1..1 : l = 1
    OBVIOUS
  <2> QED BY <1>2, <1>3, <2>2, <2>3, <2>5, <2>6, Zenon
<1>4. CASE n = 2
  <2>1. legs \in B(1) \X B(2)
    <3>1. Len(calls) = 2 /\ 2 # 1
      BY <1>4
    <3> QED BY <3>1, Zenon DEF Ways
  <2> HIDE DEF B
  <2>2. legs = <<legs[1], legs[2]>> /\ legs[1] \in B(1) /\ legs[2] \in B(2)
    BY <2>1
  <2> DEFINE x == legs[1]
             y == legs[2]
  <2>3. LegFits(x) /\ LegFits(y)
    <3>1. 1 \in 1..n /\ 2 \in 1..n
      BY <1>4
    <3> QED BY <1>1, <2>2, <3>1, Zenon
  <2>4. x \in LegRecs /\ y \in LegRecs /\ legs = <<x, y>>
    BY <2>2, <2>3, Zenon DEF LegFits
  <2> HIDE DEF x, y
  <2>5. legs \in Seq(LegRecs) /\ DOMAIN legs = 1..2 /\ Len(legs) = 2
    BY <2>4
  <2>6. \A l \in 1..2 : l = 1 \/ l = 2
    OBVIOUS
  <2> QED BY <1>2, <1>4, <2>3, <2>5, <2>6, Zenon DEF x, y
<1>5. CASE n = 3
  <2>1. legs \in B(1) \X B(2) \X B(3)
    <3>1. Len(calls) = 3 /\ 3 # 1 /\ 3 # 2
      BY <1>5
    <3> QED BY <3>1, Zenon DEF Ways
  <2> HIDE DEF B
  <2>2. /\ legs = <<legs[1], legs[2], legs[3]>>
        /\ legs[1] \in B(1) /\ legs[2] \in B(2) /\ legs[3] \in B(3)
    BY <2>1
  <2> DEFINE x == legs[1]
             y == legs[2]
             z == legs[3]
  <2>3. LegFits(x) /\ LegFits(y) /\ LegFits(z)
    <3>1. 1 \in 1..n /\ 2 \in 1..n /\ 3 \in 1..n
      BY <1>5
    <3> QED BY <1>1, <2>2, <3>1, Zenon
  <2>4. x \in LegRecs /\ y \in LegRecs /\ z \in LegRecs /\ legs = <<x, y, z>>
    BY <2>2, <2>3, Zenon DEF LegFits
  <2> HIDE DEF x, y, z
  <2>5. legs \in Seq(LegRecs) /\ DOMAIN legs = 1..3 /\ Len(legs) = 3
    BY <2>4
  <2>6. \A l \in 1..3 : l = 1 \/ l = 2 \/ l = 3
    OBVIOUS
  <2> QED BY <1>2, <1>5, <2>3, <2>5, <2>6, Zenon DEF x, y, z
<1> QED BY <1>3, <1>4, <1>5

\* A plan has one leg to three, and fuses if it has more than one.
LEMMA LegsCounted ==
  ASSUME NEW q, RouteOK(q)
  PROVE  \E n \in 1..3 :
           /\ DOMAIN CallsOf(q) = 1..n /\ Len(CallsOf(q)) = n
           /\ n > 1 => Merged(PlanOf(q).kind)
<1> DEFINE p == PlanOf(q)
           legs == LegsOf(q, p)
           Lone(v) == Leg(<<v>>, RouteSources(q), FALSE)
           other == IF p.primary = "firecrawl" THEN "tavily" ELSE "firecrawl"
           third == IF Route(q).strategy = "verify" THEN <<Lone("exa")>> ELSE <<>>
<1>1. /\ "deep" # "hybrid" /\ "deep" # "blend" /\ "deep" # "single" /\ "hybrid" # "blend"
      /\ "hybrid" # "single" /\ "blend" # "single"
  OBVIOUS
<1>2. \A a, b, c : /\ DOMAIN <<a>> = 1..1 /\ DOMAIN <<a, b>> = 1..2 /\ DOMAIN <<a, b, c>> = 1..3
  OBVIOUS
<1>3. \E n \in 1..3 : DOMAIN legs = 1..n /\ (n > 1 => Merged(p.kind))
  <2>1. CASE p.kind = "deep"
    <3>1. legs = <<Leg(<<"exa-deep">>, {}, FALSE)>>
      BY <1>1, <2>1, Zenon DEF LegsOf
    <3>2. DOMAIN legs = 1..1
      BY <1>2, <3>1, Zenon
    <3> HIDE DEF legs
    <3> QED BY <3>2
  <2>2. CASE p.kind = "hybrid"
    <3>1. legs = <<Leg(FallbackChain("tavily"), {"web"}, FALSE), Leg(<<"xai">>, {"x"}, TRUE)>>
      BY <1>1, <2>2, Zenon DEF LegsOf
    <3>2. DOMAIN legs = 1..2
      BY <1>2, <3>1, Zenon
    <3>3. Merged(p.kind)
      BY <2>2 DEF Merged
    <3> HIDE DEF legs, p
    <3> QED BY <3>2, <3>3
  <2>3. CASE p.kind = "blend"
    <3> DEFINE a == Lone(p.primary)
               b == Lone(other)
               c == Lone("exa")
    <3>1. legs = <<a, b>> \o third
      BY <1>1, <2>3, Zenon DEF LegsOf
    <3>2. third = <<>> \/ third = <<c>>
      BY Zenon
    <3> HIDE DEF a, b, c, third
    <3>3. DOMAIN legs = 1..2 \/ DOMAIN legs = 1..3
      <4> HIDE DEF legs
      <4>1. CASE third = <<>>
        <5>1. DOMAIN legs = 1..2
          BY <3>1, <4>1
        <5> QED BY <5>1
      <4>2. CASE third = <<c>>
        <5>1. DOMAIN legs = 1..3
          BY <3>1, <4>2
        <5> QED BY <5>1
      <4> QED BY <3>2, <4>1, <4>2, Zenon
    <3>4. Merged(p.kind)
      BY <2>3 DEF Merged
    <3> HIDE DEF legs, p
    <3> QED BY <3>3, <3>4
  <2>4. CASE p.kind = "single"
    <3>1. legs = <<Leg(FallbackChain(p.primary), RouteSources(q), FALSE)>>
      BY <1>1, <2>4, Zenon DEF LegsOf
    <3>2. DOMAIN legs = 1..1
      BY <1>2, <3>1, Zenon
    <3> HIDE DEF legs
    <3> QED BY <3>2
  <2> QED BY <2>1, <2>2, <2>3, <2>4, PlanIs, Zenon
<1>4. PICK n \in 1..3 : DOMAIN legs = 1..n /\ (n > 1 => Merged(p.kind))
  BY <1>3
<1> DEFINE D(l) == {[vendor |-> legs[l].chain[i], leg |-> legs[l],
                     params |-> Params(q, legs[l], legs[l].chain[i])] : i \in DOMAIN legs[l].chain}
<1>5. CallsOf(q) = [l \in DOMAIN legs |-> D(l)]
  BY Zenon DEF CallsOf, CallsOfLegs
<1> HIDE DEF legs, D
<1>6. CallsOf(q) = [l \in 1..n |-> D(l)]
  BY <1>4, <1>5, Zenon
<1>7. DOMAIN [l \in 1..n |-> D(l)] = 1..n /\ Len([l \in 1..n |-> D(l)]) = n
  BY <1>4
<1> QED BY <1>4, <1>6, <1>7, Zenon

\* What is found for a search that was let in can be fused, and is if it comes
\* from more than one leg.
LEMMA FindingsFuse ==
  ASSUME NEW ask, LetIn(ask), ask.surface # "research", NEW legs \in Findings(ask)
  PROVE  /\ LegsOK(legs)
         /\ Len(legs) > 1 =>
              /\ Merged(PlanFor[ask].kind)
              /\ \E l \in DOMAIN legs : legs[l].items # <<>>
<1> DEFINE q == Query[ask]
           b == Sought(ask)
           calls == CallsFor[ask]
<1>1. Fit(b) /\ q = Canonicalize(b) /\ ask \in DOMAIN Query
  BY SoughtFit, Zenon
<1>2. calls = CallsOf(q) /\ PlanFor[ask] = PlanOf(q)
  BY <1>1, Zenon DEF CallsFor, PlanFor
<1>3. RouteOK(q)
  BY <1>1, CanonicalStands, IntentIsKnown, RouteIsOK, Zenon
<1> HIDE DEF q, b
<1>4. PICK n \in 1..3 : /\ DOMAIN CallsOf(q) = 1..n /\ Len(CallsOf(q)) = n
                        /\ n > 1 => Merged(PlanOf(q).kind)
  BY <1>3, LegsCounted, Zenon
<1>5. \A l \in 1..n : \A d \in CallsOf(q)[l] : d.vendor \in Vendors
  BY <1>3, <1>4, DialsAre, Zenon DEF DialIs
<1>6. legs \in Ways(calls, ask.of) /\ Served(PlanFor[ask].kind, legs)
  BY Zenon DEF Findings
<1>7. LegsOK(legs) /\ DOMAIN legs = 1..n /\ Len(legs) = n
  <2>1. DOMAIN calls = 1..n /\ Len(calls) = n
    BY <1>2, <1>4, Zenon
  <2>2. \A l \in 1..n : \A d \in calls[l] : d.vendor \in Vendors
    BY <1>2, <1>5, Zenon
  <2> HIDE DEF calls
  <2> QED BY <1>6, <2>1, <2>2, WaysAre, Zenon
<1>8. ASSUME Len(legs) > 1
      PROVE  Merged(PlanFor[ask].kind) /\ \E l \in DOMAIN legs : legs[l].items # <<>>
  <2>1. Merged(PlanFor[ask].kind)
    BY <1>2, <1>4, <1>7, <1>8, Zenon
  <2> QED BY <1>6, <2>1, Zenon DEF Served
<1> QED BY <1>7, <1>8, Zenon

\* So the answer made of it is well fused, and its text well picked.
LEMMA FindingsFuseWell ==
  ASSUME NEW ask, LetIn(ask), ask.surface # "research", NEW legs \in Findings(ask), Len(legs) > 1
  PROVE  FusesWell(legs, Fused(PlanFor[ask].kind, legs, MaxResults))
<1> DEFINE kind == PlanFor[ask].kind
           lists == [l \in DOMAIN legs |-> [items |-> legs[l].items, weight |-> IF l = 1 THEN 10 ELSE 7]]
           all == DedupeNearDuplicates(ReciprocalRankFusion(lists))
<1>1. LegsOK(legs) /\ Merged(kind)
  BY FindingsFuse, Zenon
<1>2. PICK l \in DOMAIN legs : legs[l].items # <<>>
  BY FindingsFuse, Zenon
<1>3. Fused(kind, legs, MaxResults) = Cut(ListsOf(legs), MaxResults)
  <2>1. kind # "deep" /\ kind # "single"
    <3>1. kind \in {"hybrid", "blend"}
      BY <1>1, Zenon DEF Merged
    <3> HIDE DEF kind
    <3> QED BY <3>1
  <2>2. Fused(kind, legs, MaxResults) = SubSeq(all, 1, IF MaxResults < Len(all) THEN MaxResults ELSE Len(all))
    BY <1>1, <2>1, Zenon DEF Fused
  <2>3. lists = ListsOf(legs)
    BY Zenon DEF ListsOf
  <2> QED BY <2>2, <2>3, Zenon DEF Cut
<1> DEFINE shown == Cut(ListsOf(legs), MaxResults)
<1>4. WellFused(legs, shown)
  BY <1>1, <1>2, FusedWell, Zenon
<1>5. WellPicked(legs, shown, PickAnswer(legs, shown))
  BY <1>1, PickedWell, Zenon
<1> QED BY <1>3, <1>4, <1>5, Zenon DEF FusesWell

-----------------------------------------------------------------------------
(* What a call has found.                                                   *)

\* Only a call that is about to store holds what legs brought, of its own ask.
HoldsOwn(r) ==
  /\ r.stage # "store" => r.found = <<>>
  /\ r.stage = "store" /\ r.found # <<>> => r.ask \in DOMAIN Query /\ r.found \in Findings(r.ask)

FoundInv == \A c \in Calls : HoldsOwn(call[c])

LEMMA OneHolds ==
  ASSUME AgeInv, FoundInv, NEW c \in Calls, NEW r, HoldsOwn(r), call' = [call EXCEPT ![c] = r]
  PROVE  FoundInv'
<1>1. ASSUME NEW d \in Calls PROVE HoldsOwn(call'[d])
  <2>1. call \in [Calls -> CallRecs]
    BY Zenon DEF AgeInv
  <2>2. d = c => call'[d] = r
    BY <2>1, Zenon
  <2>3. d # c => call'[d] = call[d]
    BY <2>1, Zenon
  <2> QED BY <2>2, <2>3, Zenon DEF FoundInv
<1> QED BY <1>1, Zenon DEF FoundInv

LEMMA EmptyHolds ==
  ASSUME NEW r, r.found = <<>>
  PROVE  HoldsOwn(r)
BY Zenon DEF HoldsOwn

LEMMA IdleHolds == HoldsOwn(Idle)
<1>1. Idle.found = <<>>
  BY SMT DEF Idle
<1> QED BY <1>1, EmptyHolds, Zenon

LEMMA AnsweredHolds ==
  ASSUME AgeInv, NEW c \in Calls, NEW heard
  PROVE  HoldsOwn(Answered(c, heard)) /\ Answered(c, heard).found = <<>>
<1> DEFINE k == call[c]
           none == <<>>
           k1 == [k EXCEPT !.stage = "answered", !.since = 0, !.pass = 1]
           k2 == [k1 EXCEPT !.found = none]
           k3 == [k2 EXCEPT !.heard = now - heard]
<1>1. k \in CallRecs
  BY Before, Zenon
<1>2. Answered(c, heard) = k3
  BY Zenon DEF Answered
<1> HIDE DEF k, none, k1, k2, k3
<1>3. DOMAIN k = {"stage", "ask", "since", "heard", "served", "pass", "found"}
  BY <1>1 DEF CallRecs
<1>4. DOMAIN k1 = DOMAIN k
  BY <1>1 DEF k1
<1>5. k2.found = none /\ DOMAIN k2 = DOMAIN k
  BY <1>3, <1>4 DEF k2
<1>6. k3.found = none
  BY <1>3, <1>5 DEF k3
<1> QED BY <1>2, <1>6, EmptyHolds, Zenon DEF none

LEMMA InitFound == Init => FoundInv
<1> SUFFICES ASSUME Init PROVE FoundInv
  OBVIOUS
<1>1. \A c \in Calls : call[c] = Idle
  BY Zenon DEF Init
<1> QED BY <1>1, IdleHolds, Zenon DEF FoundInv

LEMMA StartFound ==
  ASSUME AgeInv, FoundInv, NEW c \in Calls, NEW i \in DOMAIN Requests, Start(c, i)
  PROVE  FoundInv'
<1> DEFINE surface == CASE ~IsResearch(i) -> "search"
                        [] IsResearch(i) /\ Body(i).deep -> "web"
                        [] OTHER -> "research"
           ask == [surface |-> surface, of |-> i]
           k   == [Idle EXCEPT !.stage = "look", !.since = now, !.ask = ask]
           R(s) == IF ~Accepted(i, s) THEN Idle ELSE k
<1>1. PICK s \in {"rest", "mcp"} : call' = [call EXCEPT ![c] = R(s)]
  BY Zenon DEF Start
<1> HIDE DEF surface, ask
<1>2. k.found = <<>>
  BY SMT DEF Idle
<1> HIDE DEF k
<1>3. HoldsOwn(R(s))
  BY <1>2, EmptyHolds, IdleHolds, Zenon
<1> HIDE DEF R
<1> QED BY <1>1, <1>3, OneHolds, Zenon

LEMMA HitFound ==
  ASSUME AgeInv, FoundInv, NEW c \in Calls, Hit(c)
  PROVE  FoundInv'
<1> DEFINE k == call[c]
           own(row) == {row.by}
           l(row) == [k EXCEPT !.stage = "leg", !.heard = row.heard, !.served = own(row)]
           b(row) == Answered(c, row.heard)
           a(row) == [b(row) EXCEPT !.served = own(row)]
           R(row) == IF k.ask.surface = "web" THEN l(row) ELSE a(row)
<1>1. k.stage = "look"
  BY Zenon DEF Hit
<1>2. PICK row \in Found(k.ask) : call' = [call EXCEPT ![c] = R(row)]
  BY Zenon DEF Hit
<1>3. k \in CallRecs /\ k.found = <<>>
  <2>1. "look" # "store"
    OBVIOUS
  <2> QED BY <1>1, <2>1, Before, Zenon DEF FoundInv, HoldsOwn
<1>4. l(row).found = k.found
  <2> HIDE DEF k, own
  <2> QED BY <1>3, SMT DEF CallRecs
<1>5. a(row).found = b(row).found
  <2>1. row.heard \in Nat
    <3>1. row \in cache
      BY Zenon DEF Found
    <3> QED BY <3>1, Zenon DEF AgeInv, RowOK
  <2>2. b(row) \in CallRecs
    BY <2>1, AnsweredType, Zenon
  <2> HIDE DEF b, own
  <2> QED BY <2>2, SMT DEF CallRecs
<1>6. b(row).found = <<>>
  BY AnsweredHolds, Zenon
<1> HIDE DEF l, a, b
<1>7. HoldsOwn(l(row)) /\ HoldsOwn(a(row))
  BY <1>3, <1>4, <1>5, <1>6, EmptyHolds, Zenon
<1>8. HoldsOwn(R(row))
  BY <1>7, Zenon
<1> HIDE DEF R
<1> QED BY <1>2, <1>8, OneHolds, Zenon

\* A call in another stage than "store" has found nothing.
LEMMA NothingYet ==
  ASSUME AgeInv, FoundInv, NEW c \in Calls, call[c].stage \in {"look", "dial", "leg"}
  PROVE  call[c] \in CallRecs /\ call[c].found = <<>>
<1>1. call[c].stage # "store"
  OBVIOUS
<1> QED BY <1>1, Before, Zenon DEF FoundInv, HoldsOwn

LEMMA MissFound ==
  ASSUME AgeInv, FoundInv, NEW c \in Calls, Miss(c)
  PROVE  FoundInv'
<1> DEFINE k == call[c]
           d == [k EXCEPT !.stage = "dial"]
           w == [k EXCEPT !.ask.surface = "web"]
           R == IF k.ask.surface = "research"
                THEN IF TavilyJob(Research[k.ask]) THEN d ELSE w
                ELSE IF Mistyped(Query[k.ask].domains) THEN Idle ELSE d
<1>1. k.stage = "look" /\ call' = [call EXCEPT ![c] = R]
  BY Zenon DEF Miss
<1>2. k \in CallRecs /\ k.found = <<>>
  BY <1>1, NothingYet, Zenon
<1>3. d.found = k.found
  <2> HIDE DEF k
  <2> QED BY <1>2, SMT DEF CallRecs
<1>4. w.found = k.found
  <2> DEFINE ask == [k.ask EXCEPT !.surface = "web"]
  <2>1. w = [k EXCEPT !.ask = ask]
    OBVIOUS
  <2> HIDE DEF k, w, ask
  <2> QED BY <1>2, <2>1, SMT DEF CallRecs
<1> HIDE DEF d, w
<1>5. HoldsOwn(R)
  BY <1>2, <1>3, <1>4, EmptyHolds, IdleHolds, Zenon
<1> HIDE DEF R
<1> QED BY <1>1, <1>5, OneHolds, Zenon

\* What a dial brings is of the ask that dialled.
LEMMA DialAnswersFound ==
  ASSUME AgeInv, FoundInv, NEW c \in Calls, DialAnswers(c)
  PROVE  FoundInv'
<1> DEFINE k == call[c]
           heard == IF k.pass = 1 THEN now ELSE k.heard
           r(legs) == [k EXCEPT !.stage = "store", !.found = legs, !.heard = heard]
           Legs == IF k.ask \in DOMAIN Query THEN Findings(k.ask) ELSE {<<>>}
<1>1. k \in CallRecs /\ call \in [Calls -> CallRecs]
  BY Before, Zenon DEF AgeInv
<1>2. PICK legs \in Legs :
        call' = [call EXCEPT ![c].stage = "store", ![c].found = legs,
                             ![c].heard = IF call[c].pass = 1 THEN now ELSE @]
  BY Zenon DEF DialAnswers
<1>3. call' = [call EXCEPT ![c] = r(legs)]
  BY <1>1, <1>2, Zenon
<1> HIDE DEF heard
<1>4. r(legs).stage = "store" /\ r(legs).ask = k.ask /\ r(legs).found = legs
  <2> HIDE DEF k
  <2> QED BY <1>1, SMT DEF CallRecs
<1> HIDE DEF r
<1>5. legs # <<>> => k.ask \in DOMAIN Query /\ legs \in Findings(k.ask)
  BY <1>2, Zenon
<1>6. HoldsOwn(r(legs))
  BY <1>4, <1>5, Zenon DEF HoldsOwn
<1> QED BY <1>3, <1>6, OneHolds, Zenon

LEMMA DialFailsFound ==
  ASSUME AgeInv, FoundInv, NEW c \in Calls, DialFails(c)
  PROVE  FoundInv'
<1> DEFINE k == call[c]
           R == IF k.pass = 2 THEN Answered(c, k.heard) ELSE Idle
<1>1. call' = [call EXCEPT ![c] = R]
  BY Zenon DEF DialFails
<1>2. HoldsOwn(R)
  BY AnsweredHolds, IdleHolds, Zenon
<1> HIDE DEF R
<1> QED BY <1>1, <1>2, OneHolds, Zenon

\* A web leg lets go of what it found before its research goes on.
LEMMA StoreFound ==
  ASSUME AgeInv, FoundInv, NEW c \in Calls, Store(c)
  PROVE  FoundInv'
<1> DEFINE k == call[c]
           none == <<>>
           l == [k EXCEPT !.stage = "leg", !.found = none]
           R == IF k.ask.surface = "web" THEN l ELSE Answered(c, k.heard)
<1>1. call' = [call EXCEPT ![c] = R]
  BY Zenon DEF Store
<1>2. k \in CallRecs
  BY Before, Zenon
<1>3. l.found = none
  <2> HIDE DEF k, none
  <2> QED BY <1>2, SMT DEF CallRecs
<1> HIDE DEF l
<1>4. HoldsOwn(R)
  BY <1>3, AnsweredHolds, EmptyHolds, Zenon
<1> HIDE DEF R
<1> QED BY <1>1, <1>4, OneHolds, Zenon

LEMMA LegDoneFound ==
  ASSUME AgeInv, FoundInv, NEW c \in Calls, LegDone(c)
  PROVE  FoundInv'
<1> DEFINE k == call[c]
           s == [k EXCEPT !.stage = "store", !.ask.surface = "research"]
           R == IF Body(k.ask.of).deep THEN Answered(c, k.heard) ELSE s
<1>1. k.stage = "leg" /\ call' = [call EXCEPT ![c] = R]
  BY Zenon DEF LegDone
<1>2. k \in CallRecs /\ k.found = <<>>
  BY <1>1, NothingYet, Zenon
<1>3. s.found = k.found
  <2> DEFINE ask == [k.ask EXCEPT !.surface = "research"]
             k1 == [k EXCEPT !.stage = "store"]
  <2>1. s = [k1 EXCEPT !.ask.surface = "research"]
    OBVIOUS
  <2>2. k1.ask = k.ask /\ k1.found = k.found /\ k1 \in CallRecs
    <3> HIDE DEF k, k1
    <3> QED BY <1>2, SMT DEF k1, CallRecs, Stages
  <2>3. s = [k1 EXCEPT !.ask = ask]
    BY <2>1, <2>2, Zenon
  <2> HIDE DEF k, k1, s, ask
  <2>4. s.found = k1.found
    BY <2>2, <2>3, SMT DEF CallRecs
  <2> QED BY <2>2, <2>4, Zenon
<1> HIDE DEF s
<1>4. HoldsOwn(R)
  BY <1>2, <1>3, AnsweredHolds, EmptyHolds, Zenon
<1> HIDE DEF R
<1> QED BY <1>1, <1>4, OneHolds, Zenon

LEMMA RefineFound ==
  ASSUME AgeInv, FoundInv, NEW c \in Calls, Refine(c)
  PROVE  FoundInv'
<1> DEFINE k == call[c]
           r == [k EXCEPT !.stage = "look", !.pass = 2]
<1>1. k.stage = "leg" /\ call' = [call EXCEPT ![c].stage = "look", ![c].pass = 2]
  BY Zenon DEF Refine
<1>2. k \in CallRecs /\ k.found = <<>> /\ call \in [Calls -> CallRecs]
  BY <1>1, NothingYet, Zenon DEF AgeInv
<1>3. call' = [call EXCEPT ![c] = r]
  BY <1>1, <1>2, Zenon
<1>4. r.found = k.found
  <2> HIDE DEF k
  <2> QED BY <1>2, SMT DEF CallRecs
<1> HIDE DEF r
<1>5. HoldsOwn(r)
  BY <1>2, <1>4, EmptyHolds, Zenon
<1> QED BY <1>3, <1>5, OneHolds, Zenon

LEMMA StepFound == AgeInv /\ FoundInv /\ [Next]_vars => FoundInv'
<1> SUFFICES ASSUME AgeInv, FoundInv, [Next]_vars PROVE FoundInv'
  OBVIOUS
<1>1. CASE call' = call
  BY <1>1, Zenon DEF FoundInv
<1>2. ASSUME NEW c \in Calls, NEW i \in DOMAIN Requests, Start(c, i) PROVE FoundInv'
  BY <1>2, StartFound
<1>3. ASSUME NEW c \in Calls, Drop(c) PROVE FoundInv'
  <2>1. call' = [call EXCEPT ![c] = Idle]
    BY <1>3, Zenon DEF Drop
  <2> QED BY <2>1, IdleHolds, OneHolds, Zenon
<1>4. ASSUME NEW c \in Calls,
             Hit(c) \/ Miss(c) \/ DialAnswers(c) \/ DialFails(c)
             \/ Store(c) \/ LegDone(c) \/ Refine(c)
      PROVE  FoundInv'
  BY <1>4, HitFound, MissFound, DialAnswersFound, DialFailsFound, StoreFound, LegDoneFound,
     RefineFound, Zenon
<1>5. UNCHANGED vars \/ Purge \/ Tick => call' = call
  BY Zenon DEF vars, Purge, Tick
<1> QED BY <1>1, <1>2, <1>3, <1>4, <1>5, Zenon DEF Next

\* What is stored of several legs was found for an ask that was let in.
LEMMA StoredIsFused == AgeInv /\ MeanInv /\ FoundInv => AnswerIsFused
<1> SUFFICES ASSUME AgeInv, MeanInv, FoundInv,
                    NEW c \in Calls, call[c].stage = "store", Len(call[c].found) > 1
             PROVE  FusesWell(call[c].found,
                              Fused(PlanFor[call[c].ask].kind, call[c].found, MaxResults))
  BY Zenon DEF AnswerIsFused
<1> DEFINE ask == call[c].ask
           legs == call[c].found
<1>1. legs # <<>>
  <2> HIDE DEF legs
  <2>1. Len(legs) > 1
    BY DEF legs
  <2> QED BY <2>1
<1>2. ask \in DOMAIN Query /\ legs \in Findings(ask)
  BY <1>1, Zenon DEF FoundInv, HoldsOwn
<1>3. LetIn(ask)
  BY RunsLetIn, StageNames, Zenon
<1>4. ask.surface # "research"
  <2>1. DOMAIN Query = {a \in Asks : a.surface # "research"}
    BY Zenon DEF Query
  <2> QED BY <1>2, <2>1, Zenon
<1> QED BY <1>2, <1>3, <1>4, FindingsFuseWell, Zenon

\* Whatever vendors find, an answer made of several legs shows nothing twice and
\* loses nothing but to the cut, no page stands before one that outranks it, and
\* the text given is of a leg that none has more items in it than.
THEOREM AnswersAreFused == Spec => []AnswerIsFused
<1>1. Init => AgeInv /\ MeanInv /\ FoundInv
  BY InitAge, InitMeans, InitFound
<1>2. AgeInv /\ MeanInv /\ FoundInv /\ [Next]_vars => (AgeInv /\ MeanInv /\ FoundInv)'
  BY StepAge, StepMeans, StepFound
<1> QED BY <1>1, <1>2, StoredIsFused, PTL DEF Spec
=============================================================================
