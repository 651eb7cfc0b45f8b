--------------------------- MODULE SearchRun_proofs ---------------------------
(***************************************************************************)
(* Proofs about SearchRun for any keys, any number of attempts and any set *)
(* of plans: types, that the class of an answer is the one the failed      *)
(* legs' vendors call for, that its meta has every call and transition and *)
(* a key that answered, and that accounts are lost for good reason only.   *)
(***************************************************************************)
EXTENDS SearchRun, TLAPS

\* A chain of at most three vendors, none of them twice.
Walkable(c) ==
  /\ c \in Seq(Vendors)
  /\ Len(c) \in 0..3
  /\ c = <<>> <=> Len(c) = 0
  /\ \A i \in 1..Len(c) : c[i] \in Vendors
  /\ \A i, j \in 1..Len(c) : c[i] = c[j] => i = j

LEMMA ShortChains ==
  ASSUME NEW v \in Vendors
  PROVE  Walkable(<<>>) /\ Walkable(<<v>>)
BY DEF Walkable

LEMMA LongChains ==
  ASSUME NEW a \in Vendors, NEW b \in Vendors, NEW c \in Vendors,
         a # b, a # c, b # c
  PROVE  Walkable(<<a, b, c>>)
<1> DEFINE t == <<a, b, c>>
<1>1. /\ t \in Seq(Vendors) /\ Len(t) = 3 /\ t # <<>>
      /\ t[1] = a /\ t[2] = b /\ t[3] = c
  OBVIOUS
<1> HIDE DEF t
<1>2. Walkable(t)
  BY <1>1 DEF Walkable
<1> QED BY <1>2 DEF t

LEMMA FallbackFacts ==
  ASSUME NEW v
  PROVE  Walkable(FallbackChain(v))
<1>1. /\ "tavily" \in Vendors /\ "exa" \in Vendors
      /\ "firecrawl" \in Vendors /\ "xai" \in Vendors
  BY DEF Vendors
<1>2. /\ Walkable(<<"firecrawl", "exa", "tavily">>)
      /\ Walkable(<<"exa", "firecrawl", "tavily">>)
      /\ Walkable(<<"tavily", "exa", "firecrawl">>)
      /\ Walkable(<<"xai">>)
  BY <1>1, LongChains, ShortChains
<1> QED BY <1>2 DEF FallbackChain

\* Every leg of every plan walks such a chain.
LEMMA ChainFacts ==
  ASSUME NEW p \in AllPlans, NEW l \in Legs
  PROVE  Walkable(Chains(p)[l])
<1>0. l \in {1, 2, 3}
  BY DEF Legs
<1>1. /\ "tavily" \in Vendors /\ "exa" \in Vendors /\ "xai" \in Vendors
  BY DEF Vendors
<1>2. /\ Walkable(<<>>) /\ Walkable(<<"exa">>) /\ Walkable(<<"xai">>)
      /\ Walkable(FallbackChain(p.primary)) /\ Walkable(FallbackChain("tavily"))
  BY <1>1, ShortChains, FallbackFacts
<1>3. CASE p.kind = "single"
  <2>1. Chains(p) = <<FallbackChain(p.primary), <<>>, <<>>>>
    BY <1>3 DEF Chains
  <2> QED BY <1>0, <1>2, <2>1
<1>4. CASE p.kind = "deep"
  <2>1. Chains(p) = <<<<"exa">>, <<>>, <<>>>>
    BY <1>4 DEF Chains
  <2> QED BY <1>0, <1>2, <2>1
<1>5. CASE p.kind = "hybrid"
  <2>1. Chains(p) = <<FallbackChain("tavily"), <<"xai">>, <<>>>>
    BY <1>5 DEF Chains
  <2> QED BY <1>0, <1>2, <2>1
<1>6. CASE p.kind \in {"blend", "verify"}
  <2>1. p.primary \in Vendors /\ Secondary(p.primary) \in Vendors
    BY <1>6 DEF AllPlans, Secondary, Vendors
  <2>2. Walkable(<<p.primary>>) /\ Walkable(<<Secondary(p.primary)>>)
    BY <2>1, ShortChains
  <2>3. Chains(p) \in {<<<<p.primary>>, <<Secondary(p.primary)>>, <<>>>>,
                       <<<<p.primary>>, <<Secondary(p.primary)>>, <<"exa">>>>}
    BY <1>6 DEF Chains
  <2> QED BY <1>0, <1>2, <2>2, <2>3
<1>7. p.kind \in {"single", "deep", "hybrid", "blend", "verify"}
  BY DEF AllPlans
<1> QED BY <1>3, <1>4, <1>5, <1>6, <1>7

-----------------------------------------------------------------------------
(* Metas.                                                                   *)

LEMMA AbsorbTypes ==
  ASSUME NEW m \in Meta, NEW o \in Meta
  PROVE  Absorb(m, o) \in Meta
<1> DEFINE key == IF o.won \/ (~m.won /\ o.key # NoKey) THEN o.key ELSE m.key
<1>1. key \in Keys \cup {NoKey}
  BY DEF Meta
<1>2. Absorb(m, o) =
        [count |-> m.count + o.count, key |-> key, won |-> m.won \/ o.won,
         flips |-> m.flips \cup o.flips]
  BY DEF Absorb
<1> HIDE DEF key
<1>3. m.count + o.count \in Nat /\ m.flips \cup o.flips \in SUBSET Keys
  BY DEF Meta
<1>4. (m.won \/ o.won) \in BOOLEAN
  BY DEF Meta
<1> QED BY <1>1, <1>2, <1>3, <1>4 DEF Meta

LEMMA MetaTypes ==
  ASSUME NEW m \in Meta, NEW k \in Keys, NEW ok \in BOOLEAN,
         NEW flips \in SUBSET Keys
  PROVE  /\ EmptyMeta \in Meta
         /\ NotePending(m, k) \in Meta
         /\ NoteAttempt(m, k, ok, flips) \in Meta
<1>1. EmptyMeta \in Meta
  BY DEF Meta, EmptyMeta
<1>2. NotePending(m, k) \in Meta
  <2> DEFINE key == IF m.won THEN m.key ELSE k
  <2>1. key \in Keys \cup {NoKey}
    BY DEF Meta
  <2>2. NotePending(m, k) = [m EXCEPT !.key = key]
    BY DEF NotePending, Meta
  <2> HIDE DEF key
  <2> QED BY <2>1, <2>2 DEF Meta
<1>3. NoteAttempt(m, k, ok, flips) \in Meta
  <2> DEFINE key == IF ok \/ ~m.won THEN k ELSE m.key
  <2>1. key \in Keys \cup {NoKey}
    BY DEF Meta
  <2>2. NoteAttempt(m, k, ok, flips) =
          [count |-> m.count + 1, key |-> key, won |-> m.won \/ ok,
           flips |-> m.flips \cup flips]
    <3>1. NoteAttempt(m, k, ok, flips) =
            [m EXCEPT !.count = m.count + 1, !.key = key, !.won = m.won \/ ok,
                      !.flips = m.flips \cup flips]
      BY Zenon DEF NoteAttempt
    <3>2. m = [count |-> m.count, key |-> m.key, won |-> m.won, flips |-> m.flips]
      BY DEF Meta
    <3> HIDE DEF key
    <3> QED BY <3>1, <3>2
  <2> HIDE DEF key
  <2>3. m.count + 1 \in Nat /\ m.flips \cup flips \in SUBSET Keys
    BY DEF Meta
  <2>4. (m.won \/ ok) \in BOOLEAN
    BY DEF Meta
  <2> QED BY <2>1, <2>2, <2>3, <2>4 DEF Meta
<1> QED BY <1>1, <1>2, <1>3

-----------------------------------------------------------------------------
(* Types.                                                                   *)

LEMMA PlanChain ==
  ASSUME plan \in Plans, NEW l \in Legs
  PROVE  Walkable(Chain(l))
BY RunAssumption, ChainFacts DEF Chain

LEMMA VendorTypes ==
  ASSUME TypeOK, NEW l \in Legs, leg[l].pc # "absent"
  PROVE  /\ Vendor(l) \in Vendors
         /\ leg[l].hop \in 1..Len(Chain(l))
         /\ Chain(l) # <<>>
<1>1. Walkable(Chain(l))
  BY PlanChain DEF TypeOK
<1>2. leg[l].hop \in 1..3 /\ leg[l].hop <= Len(Chain(l)) /\ Chain(l) # <<>>
  BY DEF TypeOK, Leg
<1> QED BY <1>1, <1>2 DEF Walkable, Vendor

LEMMA FirstLegTypes ==
  ASSUME NEW c
  PROVE  /\ FirstLeg(c) \in Leg
         /\ FirstLeg(c).hop = 1
         /\ FirstLeg(c).errs = {}
         /\ FirstLeg(c).pc = (IF c = <<>> THEN "absent" ELSE "acquire")
<1> DEFINE pc == IF c = <<>> THEN "absent" ELSE "acquire"
<1>1. EmptyMeta \in Meta
  BY DEF Meta, EmptyMeta
<1>2. FirstLeg(c) = [pc |-> pc, hop |-> 1, attempt |-> 1, key |-> NoKey,
                     own |-> EmptyMeta, kept |-> EmptyMeta, errs |-> {},
                     items |-> FALSE]
  BY DEF FirstLeg
<1>3. pc \in Stages /\ 1 \in 1..3 /\ 1 \in 1..MaxAttempts
  BY RunAssumption DEF Stages
<1> HIDE DEF pc
<1>4. FirstLeg(c) \in Leg /\ FirstLeg(c).hop = 1 /\ FirstLeg(c).errs = {}
      /\ FirstLeg(c).pc = pc
  BY <1>1, <1>2, <1>3 DEF Leg
<1> QED BY <1>4 DEF pc

\* Whatever the vendors reply, the verdict is one and so is the meaning.
LEMMA OutcomeTypes ==
  ASSUME NEW v \in Vendors, NEW o \in Outcomes[v]
  PROVE  o.fault \in Faults /\ o.says \in Meanings
<1>1. PICK r \in Replies : o = [fault |-> VerdictFor(v, r), says |-> Meaning(v, r)]
  BY DEF Outcomes
<1>2. VerdictFor(v, r) \in Faults
  <2>1. UpstreamVerdict(v, r.status, r.text) \in Faults
    BY DEF UpstreamVerdict, Faults
  <2> QED BY <2>1 DEF VerdictFor, Faults
<1>3. Meaning(v, r) \in Meanings
  BY DEF Meaning, Meanings
<1> QED BY <1>1, <1>2, <1>3

\* What a leg is after it has left a vendor.
LEMMA LeaveFacts ==
  ASSUME NEW l \in Legs, NEW r \in Leg, NEW class \in Classes,
         Walkable(Chain(l)), r.hop \in 1..Len(Chain(l))
  PROVE  LET left == Leave(l, r, class)
             last == r.hop = Len(Chain(l))
         IN /\ left \in Leg
            /\ left.pc = (IF last THEN "err" ELSE "acquire")
            /\ left.hop = (IF last THEN r.hop ELSE r.hop + 1)
            /\ left.hop <= Len(Chain(l))
            /\ left.errs = r.errs \cup {class}
            /\ left.kept = Absorb(r.kept, r.own)
            /\ left.own = EmptyMeta
<1> DEFINE kept == Absorb(r.kept, r.own)
           done == [pc |-> "err", hop |-> r.hop, attempt |-> 1, key |-> NoKey,
                    own |-> EmptyMeta, kept |-> kept, errs |-> r.errs \cup {class},
                    items |-> r.items]
           next == [pc |-> "acquire", hop |-> r.hop + 1, attempt |-> 1,
                    key |-> NoKey, own |-> EmptyMeta, kept |-> kept,
                    errs |-> r.errs \cup {class}, items |-> r.items]
<1>1. kept \in Meta /\ EmptyMeta \in Meta
  <2>1. r.kept \in Meta /\ r.own \in Meta
    BY DEF Leg
  <2>2. EmptyMeta \in Meta
    BY DEF Meta, EmptyMeta
  <2>3. kept \in Meta
    BY <2>1, AbsorbTypes
  <2> QED BY <2>2, <2>3
<1>2. r = [pc |-> r.pc, hop |-> r.hop, attempt |-> r.attempt, key |-> r.key,
           own |-> r.own, kept |-> r.kept, errs |-> r.errs, items |-> r.items]
      /\ r.errs \subseteq Classes /\ r.items \in BOOLEAN
  BY DEF Leg
<1>3. Len(Chain(l)) \in 0..3
  BY DEF Walkable
<1>4. 1 \in 1..MaxAttempts
  BY RunAssumption
<1>5. CASE r.hop = Len(Chain(l))
  <2>1. Leave(l, r, class) = done
    <3> HIDE DEF kept
    <3> QED BY <1>2, <1>5 DEF Leave, kept
  <2>2. done \in Leg
    <3> HIDE DEF kept
    <3> QED BY <1>1, <1>2, <1>3, <1>4 DEF Leg, Stages
  <2> QED BY <1>5, <2>1, <2>2
<1>6. CASE r.hop # Len(Chain(l))
  <2>1. Leave(l, r, class) = next
    <3> HIDE DEF kept
    <3> QED BY <1>2, <1>6 DEF Leave, kept
  <2>2. next \in Leg
    <3> HIDE DEF kept
    <3>1. r.hop + 1 \in 1..3
      <4>1. PICK n \in 0..3 : n = Len(Chain(l))
        BY <1>3
      <4>2. r.hop \in 1..n /\ r.hop # n
        BY <1>6, <4>1
      <4> QED BY <4>2
    <3>2. r.errs \cup {class} \subseteq Classes
      BY <1>2
    <3>3. "acquire" \in Stages /\ NoKey \in Keys \cup {NoKey}
      BY DEF Stages
    <3>4. r.items \in BOOLEAN
      BY <1>2
    <3> QED BY <1>1, <1>4, <3>1, <3>2, <3>3, <3>4 DEF Leg
  <2> QED BY <1>3, <1>6, <2>1, <2>2
<1> QED BY <1>5, <1>6

\* The two things a step of leg l does to it: it stays with its vendor, or it
\* leaves the vendor with one more class collected.
Stays(l) ==
  \E r \in Leg :
    /\ leg' = [leg EXCEPT ![l] = r]
    /\ r.pc \in {"acquire", "calling", "ok"}
    /\ r.hop = leg[l].hop
    /\ r.errs = leg[l].errs
    /\ r.pc = "calling" => r.key \in Keys /\ VendorOf[r.key] = Vendor(l)
    /\ fault' = fault

Leaves(l) ==
  \E r \in Leg, class \in Classes :
    /\ leg' = [leg EXCEPT ![l] = Leave(l, r, class)]
    /\ r.hop = leg[l].hop
    /\ r.errs = leg[l].errs
    /\ fault' = [fault EXCEPT ![l][Vendor(l)] = class]

ScalarTypes ==
  /\ keyState \in [Keys -> States]
  /\ sink \in Meta
  /\ calls \in Nat
  /\ won \subseteq Keys
  /\ cause \in [Keys -> Meanings \cup {"none"}]

LEMMA GrantedStep ==
  ASSUME TypeOK, NEW l \in Legs, NEW k \in Keys, Granted(l, k)
  PROVE  Stays(l) /\ ScalarTypes'
<1> DEFINE own == NotePending(leg[l].own, k)
           r   == [leg[l] EXCEPT !.pc = "calling", !.key = k, !.own = own]
<1>1. leg \in [Legs -> Leg] /\ leg[l] \in Leg /\ leg[l].own \in Meta
  BY DEF TypeOK, Leg
<1>2. own \in Meta
  BY <1>1, MetaTypes
<1>3. r \in Leg /\ r.pc = "calling" /\ r.key = k /\ r.hop = leg[l].hop
      /\ r.errs = leg[l].errs
  <2> HIDE DEF own
  <2> QED BY <1>1, <1>2 DEF Leg, Stages
<1>4. leg' = [leg EXCEPT ![l] = r] /\ sink' = own /\ fault' = fault
      /\ VendorOf[k] = Vendor(l)
  <2>1. sink' = own
    BY DEF Granted
  <2>2. leg' = [leg EXCEPT ![l].pc = "calling", ![l].key = k, ![l].own = own]
    BY <2>1 DEF Granted
  <2>3. leg' = [leg EXCEPT ![l] = r]
    <3> HIDE DEF own
    <3> QED BY <2>2, <1>1
  <2> QED BY <2>1, <2>3 DEF Granted, history
<1> HIDE DEF own, r
<1>5. Stays(l)
  BY <1>3, <1>4 DEF Stays
<1>6. ScalarTypes'
  BY <1>2, <1>4 DEF ScalarTypes, TypeOK, Granted, history, States
<1> QED BY <1>5, <1>6

LEMMA NotGrantedStep ==
  ASSUME TypeOK, NEW l \in Legs, NotGranted(l)
  PROVE  Leaves(l) /\ ScalarTypes'
<1>1. leg[l] \in Leg /\ "outage" \in Classes
  BY DEF TypeOK, Classes
<1>2. Leaves(l)
  BY <1>1 DEF Leaves, NotGranted
<1>3. ScalarTypes'
  BY DEF ScalarTypes, TypeOK, NotGranted, States
<1> QED BY <1>2, <1>3

LEMMA CallAnswersStep ==
  ASSUME TypeOK, NEW l \in Legs, NEW items \in BOOLEAN, CallAnswers(l, items)
  PROVE  Stays(l) /\ ScalarTypes'
<1> DEFINE k    == leg[l].key
           own  == NoteAttempt(leg[l].own, k, TRUE, {})
           kept == Absorb(leg[l].kept, own)
           r    == [leg[l] EXCEPT !.pc = "ok", !.items = items, !.key = NoKey,
                                  !.kept = kept, !.own = EmptyMeta]
<1>1. leg \in [Legs -> Leg] /\ leg[l] \in Leg /\ leg[l].own \in Meta
      /\ leg[l].kept \in Meta
  BY DEF TypeOK, Leg
<1>2. k \in Keys
  BY DEF TypeOK, CallAnswers
<1>3. own \in Meta /\ EmptyMeta \in Meta
  BY <1>1, <1>2, MetaTypes
<1>4. kept \in Meta
  <2> HIDE DEF own, k
  <2> QED BY <1>1, <1>3, AbsorbTypes
<1>5. r \in Leg /\ r.pc = "ok" /\ r.hop = leg[l].hop /\ r.errs = leg[l].errs
  <2> HIDE DEF own, k, kept
  <2> QED BY <1>1, <1>3, <1>4 DEF Leg, Stages
<1>6. leg' = [leg EXCEPT ![l] = r]
  <2>1. leg' = [leg EXCEPT ![l].pc = "ok", ![l].items = items, ![l].key = NoKey,
                           ![l].kept = kept, ![l].own = EmptyMeta]
    BY DEF CallAnswers
  <2> HIDE DEF own, k, kept
  <2> QED BY <2>1, <1>1
<1>7. sink' = own /\ calls' = calls + 1 /\ won' = won \cup {k} /\ fault' = fault
      /\ keyState' = keyState /\ cause' = cause
  BY DEF CallAnswers
<1> HIDE DEF own, k, kept, r
<1>8. Stays(l)
  BY <1>5, <1>6, <1>7 DEF Stays
<1>9. ScalarTypes'
  BY <1>2, <1>3, <1>7 DEF ScalarTypes, TypeOK, States
<1> QED BY <1>8, <1>9

LEMMA CallFailsStep ==
  ASSUME TypeOK, NEW l \in Legs, NEW f \in Faults, NEW says \in Meanings,
         NEW s \in States, CallFails(l, f, says, s)
  PROVE  (Stays(l) \/ Leaves(l)) /\ ScalarTypes'
<1> DEFINE k     == leg[l].key
           flips == IF s # keyState[k] THEN {k} ELSE {}
           own   == NoteAttempt(leg[l].own, k, FALSE, flips)
           r     == [leg[l] EXCEPT !.own = own]
           again == [r EXCEPT !.pc = "acquire", !.key = NoKey, !.attempt = @ + 1]
<1>1. leg \in [Legs -> Leg] /\ leg[l] \in Leg /\ leg[l].own \in Meta
  BY DEF TypeOK, Leg
<1>2. k \in Keys
  BY DEF TypeOK, CallFails
<1>3. flips \in SUBSET Keys
  BY <1>2
<1>4. own \in Meta
  <2> HIDE DEF flips, k
  <2> QED BY <1>1, <1>2, <1>3, MetaTypes
<1>5. r \in Leg /\ r.hop = leg[l].hop /\ r.errs = leg[l].errs
      /\ r.attempt = leg[l].attempt
  <2> HIDE DEF own, k, flips
  <2> QED BY <1>1, <1>4 DEF Leg
<1>6. /\ keyState' = [keyState EXCEPT ![k] = s]
      /\ sink' = own
      /\ calls' = calls + 1
      /\ cause' = IF s # keyState[k] THEN [cause EXCEPT ![k] = says] ELSE cause
      /\ won' = won
      /\ \/ Again(l, f) /\ leg' = [leg EXCEPT ![l] = again] /\ fault' = fault
         \/ /\ leg' = [leg EXCEPT ![l] = Leave(l, r, Class(f))]
            /\ fault' = [fault EXCEPT ![l][Vendor(l)] = Class(f)]
  BY Zenon DEF CallFails
<1>7. Class(f) \in Classes
  BY DEF Class, Classes
<1> HIDE DEF own, k, flips
<1>8. ASSUME Again(l, f) /\ leg' = [leg EXCEPT ![l] = again] /\ fault' = fault
      PROVE  Stays(l)
  <2>1. leg[l].attempt + 1 \in 1..MaxAttempts
    <3>1. Budget \in 1..MaxAttempts
      BY RunAssumption DEF Budget
    <3>2. PICK n \in 1..MaxAttempts : n = Budget
      BY <3>1
    <3>3. PICK a \in 1..MaxAttempts : a = leg[l].attempt
      BY <1>1 DEF Leg
    <3>4. a < n
      BY <1>8, <3>2, <3>3 DEF Again
    <3>5. MaxAttempts \in Nat
      BY RunAssumption
    <3>6. a + 1 \in 1..MaxAttempts
      BY <3>4, <3>5
    <3> QED BY <3>3, <3>6
  <2>2. again \in Leg /\ again.pc = "acquire" /\ again.hop = leg[l].hop
        /\ again.errs = leg[l].errs
    <3> HIDE DEF r
    <3>1. again = [r EXCEPT !.pc = "acquire", !.key = NoKey,
                            !.attempt = leg[l].attempt + 1]
      BY <1>5 DEF Leg
    <3>2. "acquire" \in Stages
      BY DEF Stages
    <3> HIDE DEF again
    <3>3. PICK n \in 1..MaxAttempts : n = leg[l].attempt + 1
      BY <2>1
    <3> QED BY <1>5, <3>1, <3>2, <3>3 DEF Leg
  <2> HIDE DEF again
  <2> QED BY <1>8, <2>2 DEF Stays
<1>9. ASSUME /\ leg' = [leg EXCEPT ![l] = Leave(l, r, Class(f))]
             /\ fault' = [fault EXCEPT ![l][Vendor(l)] = Class(f)]
      PROVE  Leaves(l)
  <2> HIDE DEF r
  <2> QED BY <1>5, <1>7, <1>9 DEF Leaves
<1>10. ScalarTypes'
  <2>1. keyState' \in [Keys -> States]
    BY <1>2, <1>6 DEF TypeOK, States
  <2>2. cause' \in [Keys -> Meanings \cup {"none"}]
    <3>1. cause \in [Keys -> Meanings \cup {"none"}]
      BY DEF TypeOK
    <3> QED BY <1>2, <1>6, <3>1
  <2> QED BY <1>3, <1>4, <1>6, <2>1, <2>2 DEF ScalarTypes, TypeOK
<1> HIDE DEF r, again
<1> QED BY <1>6, <1>8, <1>9, <1>10

\* What every step of a leg does, and what it leaves alone.
LEMMA LegStep ==
  ASSUME TypeOK, NEW l \in Legs, Step(l)
  PROVE  /\ Stays(l) \/ Leaves(l)
         /\ ScalarTypes'
         /\ Running(l)
         /\ answer = "none"
         /\ plan' = plan /\ answer' = answer /\ meta' = meta
<1>1. CASE \E k \in Keys : Granted(l, k)
  BY <1>1, GrantedStep DEF Granted, Running, history
<1>2. CASE NotGranted(l)
  BY <1>2, NotGrantedStep DEF NotGranted, Running
<1>3. CASE \E items \in BOOLEAN : CallAnswers(l, items)
  BY <1>3, CallAnswersStep DEF CallAnswers, Running
<1>4. CASE /\ leg[l].pc = "calling"
           /\ \E o \in Outcomes[Vendor(l)], s \in States :
                CallFails(l, o.fault, o.says, s)
  <2>1. PICK o \in Outcomes[Vendor(l)], s \in States : CallFails(l, o.fault, o.says, s)
    BY <1>4
  <2>2. o.fault \in Faults /\ o.says \in Meanings
    <3>1. Vendor(l) \in Vendors
      BY <1>4, VendorTypes
    <3> QED BY <3>1, OutcomeTypes
  <2> QED BY <2>1, <2>2, CallFailsStep DEF CallFails, Running
<1> QED BY <1>1, <1>2, <1>3, <1>4 DEF Step

LegTypes ==
  /\ leg \in [Legs -> Leg]
  /\ \A l \in Legs :
       /\ leg[l].pc = "absent" <=> Chain(l) = <<>>
       /\ leg[l].pc # "absent" => leg[l].hop <= Len(Chain(l))
       /\ leg[l].pc = "calling" => /\ leg[l].key \in Keys
                                   /\ VendorOf[leg[l].key] = Vendor(l)
  /\ fault \in [Legs -> [Vendors -> Classes \cup {"none"}]]

LEMMA StaysTypes ==
  ASSUME TypeOK, NEW l \in Legs, Running(l), Stays(l), plan' = plan
  PROVE  LegTypes'
<1>1. PICK r \in Leg :
        /\ leg' = [leg EXCEPT ![l] = r]
        /\ r.pc \in {"acquire", "calling", "ok"}
        /\ r.hop = leg[l].hop
        /\ r.pc = "calling" => r.key \in Keys /\ VendorOf[r.key] = Vendor(l)
        /\ fault' = fault
  BY DEF Stays
<1>2. leg' \in [Legs -> Leg]
  BY <1>1 DEF TypeOK
<1>3. leg[l].pc # "absent" /\ Chain(l) # <<>> /\ leg[l].hop <= Len(Chain(l))
  BY DEF TypeOK, Running
<1>4. ASSUME NEW m \in Legs
      PROVE  /\ leg'[m].pc = "absent" <=> Chain(m)' = <<>>
             /\ leg'[m].pc # "absent" => leg'[m].hop <= Len(Chain(m)')
             /\ leg'[m].pc = "calling" => /\ leg'[m].key \in Keys
                                          /\ VendorOf[leg'[m].key] = Vendor(m)'
  <2>1. Chain(m)' = Chain(m)
    BY DEF Chain
  <2>2. CASE m = l
    <3>1. leg'[m] = r
      BY <1>1, <2>2 DEF TypeOK
    <3>2. Vendor(m)' = Vendor(m)
      BY <1>1, <2>1, <2>2, <3>1 DEF Vendor
    <3> QED BY <1>1, <1>3, <2>1, <2>2, <3>1, <3>2
  <2>3. CASE m # l
    <3>1. leg'[m] = leg[m]
      BY <1>1, <2>3 DEF TypeOK
    <3>2. Vendor(m)' = Vendor(m)
      BY <2>1, <3>1 DEF Vendor
    <3> QED BY <2>1, <3>1, <3>2 DEF TypeOK
  <2> QED BY <2>2, <2>3
<1>5. fault' \in [Legs -> [Vendors -> Classes \cup {"none"}]]
  BY <1>1 DEF TypeOK
<1> QED BY <1>2, <1>4, <1>5 DEF LegTypes

LEMMA LeavesTypes ==
  ASSUME TypeOK, NEW l \in Legs, Running(l), Leaves(l), plan' = plan
  PROVE  LegTypes'
<1>1. PICK r \in Leg, class \in Classes :
        /\ leg' = [leg EXCEPT ![l] = Leave(l, r, class)]
        /\ r.hop = leg[l].hop
        /\ fault' = [fault EXCEPT ![l][Vendor(l)] = class]
  BY DEF Leaves
<1> DEFINE left == Leave(l, r, class)
<1>2. Walkable(Chain(l)) /\ leg[l].hop \in 1..Len(Chain(l)) /\ Chain(l) # <<>>
      /\ Vendor(l) \in Vendors
  <2>1. leg[l].pc # "absent"
    BY DEF Running
  <2> QED BY <2>1, PlanChain, VendorTypes DEF TypeOK
<1>3. left \in Leg /\ left.pc \in {"err", "acquire"} /\ left.hop <= Len(Chain(l))
  BY <1>1, <1>2, LeaveFacts
<1>4. leg' = [leg EXCEPT ![l] = left]
  BY <1>1
<1> HIDE DEF left
<1>5. leg' \in [Legs -> Leg]
  BY <1>3, <1>4 DEF TypeOK
<1>6. ASSUME NEW m \in Legs
      PROVE  /\ leg'[m].pc = "absent" <=> Chain(m)' = <<>>
             /\ leg'[m].pc # "absent" => leg'[m].hop <= Len(Chain(m)')
             /\ leg'[m].pc = "calling" => /\ leg'[m].key \in Keys
                                          /\ VendorOf[leg'[m].key] = Vendor(m)'
  <2>1. Chain(m)' = Chain(m)
    BY DEF Chain
  <2>2. CASE m = l
    <3>1. leg'[m] = left
      BY <1>4, <2>2 DEF TypeOK
    <3> QED BY <1>2, <1>3, <2>1, <2>2, <3>1
  <2>3. CASE m # l
    <3>1. leg'[m] = leg[m]
      BY <1>4, <2>3 DEF TypeOK
    <3>2. Vendor(m)' = Vendor(m)
      BY <2>1, <3>1 DEF Vendor
    <3> QED BY <2>1, <3>1, <3>2 DEF TypeOK
  <2> QED BY <2>2, <2>3
<1>7. fault' \in [Legs -> [Vendors -> Classes \cup {"none"}]]
  BY <1>1, <1>2 DEF TypeOK
<1> QED BY <1>5, <1>6, <1>7 DEF LegTypes

\* TypeOK holds in every reachable state.
THEOREM SearchTypes == Spec => []TypeOK
<1>1. Init => TypeOK
  <2> SUFFICES ASSUME Init PROVE TypeOK
    OBVIOUS
  <2>1. EmptyMeta \in Meta
    BY DEF Meta, EmptyMeta
  <2>2. leg \in [Legs -> Leg]
    BY FirstLegTypes DEF Init
  <2>3. ASSUME NEW l \in Legs
        PROVE  /\ leg[l].pc = "absent" <=> Chain(l) = <<>>
               /\ leg[l].pc # "absent" => leg[l].hop <= Len(Chain(l))
               /\ leg[l].pc # "calling"
    <3>1. leg[l] = FirstLeg(Chain(l))
      BY DEF Init
    <3>2. Walkable(Chain(l))
      BY PlanChain DEF Init
    <3> QED BY <3>1, <3>2, FirstLegTypes DEF Walkable
  <2>4. fault \in [Legs -> [Vendors -> Classes \cup {"none"}]]
    BY DEF Init
  <2>5. keyState \in [Keys -> States] /\ cause \in [Keys -> Meanings \cup {"none"}]
    BY DEF Init, States
  <2> QED BY <2>1, <2>2, <2>3, <2>4, <2>5 DEF Init, TypeOK
<1>2. TypeOK /\ [Next]_vars => TypeOK'
  <2> SUFFICES ASSUME TypeOK, [Next]_vars PROVE TypeOK'
    OBVIOUS
  <2>1. ASSUME NEW l \in Legs, Step(l) PROVE TypeOK'
    <3>1. LegTypes'
      BY <2>1, LegStep, StaysTypes, LeavesTypes
    <3>2. ScalarTypes' /\ plan' = plan /\ answer' = answer /\ meta' = meta
      BY <2>1, LegStep
    <3>3. plan' \in Plans /\ answer' \in Answers \cup {"none"} /\ meta' \in Meta
      BY <3>2 DEF TypeOK
    <3> QED BY <3>1, <3>2, <3>3 DEF TypeOK, LegTypes, ScalarTypes, States
  <2>2. ASSUME plan' = plan, leg' = leg, keyState' = keyState, sink' = sink,
               UNCHANGED history, answer' \in Answers \cup {"none"}, meta' \in Meta
        PROVE  TypeOK'
    <3>1. \A l \in Legs : Chain(l)' = Chain(l) /\ Vendor(l)' = Vendor(l)
      BY <2>2 DEF Chain, Vendor
    <3> QED BY <2>2, <3>1 DEF TypeOK, history
  <2>3. CASE Answer
    <3>1. answer' \in Answers
      BY <2>3 DEF Answer, Answers, Combined, ErrorOf
    <3>2. leg[1].kept \in Meta /\ leg[2].kept \in Meta /\ leg[3].kept \in Meta
      BY DEF TypeOK, Leg, Legs
    <3>3. \A m, o \in Meta : Absorb(m, o) \in Meta
      BY AbsorbTypes
    <3>4. meta' \in Meta
      BY <2>3, <3>2, <3>3 DEF Answer
    <3> QED BY <2>2, <2>3, <3>1, <3>4 DEF Answer
  <2>4. CASE Deadline
    BY <2>2, <2>4 DEF Deadline, Answers, TypeOK
  <2>5. CASE UNCHANGED vars
    BY <2>2, <2>5 DEF vars, code, TypeOK
  <2> QED BY <2>1, <2>3, <2>4, <2>5 DEF Next
<1> QED BY <1>1, <1>2, PTL DEF Spec

-----------------------------------------------------------------------------
(* The class of an answer.                                                  *)

\* A leg has collected the classes its vendors failed it with, and exactly the
\* vendors it has left, all of them once it has failed, did fail it.
CollectedBy(l) ==
  Chain(l) # <<>> =>
    /\ \A c \in Classes :
         c \in leg[l].errs <=> \E i \in 1..Len(Chain(l)) : fault[l][Chain(l)[i]] = c
    /\ \A i \in 1..Len(Chain(l)) :
         fault[l][Chain(l)[i]] # "none" <=> (i < leg[l].hop \/ leg[l].pc = "err")

Collected == \A l \in Legs : CollectedBy(l)

\* An error was combined from the legs as they stand: none of them moves again.
Combines ==
  answer \in {"refused", "drained", "outage", "empty"} => answer = Combined

IInv == TypeOK /\ Collected /\ Combines

LEMMA OtherLegCollected ==
  ASSUME TypeOK, NEW m \in Legs, CollectedBy(m), plan' = plan,
         leg'[m] = leg[m], fault'[m] = fault[m]
  PROVE  CollectedBy(m)'
<1>1. Chain(m)' = Chain(m)
  BY DEF Chain
<1> QED BY <1>1 DEF CollectedBy

LEMMA StaysCollected ==
  ASSUME TypeOK, Collected, NEW l \in Legs, Running(l), Stays(l), plan' = plan
  PROVE  Collected'
<1>1. PICK r \in Leg :
        /\ leg' = [leg EXCEPT ![l] = r]
        /\ r.pc \in {"acquire", "calling", "ok"}
        /\ r.hop = leg[l].hop
        /\ r.errs = leg[l].errs
        /\ fault' = fault
  BY DEF Stays
<1>2. ASSUME NEW m \in Legs PROVE CollectedBy(m)'
  <2>1. Chain(m)' = Chain(m) /\ CollectedBy(m)
    BY DEF Chain, Collected
  <2>2. CASE m = l
    <3>1. leg'[m] = r
      BY <1>1, <2>2 DEF TypeOK
    <3>2. leg[m].pc # "err" /\ leg'[m].pc # "err"
      BY <1>1, <2>2, <3>1 DEF Running
    <3> QED BY <1>1, <2>1, <2>2, <3>1, <3>2 DEF CollectedBy
  <2>3. CASE m # l
    <3>1. leg'[m] = leg[m] /\ fault'[m] = fault[m]
      BY <1>1, <2>3 DEF TypeOK
    <3> QED BY <2>1, <3>1, OtherLegCollected
  <2> QED BY <2>2, <2>3
<1> QED BY <1>2 DEF Collected

LEMMA LeavesCollected ==
  ASSUME TypeOK, Collected, NEW l \in Legs, Running(l), Leaves(l), plan' = plan
  PROVE  Collected'
<1>1. PICK r \in Leg, class \in Classes :
        /\ leg' = [leg EXCEPT ![l] = Leave(l, r, class)]
        /\ r.hop = leg[l].hop
        /\ r.errs = leg[l].errs
        /\ fault' = [fault EXCEPT ![l][Vendor(l)] = class]
  BY DEF Leaves
<1> DEFINE left == Leave(l, r, class)
<1>2. Walkable(Chain(l)) /\ leg[l].hop \in 1..Len(Chain(l)) /\ Chain(l) # <<>>
      /\ Vendor(l) \in Vendors
  <2>1. leg[l].pc # "absent"
    BY DEF Running
  <2> QED BY <2>1, PlanChain, VendorTypes DEF TypeOK
<1>3. /\ left.pc = (IF r.hop = Len(Chain(l)) THEN "err" ELSE "acquire")
      /\ left.hop = (IF r.hop = Len(Chain(l)) THEN r.hop ELSE r.hop + 1)
      /\ left.errs = r.errs \cup {class}
  BY <1>1, <1>2, LeaveFacts
<1>4. leg' = [leg EXCEPT ![l] = left]
  BY <1>1
<1> HIDE DEF left
<1>5. CollectedBy(l)'
  <2> DEFINE c == Chain(l)
             f == fault[l]
             g == fault'[l]
             h == leg[l].hop
  <2>1. Chain(l)' = c /\ leg'[l] = left
    BY <1>4 DEF Chain, TypeOK
  <2>2. PICK n \in 0..3 : n = Len(c)
    BY <1>2 DEF Walkable
  <2>3. /\ h \in 1..n
        /\ \A i \in 1..n : c[i] \in Vendors
        /\ \A i, j \in 1..n : c[i] = c[j] => i = j
    BY <1>2, <2>2 DEF Walkable
  <2>4. g = [f EXCEPT ![c[h]] = class] /\ f \in [Vendors -> Classes \cup {"none"}]
    BY <1>1 DEF TypeOK, Vendor
  <2>5. /\ leg[l].pc # "err"
        /\ \A x \in Classes : x \in leg[l].errs <=> \E i \in 1..n : f[c[i]] = x
        /\ \A i \in 1..n : f[c[i]] # "none" <=> i < h
    BY <1>2, <2>2 DEF CollectedBy, Collected, Running
  <2>6. \A i \in 1..n : g[c[i]] = (IF i = h THEN class ELSE f[c[i]])
    <3> HIDE DEF c, f, g, h
    <3> QED BY <2>3, <2>4
  <2>7. class # "none" /\ "none" \notin Classes
    BY DEF Classes
  <2>8. \A x \in Classes : x \in left.errs <=> \E i \in 1..n : g[c[i]] = x
    <3> SUFFICES ASSUME NEW x \in Classes
                 PROVE  x \in left.errs <=> \E i \in 1..n : g[c[i]] = x
      OBVIOUS
    <3>1. x \in left.errs <=> (x = class \/ \E i \in 1..n : f[c[i]] = x)
      BY <1>1, <1>3, <2>5
    <3>2. f[c[h]] = "none" /\ x # "none"
      <4>1. h \in 1..n /\ ~(h < h)
        BY <2>3
      <4> HIDE DEF h, f, c
      <4> QED BY <4>1, <2>5, <2>7
    <3> HIDE DEF c, f, g, h
    <3> QED BY <2>3, <2>6, <3>1, <3>2
  <2>9. \A i \in 1..n : g[c[i]] # "none" <=> (i < left.hop \/ left.pc = "err")
    <3>1. /\ left.pc = (IF h = n THEN "err" ELSE "acquire")
          /\ left.hop = (IF h = n THEN h ELSE h + 1)
      BY <1>1, <1>3, <2>2
    <3> HIDE DEF c, f, g, h
    <3>2. CASE h = n
      BY <2>3, <2>5, <2>6, <2>7, <3>1, <3>2
    <3>3. CASE h # n
      BY <2>3, <2>5, <2>6, <2>7, <3>1, <3>3
    <3> QED BY <3>2, <3>3
  <2> QED BY <2>1, <2>2, <2>8, <2>9 DEF CollectedBy
<1>6. ASSUME NEW m \in Legs, m # l PROVE CollectedBy(m)'
  <2>1. leg'[m] = leg[m] /\ fault'[m] = fault[m] /\ CollectedBy(m)
    BY <1>1, <1>6 DEF TypeOK, Collected
  <2> QED BY <2>1, OtherLegCollected
<1> QED BY <1>5, <1>6 DEF Collected

LEMMA SearchInv == Spec => []IInv
<1>1. Init => Collected /\ Combines
  <2> SUFFICES ASSUME Init PROVE Collected /\ Combines
    OBVIOUS
  <2>1. ASSUME NEW l \in Legs, Chain(l) # <<>>
        PROVE  CollectedBy(l)
    <3>1. leg[l] = FirstLeg(Chain(l))
      BY DEF Init
    <3>2. leg[l].hop = 1 /\ leg[l].errs = {} /\ leg[l].pc # "err"
      BY <2>1, <3>1, FirstLegTypes
    <3>3. Walkable(Chain(l))
      BY PlanChain DEF Init
    <3>4. \A i \in 1..Len(Chain(l)) : fault[l][Chain(l)[i]] = "none"
      BY <3>3 DEF Init, Walkable
    <3>5. \A i \in 1..Len(Chain(l)) : ~(i < 1)
      BY <3>3 DEF Walkable
    <3> QED BY <3>2, <3>4, <3>5 DEF CollectedBy, Classes
  <2> QED BY <2>1 DEF Collected, CollectedBy, Combines, Init
<1>2. TypeOK /\ Collected /\ Combines /\ [Next]_vars => Collected' /\ Combines'
  <2> SUFFICES ASSUME TypeOK, Collected, Combines, [Next]_vars
               PROVE  Collected' /\ Combines'
    OBVIOUS
  <2>1. ASSUME NEW l \in Legs, Step(l) PROVE Collected' /\ Combines'
    <3>1. Collected'
      BY <2>1, LegStep, StaysCollected, LeavesCollected
    <3>2. answer' = "none"
      BY <2>1, LegStep
    <3> QED BY <3>1, <3>2 DEF Combines
  <2>2. ASSUME plan' = plan, leg' = leg, fault' = fault
        PROVE  Collected' /\ Combined' = Combined
    <3>1. \A l \in Legs : Chain(l)' = Chain(l)
      BY <2>2 DEF Chain
    <3>2. Collected'
      BY <2>2, <3>1 DEF Collected, CollectedBy
    <3> QED BY <2>2, <3>2 DEF Combined, Failed
  <2>3. CASE Answer
    <3>1. answer' = "served" \/ answer' = Combined
      BY <2>3 DEF Answer
    <3>2. Collected' /\ Combined' = Combined
      BY <2>2, <2>3 DEF Answer, history
    <3> QED BY <3>1, <3>2 DEF Combines
  <2>4. CASE Deadline
    <3>1. Collected' /\ answer' = "timeout"
      BY <2>2, <2>4 DEF Deadline, history
    <3> QED BY <3>1 DEF Combines
  <2>5. CASE UNCHANGED vars
    <3>1. Collected' /\ Combined' = Combined /\ answer' = answer
      BY <2>2, <2>5 DEF vars, code, history
    <3> QED BY <3>1 DEF Combines
  <2> QED BY <2>1, <2>3, <2>4, <2>5 DEF Next
<1> QED BY <1>1, <1>2, SearchTypes, PTL DEF Spec, IInv

LEMMA ErrorFacts ==
  ASSUME NEW errs
  PROVE  /\ ErrorOf(errs) = "drained" <=> "drained" \in errs
         /\ ErrorOf(errs) = "refused" <=> "drained" \notin errs /\ "outage" \notin errs
         /\ ErrorOf(errs) \in Classes
BY DEF ErrorOf, Classes

\* What a failed leg reports, in terms of its vendors.
LEMMA FailedLeg ==
  ASSUME IInv, NEW l \in Failed
  PROVE  /\ ErrorOf(leg[l].errs) = "drained" <=>
               \E v \in Asked(l) : fault[l][v] = "drained"
         /\ ErrorOf(leg[l].errs) = "refused" =>
               \A v \in Asked(l) : fault[l][v] = "refused"
<1>1. l \in Legs /\ leg[l].pc = "err" /\ Chain(l) # <<>>
  BY DEF Failed, IInv, TypeOK
<1>2. Walkable(Chain(l))
  BY <1>1, PlanChain DEF IInv, TypeOK
<1>3. Asked(l) = {Chain(l)[i] : i \in 1..Len(Chain(l))}
  <2>1. DOMAIN Chain(l) = 1..Len(Chain(l))
    BY <1>2 DEF Walkable
  <2> QED BY <2>1 DEF Asked
<1>4. /\ \A c \in Classes : c \in leg[l].errs <=> \E v \in Asked(l) : fault[l][v] = c
      /\ \A v \in Asked(l) : fault[l][v] # "none"
  BY <1>1, <1>3 DEF IInv, Collected, CollectedBy
<1>5. \A v \in Asked(l) : fault[l][v] \in Classes
  <2>1. \A v \in Asked(l) : v \in Vendors
    BY <1>2, <1>3 DEF Walkable
  <2> QED BY <1>1, <1>4, <2>1 DEF IInv, TypeOK
<1>6. "drained" \in Classes /\ "outage" \in Classes
  BY DEF Classes
<1>7. ErrorOf(leg[l].errs) = "refused" =>
        \A v \in Asked(l) : fault[l][v] # "drained" /\ fault[l][v] # "outage"
  BY <1>4, <1>6, ErrorFacts
<1> QED BY <1>4, <1>5, <1>6, <1>7, ErrorFacts DEF Classes

\* Whatever the pools, the vendors and the order of their answers, a request is
\* refused only if every vendor of every failed leg refused it.
THEOREM SearchRefusals == Spec => []RefusalIsUnanimous
<1>1. IInv => RefusalIsUnanimous
  <2> SUFFICES ASSUME IInv, answer = "refused"
               PROVE  /\ Failed # {}
                      /\ \A l \in Failed : \A v \in Asked(l) : fault[l][v] = "refused"
    BY DEF RefusalIsUnanimous
  <2> DEFINE es == {ErrorOf(leg[l].errs) : l \in Failed}
  <2>1. Failed # {} /\ ErrorOf(es) = "refused"
    BY DEF IInv, Combines, Combined
  <2>2. "drained" \notin es /\ "outage" \notin es
    BY <2>1, ErrorFacts
  <2>3. ASSUME NEW l \in Failed PROVE ErrorOf(leg[l].errs) = "refused"
    BY <2>2, ErrorFacts DEF Classes
  <2> QED BY <2>1, <2>3, FailedLeg
<1> QED BY <1>1, SearchInv, PTL

\* And a failed request whose failed legs met a 402 says so, and only those do.
THEOREM SearchDrains == Spec => []DrainSurfaces
<1>1. IInv => DrainSurfaces
  <2> SUFFICES ASSUME IInv, answer \in {"refused", "drained", "outage", "empty"}
               PROVE  answer = "drained" <=>
                        \E l \in Failed : \E v \in Asked(l) : fault[l][v] = "drained"
    BY DEF DrainSurfaces
  <2> DEFINE es == {ErrorOf(leg[l].errs) : l \in Failed}
  <2>1. answer = (IF Failed = {} THEN "empty" ELSE ErrorOf(es))
    BY DEF IInv, Combines, Combined
  <2>2. "drained" \in es <=>
          \E l \in Failed : \E v \in Asked(l) : fault[l][v] = "drained"
    BY FailedLeg
  <2> HIDE DEF es
  <2> QED BY <2>1, <2>2, ErrorFacts
<1> QED BY <1>1, SearchInv, PTL

\* Both together: the error classes of a failed request, in any order of its
\* failures, as execute.rs and chain.rs fold them.
THEOREM SearchPrecedence == Spec => []AnswerPrecedence
<1>1. RefusalIsUnanimous /\ DrainSurfaces => AnswerPrecedence
  BY DEF AnswerPrecedence
<1> QED BY SearchRefusals, SearchDrains, <1>1, PTL

-----------------------------------------------------------------------------
(* The meta.                                                                *)

\* A meta names a key exactly if it counts a call, and one that answered if it
\* says so; w are the keys that did.
Good(m, w) ==
  /\ m.key = NoKey <=> m.count = 0
  /\ m.won => m.key \in w

\* A leg in state r: what it has kept is good, and so is what it has of its
\* vendor between two attempts; an answer is never in own.
Tidy(r, w) ==
  /\ Good(r.kept, w)
  /\ ~r.own.won
  /\ r.pc = "acquire" => Good(r.own, w)
  /\ r.pc \notin {"acquire", "calling"} => r.own = EmptyMeta

Noted(r)  == r.kept.count + r.own.count
Listed(r) == r.kept.flips \cup r.own.flips

Changed == {k \in Keys : cause[k] # "none"}

\* The legs' metas together have every call and every transition, and a leg has
\* kept the answer if a key gave one.
MetaInv ==
  /\ \A l \in Legs : Tidy(leg[l], won)
  /\ calls = Noted(leg[1]) + Noted(leg[2]) + Noted(leg[3])
  /\ Listed(leg[1]) \cup Listed(leg[2]) \cup Listed(leg[3]) = Changed
  /\ won # {} => \E l \in Legs : leg[l].kept.won
  /\ MetaIsExact

LEMMA AbsorbGood ==
  ASSUME NEW w \in SUBSET Keys, NEW m \in Meta, NEW o \in Meta,
         Good(m, w), Good(o, w)
  PROVE  /\ Good(Absorb(m, o), w)
         /\ Absorb(m, o).count = m.count + o.count
         /\ Absorb(m, o).flips = m.flips \cup o.flips
         /\ Absorb(m, o).won = (m.won \/ o.won)
<1> DEFINE key == IF o.won \/ (~m.won /\ o.key # NoKey) THEN o.key ELSE m.key
           a == Absorb(m, o)
<1>1. a = [count |-> m.count + o.count, key |-> key, won |-> m.won \/ o.won,
           flips |-> m.flips \cup o.flips]
  BY DEF Absorb
<1>2. /\ m.count \in Nat /\ o.count \in Nat
      /\ m.won \in BOOLEAN /\ o.won \in BOOLEAN
  BY DEF Meta
<1>3. NoKey \notin w
  BY RunAssumption
<1>4. key = NoKey <=> m.count + o.count = 0
  <2>1. m.count + o.count = 0 <=> m.count = 0 /\ o.count = 0
    BY <1>2
  <2>2. key = NoKey <=> m.key = NoKey /\ o.key = NoKey
    BY <1>3 DEF Good
  <2> QED BY <2>1, <2>2 DEF Good
<1>5. (m.won \/ o.won) => key \in w
  BY DEF Good
<1> HIDE DEF key
<1>6. /\ a.key = key /\ a.count = m.count + o.count
      /\ a.flips = m.flips \cup o.flips
      /\ a.won = (m.won \/ o.won)
  BY <1>1
<1> QED BY <1>4, <1>5, <1>6 DEF Good

\* One leg changes from leg[l] to r: d calls and the transitions F are new.
LEMMA LegMeta ==
  ASSUME TypeOK, MetaInv, NEW l \in Legs, NEW r \in Leg,
         leg' = [leg EXCEPT ![l] = r], answer' = "none",
         NEW d \in {0, 1}, NEW F \in SUBSET Keys,
         Noted(r) = Noted(leg[l]) + d, calls' = calls + d,
         Listed(r) = Listed(leg[l]) \cup F, Changed' = Changed \cup F,
         won \subseteq won', Tidy(r, won'),
         leg[l].kept.won => r.kept.won,
         won' # {} => won # {} \/ r.kept.won
  PROVE  MetaInv'
<1>1. /\ leg'[l] = r
      /\ \A m \in Legs : m # l => leg'[m] = leg[m]
      /\ l \in {1, 2, 3} /\ Legs = {1, 2, 3}
  BY DEF TypeOK, Legs
<1>2. \A m \in Legs : Tidy(leg'[m], won')
  <2> SUFFICES ASSUME NEW m \in Legs, m # l PROVE Tidy(leg[m], won')
    BY <1>1
  <2>1. Tidy(leg[m], won)
    BY DEF MetaInv
  <2> QED BY <2>1 DEF Tidy, Good
<1>3. calls' = Noted(leg'[1]) + Noted(leg'[2]) + Noted(leg'[3])
  <2>1. \A m \in Legs : Noted(leg[m]) \in Nat
    BY DEF TypeOK, Leg, Meta, Noted
  <2>2. /\ Noted(leg[1]) \in Nat /\ Noted(leg[2]) \in Nat /\ Noted(leg[3]) \in Nat
        /\ calls = Noted(leg[1]) + Noted(leg[2]) + Noted(leg[3])
    BY <1>1, <2>1 DEF MetaInv
  <2> QED BY <1>1, <2>2
<1>4. Listed(leg'[1]) \cup Listed(leg'[2]) \cup Listed(leg'[3]) = Changed'
  <2>1. Listed(leg[1]) \cup Listed(leg[2]) \cup Listed(leg[3]) = Changed
    BY DEF MetaInv
  <2> QED BY <1>1, <2>1
<1>5. won' # {} => \E m \in Legs : leg'[m].kept.won
  BY <1>1 DEF MetaInv
<1>6. MetaIsExact'
  BY DEF MetaIsExact
<1> QED BY <1>2, <1>3, <1>4, <1>5, <1>6 DEF MetaInv

LEMMA GrantedMeta ==
  ASSUME TypeOK, MetaInv, NEW l \in Legs, NEW k \in Keys, Granted(l, k)
  PROVE  MetaInv'
<1> DEFINE own == NotePending(leg[l].own, k)
           r   == [leg[l] EXCEPT !.pc = "calling", !.key = k, !.own = own]
<1>1. leg \in [Legs -> Leg] /\ leg[l] \in Leg /\ leg[l].own \in Meta
  BY DEF TypeOK, Leg
<1>2. /\ own \in Meta /\ own.count = leg[l].own.count
      /\ own.flips = leg[l].own.flips /\ own.won = leg[l].own.won
  <2>1. own \in Meta
    BY <1>1, MetaTypes
  <2> DEFINE key == IF leg[l].own.won THEN leg[l].own.key ELSE k
  <2>2. own = [leg[l].own EXCEPT !.key = key]
    BY DEF NotePending
  <2> HIDE DEF key, own
  <2> QED BY <1>1, <2>1, <2>2 DEF Meta
<1>3. r \in Leg /\ r.pc = "calling" /\ r.own = own /\ r.kept = leg[l].kept
  <2> HIDE DEF own
  <2> QED BY <1>1, <1>2 DEF Leg, Stages
<1>4. /\ leg' = [leg EXCEPT ![l] = r]
      /\ calls' = calls /\ won' = won /\ cause' = cause
      /\ answer' = "none"
  <2>1. sink' = own
    BY DEF Granted
  <2>2. leg' = [leg EXCEPT ![l].pc = "calling", ![l].key = k, ![l].own = own]
    BY <2>1 DEF Granted
  <2>3. leg' = [leg EXCEPT ![l] = r]
    <3> HIDE DEF own
    <3> QED BY <2>2, <1>1
  <2> QED BY <2>3 DEF Granted, history
<1> HIDE DEF own, r
<1>5. Tidy(r, won')
  <2>1. Tidy(leg[l], won)
    BY DEF MetaInv
  <2> QED BY <1>2, <1>3, <1>4, <2>1 DEF Tidy
<1>6. Noted(r) = Noted(leg[l]) + 0 /\ calls' = calls + 0
  <2>1. leg[l].kept.count \in Nat /\ leg[l].own.count \in Nat /\ calls \in Nat
    BY DEF TypeOK, Leg, Meta
  <2> QED BY <1>2, <1>3, <1>4, <2>1 DEF Noted
<1>7. Listed(r) = Listed(leg[l]) \cup {} /\ Changed' = Changed \cup {}
  BY <1>2, <1>3, <1>4 DEF Listed, Changed
<1>8. /\ 0 \in {0, 1} /\ {} \in SUBSET Keys /\ won \subseteq won'
      /\ leg[l].kept.won => r.kept.won
      /\ won' # {} => won # {}
  BY <1>3, <1>4
<1>9. Noted(r) = Noted(leg[l]) + 0 /\ calls' = calls + 0
  BY <1>6
<1> QED BY <1>3, <1>4, <1>5, <1>7, <1>8, <1>9, LegMeta

\* Leg l leaves its vendor, whose meta has become own: what was in it moves to
\* what the leg keeps.
LEMMA LeaveMeta ==
  ASSUME TypeOK, MetaInv, NEW l \in Legs, Running(l), NEW r \in Leg,
         NEW class \in Classes, r.hop = leg[l].hop, r.kept = leg[l].kept,
         leg' = [leg EXCEPT ![l] = Leave(l, r, class)], answer' = "none",
         NEW d \in {0, 1}, NEW F \in SUBSET Keys,
         r.own.count = leg[l].own.count + d, calls' = calls + d,
         r.own.flips = leg[l].own.flips \cup F, Changed' = Changed \cup F,
         ~r.own.won, Good(r.own, won), won' = won
  PROVE  MetaInv'
<1> DEFINE left == Leave(l, r, class)
<1>1. Walkable(Chain(l)) /\ leg[l].hop \in 1..Len(Chain(l))
  <2>1. leg[l].pc # "absent"
    BY DEF Running
  <2> QED BY <2>1, PlanChain, VendorTypes DEF TypeOK
<1>2. /\ left \in Leg /\ left.pc \in {"err", "acquire"}
      /\ left.kept = Absorb(r.kept, r.own) /\ left.own = EmptyMeta
  BY <1>1, LeaveFacts
<1>3. leg' = [leg EXCEPT ![l] = left]
  OBVIOUS
<1> HIDE DEF left
<1>4. Tidy(leg[l], won)
  BY DEF MetaInv
<1>5. r.kept \in Meta /\ r.own \in Meta /\ leg[l].own \in Meta /\ won \in SUBSET Keys
  BY DEF Leg, TypeOK
<1>6. Good(r.kept, won)
  BY <1>4 DEF Tidy
<1>7. /\ Good(left.kept, won)
      /\ left.kept.count = r.kept.count + r.own.count
      /\ left.kept.flips = r.kept.flips \cup r.own.flips
      /\ left.kept.won = (r.kept.won \/ r.own.won)
  <2>1. /\ Good(Absorb(r.kept, r.own), won)
        /\ Absorb(r.kept, r.own).count = r.kept.count + r.own.count
        /\ Absorb(r.kept, r.own).flips = r.kept.flips \cup r.own.flips
        /\ Absorb(r.kept, r.own).won = (r.kept.won \/ r.own.won)
    BY <1>5, <1>6, AbsorbGood
  <2> QED BY <1>2, <2>1
<1>8. /\ EmptyMeta.count = 0 /\ EmptyMeta.key = NoKey /\ ~EmptyMeta.won
      /\ EmptyMeta.flips = {}
  BY DEF EmptyMeta
<1>9. Tidy(left, won')
  BY <1>2, <1>7, <1>8 DEF Tidy, Good
<1>10. Noted(left) = Noted(leg[l]) + d
  <2>1. leg[l].kept.count \in Nat /\ leg[l].own.count \in Nat
    BY <1>5 DEF Meta
  <2> QED BY <1>2, <1>7, <1>8, <2>1 DEF Noted
<1>11. Listed(left) = Listed(leg[l]) \cup F
  BY <1>2, <1>7, <1>8 DEF Listed
<1>12. leg[l].kept.won => left.kept.won
  BY <1>7
<1> QED BY <1>2, <1>3, <1>9, <1>10, <1>11, <1>12, LegMeta

\* What a finished attempt adds to the meta of a vendor that has not answered.
LEMMA NoteFacts ==
  ASSUME NEW m \in Meta, ~m.won, NEW k \in Keys, NEW flips \in SUBSET Keys
  PROVE  /\ NoteAttempt(m, k, TRUE, flips) =
              [count |-> m.count + 1, key |-> k, won |-> TRUE,
               flips |-> m.flips \cup flips]
         /\ NoteAttempt(m, k, FALSE, flips) =
              [count |-> m.count + 1, key |-> k, won |-> FALSE,
               flips |-> m.flips \cup flips]
<1> DEFINE yes == [count |-> m.count + 1, key |-> k, won |-> TRUE,
                   flips |-> m.flips \cup flips]
           no  == [count |-> m.count + 1, key |-> k, won |-> FALSE,
                   flips |-> m.flips \cup flips]
<1>1. m = [count |-> m.count, key |-> m.key, won |-> FALSE, flips |-> m.flips]
  BY DEF Meta
<1>2. NoteAttempt(m, k, TRUE, flips) = yes
  <2> DEFINE key  == IF TRUE \/ ~m.won THEN k ELSE m.key
             both == m.won \/ TRUE
  <2>1. NoteAttempt(m, k, TRUE, flips) =
          [m EXCEPT !.count = m.count + 1, !.key = key, !.won = both,
                    !.flips = m.flips \cup flips]
    BY Zenon DEF NoteAttempt
  <2>2. key = k /\ both = TRUE
    OBVIOUS
  <2> HIDE DEF key, both
  <2> QED BY <1>1, <2>1, <2>2
<1>3. NoteAttempt(m, k, FALSE, flips) = no
  <2> DEFINE key  == IF FALSE \/ ~m.won THEN k ELSE m.key
             both == m.won \/ FALSE
  <2>1. NoteAttempt(m, k, FALSE, flips) =
          [m EXCEPT !.count = m.count + 1, !.key = key, !.won = both,
                    !.flips = m.flips \cup flips]
    BY Zenon DEF NoteAttempt
  <2>2. key = k /\ both = FALSE
    BY <1>1
  <2> HIDE DEF key, both
  <2> QED BY <1>1, <2>1, <2>2
<1> QED BY <1>2, <1>3

LEMMA NotGrantedMeta ==
  ASSUME TypeOK, MetaInv, NEW l \in Legs, NotGranted(l)
  PROVE  MetaInv'
<1>1. leg[l] \in Leg /\ "outage" \in Classes /\ leg[l].pc = "acquire"
  BY DEF TypeOK, Classes, NotGranted
<1>2. /\ leg' = [leg EXCEPT ![l] = Leave(l, leg[l], "outage")]
      /\ answer' = "none" /\ won' = won /\ calls' = calls /\ cause' = cause
  BY DEF NotGranted
<1>3. Tidy(leg[l], won)
  BY DEF MetaInv
<1>4. /\ leg[l].own.count = leg[l].own.count + 0 /\ calls' = calls + 0
      /\ 0 \in {0, 1}
  <2>1. leg[l].own.count \in Nat /\ calls \in Nat
    BY <1>1 DEF TypeOK, Leg, Meta
  <2> QED BY <1>2, <2>1
<1>5. /\ leg[l].own.flips = leg[l].own.flips \cup {} /\ {} \in SUBSET Keys
      /\ Changed' = Changed \cup {}
  BY <1>2 DEF Changed
<1>6. ~leg[l].own.won /\ Good(leg[l].own, won)
  BY <1>1, <1>3 DEF Tidy
<1>7. Running(l)
  BY <1>1 DEF Running
<1> QED BY <1>1, <1>2, <1>4, <1>5, <1>6, <1>7, LeaveMeta

LEMMA CallAnswersMeta ==
  ASSUME TypeOK, MetaInv, NEW l \in Legs, NEW items \in BOOLEAN,
         CallAnswers(l, items)
  PROVE  MetaInv'
<1> DEFINE k    == leg[l].key
           own  == NoteAttempt(leg[l].own, k, TRUE, {})
           kept == Absorb(leg[l].kept, own)
           r    == [leg[l] EXCEPT !.pc = "ok", !.items = items, !.key = NoKey,
                                  !.kept = kept, !.own = EmptyMeta]
<1>1. leg \in [Legs -> Leg] /\ leg[l] \in Leg /\ leg[l].own \in Meta
      /\ leg[l].kept \in Meta
  BY DEF TypeOK, Leg
<1>2. k \in Keys
  BY DEF TypeOK, CallAnswers
<1>3. own \in Meta /\ EmptyMeta \in Meta
  BY <1>1, <1>2, MetaTypes
<1>4. kept \in Meta
  <2> HIDE DEF own, k
  <2> QED BY <1>1, <1>3, AbsorbTypes
<1>5. r \in Leg /\ r.pc = "ok" /\ r.kept = kept /\ r.own = EmptyMeta
  <2> HIDE DEF own, k, kept
  <2> QED BY <1>1, <1>3, <1>4 DEF Leg, Stages
<1>6. leg' = [leg EXCEPT ![l] = r]
  <2>1. leg' = [leg EXCEPT ![l].pc = "ok", ![l].items = items, ![l].key = NoKey,
                           ![l].kept = kept, ![l].own = EmptyMeta]
    BY DEF CallAnswers
  <2> HIDE DEF own, k, kept
  <2> QED BY <2>1, <1>1
<1>7. calls' = calls + 1 /\ won' = won \cup {k} /\ cause' = cause /\ answer' = "none"
  BY DEF CallAnswers
<1>8. Tidy(leg[l], won)
  BY DEF MetaInv
<1>9. /\ own.count = leg[l].own.count + 1 /\ own.key = k /\ own.won = TRUE
      /\ own.flips = leg[l].own.flips
  <2>1. ~leg[l].own.won /\ {} \in SUBSET Keys
    BY <1>8 DEF Tidy
  <2> HIDE DEF k
  <2>2. /\ own.count = leg[l].own.count + 1 /\ own.key = k /\ own.won = TRUE
        /\ own.flips = leg[l].own.flips \cup {}
    <3>1. own = [count |-> leg[l].own.count + 1, key |-> k, won |-> TRUE,
                 flips |-> leg[l].own.flips \cup {}]
      BY <1>1, <1>2, <2>1, NoteFacts
    <3> HIDE DEF own
    <3> QED BY <3>1
  <2> QED BY <2>2
<1> HIDE DEF own, k
<1>10. won' \in SUBSET Keys /\ Good(leg[l].kept, won') /\ Good(own, won')
  <2>1. won' \in SUBSET Keys /\ won \subseteq won' /\ k \in won'
    BY <1>2, <1>7 DEF TypeOK
  <2>2. Good(leg[l].kept, won')
    BY <1>8, <2>1 DEF Tidy, Good
  <2>3. leg[l].own.count \in Nat /\ k # NoKey
    BY <1>1, <1>2, RunAssumption DEF Meta
  <2>4. own.count # 0
    BY <1>9, <2>3
  <2>5. Good(own, won')
    BY <1>9, <2>1, <2>3, <2>4 DEF Good
  <2> QED BY <2>1, <2>2, <2>5
<1>11. /\ Good(kept, won')
       /\ kept.count = leg[l].kept.count + own.count
       /\ kept.flips = leg[l].kept.flips \cup own.flips
       /\ kept.won = (leg[l].kept.won \/ own.won)
  BY <1>1, <1>3, <1>10, AbsorbGood
<1> HIDE DEF kept, r
<1>12. /\ EmptyMeta.count = 0 /\ EmptyMeta.key = NoKey /\ ~EmptyMeta.won
       /\ EmptyMeta.flips = {}
  BY DEF EmptyMeta
<1>13. Tidy(r, won')
  BY <1>5, <1>11, <1>12 DEF Tidy, Good
<1>14. Noted(r) = Noted(leg[l]) + 1
  <2>1. leg[l].kept.count \in Nat /\ leg[l].own.count \in Nat
    BY <1>1 DEF Meta
  <2> QED BY <1>5, <1>9, <1>11, <1>12, <2>1 DEF Noted
<1>15. Listed(r) = Listed(leg[l]) \cup {} /\ Changed' = Changed \cup {}
       /\ {} \in SUBSET Keys
  BY <1>5, <1>7, <1>9, <1>11, <1>12 DEF Listed, Changed
<1>16. /\ won \subseteq won' /\ 1 \in {0, 1}
       /\ leg[l].kept.won => r.kept.won
       /\ won' # {} => won # {} \/ r.kept.won
  BY <1>5, <1>7, <1>9, <1>11
<1> QED BY <1>5, <1>6, <1>7, <1>13, <1>14, <1>15, <1>16, LegMeta

LEMMA CallFailsMeta ==
  ASSUME TypeOK, MetaInv, NEW l \in Legs, NEW f \in Faults, NEW says \in Meanings,
         NEW s \in States, CallFails(l, f, says, s)
  PROVE  MetaInv'
<1> DEFINE k     == leg[l].key
           flips == IF s # keyState[k] THEN {k} ELSE {}
           own   == NoteAttempt(leg[l].own, k, FALSE, flips)
           r     == [leg[l] EXCEPT !.own = own]
           again == [r EXCEPT !.pc = "acquire", !.key = NoKey, !.attempt = @ + 1]
<1>1. leg \in [Legs -> Leg] /\ leg[l] \in Leg /\ leg[l].own \in Meta
      /\ leg[l].kept \in Meta
  BY DEF TypeOK, Leg
<1>2. k \in Keys /\ Running(l)
  BY DEF TypeOK, CallFails, Running
<1>3. flips \in SUBSET Keys
  BY <1>2
<1>4. own \in Meta
  <2> HIDE DEF flips, k
  <2> QED BY <1>1, <1>2, <1>3, MetaTypes
<1>5. r \in Leg /\ r.hop = leg[l].hop /\ r.kept = leg[l].kept /\ r.own = own
      /\ r.attempt = leg[l].attempt
  <2> HIDE DEF own, k, flips
  <2> QED BY <1>1, <1>4 DEF Leg
<1>6. /\ calls' = calls + 1
      /\ cause' = IF s # keyState[k] THEN [cause EXCEPT ![k] = says] ELSE cause
      /\ won' = won /\ answer' = "none"
      /\ \/ Again(l, f) /\ leg' = [leg EXCEPT ![l] = again]
         \/ leg' = [leg EXCEPT ![l] = Leave(l, r, Class(f))]
  BY Zenon DEF CallFails
<1>7. Class(f) \in Classes
  BY DEF Class, Classes
<1>8. Tidy(leg[l], won)
  BY DEF MetaInv
<1>9. Changed' = Changed \cup flips
  <2>1. says # "none"
    BY DEF Meanings
  <2>2. cause \in [Keys -> Meanings \cup {"none"}]
    BY DEF TypeOK
  <2> HIDE DEF k
  <2>3. CASE s # keyState[k]
    <3>1. cause' = [cause EXCEPT ![k] = says] /\ flips = {k}
      BY <1>6, <2>3
    <3>2. \A j \in Keys : cause'[j] # "none" <=> cause[j] # "none" \/ j = k
      BY <1>2, <2>1, <2>2, <3>1
    <3> QED BY <1>2, <3>1, <3>2 DEF Changed
  <2>4. CASE s = keyState[k]
    BY <1>6, <2>4 DEF Changed
  <2> QED BY <2>3, <2>4
<1> HIDE DEF flips
<1>10. /\ own.count = leg[l].own.count + 1 /\ own.key = k /\ own.won = FALSE
       /\ own.flips = leg[l].own.flips \cup flips
  <2>1. ~leg[l].own.won
    BY <1>8 DEF Tidy
  <2> HIDE DEF k
  <2>2. own = [count |-> leg[l].own.count + 1, key |-> k, won |-> FALSE,
               flips |-> leg[l].own.flips \cup flips]
    BY <1>1, <1>2, <1>3, <2>1, NoteFacts
  <2> HIDE DEF own
  <2> QED BY <2>2
<1> HIDE DEF own, k
<1>11. ~own.won /\ Good(own, won)
  <2>1. leg[l].own.count \in Nat /\ k # NoKey
    BY <1>1, <1>2, RunAssumption DEF Meta
  <2> QED BY <1>10, <2>1 DEF Good
<1>12. CASE Again(l, f) /\ leg' = [leg EXCEPT ![l] = again]
  <2>1. leg[l].attempt + 1 \in 1..MaxAttempts
    <3>1. Budget \in 1..MaxAttempts
      BY RunAssumption DEF Budget
    <3>2. PICK n \in 1..MaxAttempts : n = Budget
      BY <3>1
    <3>3. PICK a \in 1..MaxAttempts : a = leg[l].attempt
      BY <1>1 DEF Leg
    <3>4. a < n
      BY <1>12, <3>2, <3>3 DEF Again
    <3>5. MaxAttempts \in Nat
      BY RunAssumption
    <3>6. a + 1 \in 1..MaxAttempts
      BY <3>4, <3>5
    <3> QED BY <3>3, <3>6
  <2>2. again \in Leg /\ again.pc = "acquire" /\ again.kept = leg[l].kept
        /\ again.own = own
    <3> HIDE DEF r
    <3>1. again = [r EXCEPT !.pc = "acquire", !.key = NoKey,
                            !.attempt = leg[l].attempt + 1]
      BY <1>5 DEF Leg
    <3>2. "acquire" \in Stages
      BY DEF Stages
    <3> HIDE DEF again
    <3>3. PICK n \in 1..MaxAttempts : n = leg[l].attempt + 1
      BY <2>1
    <3> QED BY <1>5, <3>1, <3>2, <3>3 DEF Leg
  <2> HIDE DEF again, r
  <2>3. Tidy(again, won')
    BY <1>6, <1>8, <1>11, <2>2 DEF Tidy
  <2>4. Noted(again) = Noted(leg[l]) + 1
    <3>1. leg[l].kept.count \in Nat /\ leg[l].own.count \in Nat
      BY <1>1 DEF Meta
    <3> QED BY <1>10, <2>2, <3>1 DEF Noted
  <2>5. Listed(again) = Listed(leg[l]) \cup flips
    BY <1>10, <2>2 DEF Listed
  <2>6. /\ won \subseteq won' /\ 1 \in {0, 1}
        /\ leg[l].kept.won => again.kept.won
        /\ won' # {} => won # {}
    BY <1>6, <2>2
  <2> QED BY <1>3, <1>6, <1>9, <1>12, <2>2, <2>3, <2>4, <2>5, <2>6, LegMeta
<1>13. CASE leg' = [leg EXCEPT ![l] = Leave(l, r, Class(f))]
  <2> HIDE DEF r
  <2>1. 1 \in {0, 1} /\ r.own.count = leg[l].own.count + 1
        /\ r.own.flips = leg[l].own.flips \cup flips
        /\ ~r.own.won /\ Good(r.own, won)
    BY <1>5, <1>10, <1>11
  <2> QED BY <1>2, <1>3, <1>5, <1>6, <1>7, <1>9, <1>13, <2>1, LeaveMeta
<1> QED BY <1>6, <1>12, <1>13

\* Once no leg runs, all the calls and transitions are in what the legs kept.
LEMMA AnswerMeta ==
  ASSUME TypeOK, MetaInv, Answer
  PROVE  MetaIsExact'
<1> DEFINE a == leg[1].kept
           b == leg[2].kept
           c == leg[3].kept
           ab  == Absorb(a, b)
           abc == Absorb(ab, c)
<1>1. Legs = {1, 2, 3}
  BY DEF Legs
<1>2. \A l \in Legs : Tidy(leg[l], won) /\ leg[l].own = EmptyMeta
  BY DEF MetaInv, Answer, Running, Tidy
<1>3. /\ a \in Meta /\ b \in Meta /\ c \in Meta /\ won \in SUBSET Keys
      /\ calls \in Nat
  BY <1>1 DEF TypeOK, Leg
<1>4. Good(a, won) /\ Good(b, won) /\ Good(c, won)
  BY <1>1, <1>2 DEF Tidy
<1>5. EmptyMeta.count = 0 /\ EmptyMeta.flips = {}
  BY DEF EmptyMeta
<1>6. /\ a.count \in Nat /\ b.count \in Nat /\ c.count \in Nat
      /\ a.won \in BOOLEAN /\ b.won \in BOOLEAN /\ c.won \in BOOLEAN
  BY <1>3 DEF Meta
<1>7. calls = a.count + b.count + c.count
  <2>1. /\ Noted(leg[1]) = a.count /\ Noted(leg[2]) = b.count
        /\ Noted(leg[3]) = c.count
    BY <1>1, <1>2, <1>5, <1>6 DEF Noted
  <2> HIDE DEF a, b, c
  <2> QED BY <2>1 DEF MetaInv
<1>8. Changed = a.flips \cup b.flips \cup c.flips
  <2>1. /\ Listed(leg[1]) = a.flips /\ Listed(leg[2]) = b.flips
        /\ Listed(leg[3]) = c.flips
    BY <1>1, <1>2, <1>5 DEF Listed
  <2> HIDE DEF a, b, c
  <2> QED BY <2>1 DEF MetaInv
<1>9. won # {} => a.won \/ b.won \/ c.won
  BY <1>1 DEF MetaInv
<1>10. meta' = abc /\ won' = won /\ calls' = calls /\ Changed' = Changed
  BY DEF Answer, history, Changed
<1> HIDE DEF a, b, c
<1>11. /\ ab \in Meta /\ Good(ab, won)
       /\ ab.count = a.count + b.count /\ ab.flips = a.flips \cup b.flips
       /\ ab.won = (a.won \/ b.won)
  BY <1>3, <1>4, AbsorbGood, AbsorbTypes
<1> HIDE DEF ab
<1>12. /\ Good(abc, won)
       /\ abc.count = ab.count + c.count /\ abc.flips = ab.flips \cup c.flips
       /\ abc.won = (ab.won \/ c.won)
  BY <1>3, <1>4, <1>11, AbsorbGood
<1> HIDE DEF abc
<1>13. abc.count = calls /\ abc.flips = Changed
  BY <1>6, <1>7, <1>8, <1>11, <1>12
<1>14. won # {} => abc.won
  BY <1>9, <1>11, <1>12
<1>15. (abc.key = NoKey <=> calls = 0) /\ (won # {} => abc.key \in won)
  BY <1>12, <1>13, <1>14 DEF Good
<1> QED BY <1>10, <1>13, <1>15 DEF MetaIsExact, Changed

\* No leg moves, and no call ends.
LEMMA IdleMeta ==
  ASSUME MetaInv, leg' = leg, calls' = calls, won' = won, cause' = cause,
         MetaIsExact'
  PROVE  MetaInv'
BY DEF MetaInv, Tidy, Good, Changed, Noted, Listed

\* The meta of an answered request has every call, every transition its reports
\* made and a key that answered, whatever legs ran beside each other and however
\* often their metas were folded (meta.rs, chain.rs and execute.rs).
THEOREM SearchMeta == Spec => []MetaIsExact
<1>1. Init => MetaInv
  <2> SUFFICES ASSUME Init PROVE MetaInv
    OBVIOUS
  <2>1. /\ EmptyMeta.count = 0 /\ EmptyMeta.key = NoKey /\ EmptyMeta.won = FALSE
        /\ EmptyMeta.flips = {}
    BY DEF EmptyMeta
  <2>2. ASSUME NEW l \in Legs
        PROVE  leg[l].own = EmptyMeta /\ leg[l].kept = EmptyMeta
    BY DEF Init, FirstLeg
  <2>3. \A l \in Legs : Tidy(leg[l], won)
    BY <2>1, <2>2 DEF Tidy, Good
  <2>4. \A l \in Legs : Noted(leg[l]) = 0 /\ Listed(leg[l]) = {}
    BY <2>1, <2>2 DEF Noted, Listed
  <2>5. 1 \in Legs /\ 2 \in Legs /\ 3 \in Legs
    BY DEF Legs
  <2>6. Changed = {}
    BY DEF Changed, Init
  <2>7. won = {} /\ calls = 0 /\ answer = "none"
    BY DEF Init
  <2> QED BY <2>3, <2>4, <2>5, <2>6, <2>7 DEF MetaInv, MetaIsExact
<1>2. TypeOK /\ MetaInv /\ [Next]_vars => MetaInv'
  <2> SUFFICES ASSUME TypeOK, MetaInv, [Next]_vars PROVE MetaInv'
    OBVIOUS
  <2>1. ASSUME NEW l \in Legs, NEW k \in Keys, Granted(l, k) PROVE MetaInv'
    BY <2>1, GrantedMeta
  <2>2. ASSUME NEW l \in Legs, NotGranted(l) PROVE MetaInv'
    BY <2>2, NotGrantedMeta
  <2>3. ASSUME NEW l \in Legs, NEW items \in BOOLEAN, CallAnswers(l, items)
        PROVE  MetaInv'
    BY <2>3, CallAnswersMeta
  <2>4. ASSUME NEW l \in Legs, leg[l].pc = "calling",
               NEW o \in Outcomes[Vendor(l)], NEW s \in States,
               CallFails(l, o.fault, o.says, s)
        PROVE  MetaInv'
    <3>1. Vendor(l) \in Vendors
      BY <2>4, VendorTypes
    <3>2. o.fault \in Faults /\ o.says \in Meanings
      BY <3>1, OutcomeTypes
    <3> QED BY <2>4, <3>2, CallFailsMeta
  <2>5. CASE Answer
    BY <2>5, AnswerMeta, IdleMeta DEF Answer, history
  <2>6. CASE Deadline
    <3>1. MetaIsExact'
      BY <2>6 DEF Deadline, MetaIsExact
    <3> QED BY <2>6, <3>1, IdleMeta DEF Deadline, history
  <2>7. CASE UNCHANGED vars
    <3>1. leg' = leg /\ calls' = calls /\ won' = won /\ cause' = cause
          /\ answer' = answer /\ meta' = meta
      BY <2>7 DEF vars, code, history
    <3>2. MetaIsExact'
      BY <3>1 DEF MetaInv, MetaIsExact
    <3> QED BY <3>1, <3>2, IdleMeta
  <2> QED BY <2>1, <2>2, <2>3, <2>4, <2>5, <2>6, <2>7 DEF Next, Step
<1>3. MetaInv => MetaIsExact
  BY DEF MetaInv
<1> QED BY <1>1, <1>2, <1>3, SearchTypes, PTL DEF Spec

-----------------------------------------------------------------------------
(* Accounts.                                                                *)
(*                                                                          *)
(* What a text is, word by word: a lead (the aside and the word before the  *)
(* clause), the clause, and a last word.  In the clause only the nearest    *)
(* subject can reach the one state there is, and only what stands between   *)
(* the two, or right before, can keep it from doing so.                     *)

LEMMA Concat ==
  ASSUME NEW s \in Seq(Words), NEW u \in Seq(Words)
  PROVE  /\ s \o u \in Seq(Words)
         /\ Len(s \o u) = Len(s) + Len(u)
         /\ \A i \in 1..Len(s) : (s \o u)[i] = s[i]
         /\ \A i \in 1..Len(u) : (s \o u)[Len(s) + i] = u[i]
OBVIOUS

Lead(c) ==
  (IF c.aside THEN <<"word", "subject", "filler", "word">> ELSE <<>>)
    \o (CASE c.mood = "supposes" -> <<"word">>
          [] c.mood = "denies_ahead" -> <<"denial", "filler">>
          [] OTHER -> <<"filler">>)

Clause(c) ==
  IF c.order = "forward" THEN Thing(c) \o Between(c) \o <<"state">>
  ELSE <<"state">> \o Between(c) \o Thing(c)

LEMMA TextParts == \A c : Text(c) = Lead(c) \o Clause(c) \o <<"word">>
BY DEF Text, Lead, Clause

\* The lead has no state in it, a word behind its subject, and a denial before
\* its last filler only.
LeadShape(P, ahead) ==
  /\ P \in Seq(Words) /\ Len(P) \in 1..6
  /\ \A i \in 1..Len(P) : P[i] # "state"
  /\ \A i \in 1..Len(P) : P[i] = "subject" => i + 2 <= Len(P) /\ P[i + 2] = "word"
  /\ \A i \in 1..Len(P) : P[i] = "denial" => ahead /\ i = Len(P) - 1
  /\ ahead => Len(P) >= 2 /\ P[Len(P) - 1] = "denial" /\ P[Len(P)] = "filler"

LEMMA ShortLead ==
  ASSUME NEW P \in Seq(Words)
  PROVE  /\ Len(P) = 1 /\ P[1] \in {"word", "filler"} => LeadShape(P, FALSE)
         /\ Len(P) = 2 /\ P[1] = "denial" /\ P[2] = "filler" => LeadShape(P, TRUE)
<1>1. ASSUME Len(P) = 1, P[1] \in {"word", "filler"}
      PROVE  LeadShape(P, FALSE)
  BY <1>1 DEF LeadShape
<1>2. ASSUME Len(P) = 2, P[1] = "denial", P[2] = "filler"
      PROVE  LeadShape(P, TRUE)
  <2>1. \A i \in 1..2 : i = 1 \/ i = 2
    OBVIOUS
  <2> QED BY <1>2, <2>1 DEF LeadShape
<1> QED BY <1>1, <1>2

LEMMA LongLead ==
  ASSUME NEW P \in Seq(Words),
         P[1] = "word", P[2] = "subject", P[3] = "filler", P[4] = "word"
  PROVE  /\ Len(P) = 5 /\ P[5] \in {"word", "filler"} => LeadShape(P, FALSE)
         /\ Len(P) = 6 /\ P[5] = "denial" /\ P[6] = "filler" => LeadShape(P, TRUE)
<1>1. ASSUME Len(P) = 5, P[5] \in {"word", "filler"}
      PROVE  LeadShape(P, FALSE)
  <2>1. \A i \in 1..5 : i = 1 \/ i = 2 \/ i = 3 \/ i = 4 \/ i = 5
    OBVIOUS
  <2>2. \A i \in 1..5 : P[i] # "state" /\ P[i] # "denial" /\ (P[i] = "subject" => i = 2)
    BY <1>1, <2>1
  <2> QED BY <1>1, <2>2 DEF LeadShape
<1>2. ASSUME Len(P) = 6, P[5] = "denial", P[6] = "filler"
      PROVE  LeadShape(P, TRUE)
  <2>1. \A i \in 1..6 : i = 1 \/ i = 2 \/ i = 3 \/ i = 4 \/ i = 5 \/ i = 6
    OBVIOUS
  <2>2. \A i \in 1..6 : /\ P[i] # "state" /\ (P[i] = "subject" => i = 2)
                       /\ P[i] = "denial" => i = 5
    BY <1>2, <2>1
  <2> QED BY <1>2, <2>2 DEF LeadShape
<1> QED BY <1>1, <1>2

LEMMA LeadIs ==
  ASSUME NEW c, c.aside \in BOOLEAN
  PROVE  LeadShape(Lead(c), c.mood = "denies_ahead")
<1> DEFINE A == IF c.aside THEN <<"word", "subject", "filler", "word">> ELSE <<>>
           B == CASE c.mood = "supposes" -> <<"word">>
                  [] c.mood = "denies_ahead" -> <<"denial", "filler">>
                  [] OTHER -> <<"filler">>
           n == Len(A)
<1>1. /\ A \in Seq(Words) /\ n \in {0, 4}
      /\ n = 4 => A[1] = "word" /\ A[2] = "subject" /\ A[3] = "filler" /\ A[4] = "word"
  <2>1. CASE c.aside
    <3>1. A = <<"word", "subject", "filler", "word">>
      BY <2>1
    <3> HIDE DEF A
    <3> QED BY <3>1 DEF Words
  <2>2. CASE ~c.aside
    <3>1. A = <<>>
      BY <2>2
    <3> HIDE DEF A
    <3> QED BY <3>1
  <2> QED BY <2>1, <2>2
<1>2. /\ B \in Seq(Words)
      /\ c.mood # "denies_ahead" => Len(B) = 1 /\ B[1] \in {"word", "filler"}
      /\ c.mood = "denies_ahead" => Len(B) = 2 /\ B[1] = "denial" /\ B[2] = "filler"
  <2>1. CASE c.mood = "supposes"
    <3>1. B = <<"word">>
      BY <2>1
    <3> HIDE DEF B
    <3> QED BY <2>1, <3>1 DEF Words
  <2>2. CASE c.mood = "denies_ahead"
    <3>1. B = <<"denial", "filler">>
      BY <2>2
    <3> HIDE DEF B
    <3> QED BY <2>2, <3>1 DEF Words
  <2>3. CASE c.mood \notin {"supposes", "denies_ahead"}
    <3>1. B = <<"filler">>
      BY <2>3
    <3> HIDE DEF B
    <3> QED BY <2>3, <3>1 DEF Words
  <2> QED BY <2>1, <2>2, <2>3
<1>3. Lead(c) = A \o B
  BY DEF Lead
<1> HIDE DEF A, B
<1> DEFINE P == A \o B
<1>4. /\ P \in Seq(Words) /\ Len(P) = n + Len(B)
      /\ \A i \in 1..n : P[i] = A[i]
      /\ \A i \in 1..Len(B) : P[n + i] = B[i]
  BY <1>1, <1>2, Concat
<1>p. Lead(c) = P
  BY <1>3
<1> HIDE DEF P, n
<1>5. n = 4 => P[1] = "word" /\ P[2] = "subject" /\ P[3] = "filler" /\ P[4] = "word"
  BY <1>1, <1>4
<1>6. CASE c.mood # "denies_ahead"
  <2>1. Len(P) = n + 1 /\ P[n + 1] \in {"word", "filler"}
    BY <1>1, <1>2, <1>4, <1>6
  <2>2. LeadShape(P, FALSE)
    <3>1. P \in Seq(Words)
      BY <1>4
    <3>2. CASE n = 0
      <4>1. Len(P) = 1 /\ P[1] \in {"word", "filler"}
        BY <2>1, <3>2
      <4> QED BY <3>1, <4>1, ShortLead, Zenon
    <3>3. CASE n = 4
      <4>1. Len(P) = 5 /\ P[5] \in {"word", "filler"}
        BY <2>1, <3>3
      <4> QED BY <1>5, <3>1, <3>3, <4>1, LongLead, Zenon
    <3> QED BY <1>1, <3>2, <3>3
  <2>3. (c.mood = "denies_ahead") = FALSE
    BY <1>6
  <2> QED BY <1>p, <2>2, <2>3
<1>7. CASE c.mood = "denies_ahead"
  <2>1. Len(P) = n + 2 /\ P[n + 1] = "denial" /\ P[n + 2] = "filler"
    <3>1. Len(B) = 2 /\ B[1] = "denial" /\ B[2] = "filler"
      BY <1>2, <1>7
    <3>2. 1 \in 1..Len(B) /\ 2 \in 1..Len(B)
      BY <3>1
    <3>3. P[n + 1] = B[1] /\ P[n + 2] = B[2]
      BY <1>4, <3>2
    <3> QED BY <1>4, <3>1, <3>3
  <2>2. LeadShape(P, TRUE)
    <3>1. P \in Seq(Words)
      BY <1>4
    <3>2. CASE n = 0
      <4>1. Len(P) = 2 /\ P[1] = "denial" /\ P[2] = "filler"
        BY <2>1, <3>2
      <4> QED BY <3>1, <4>1, ShortLead, Zenon
    <3>3. CASE n = 4
      <4>1. Len(P) = 6 /\ P[5] = "denial" /\ P[6] = "filler"
        BY <2>1, <3>3
      <4> QED BY <1>5, <3>1, <3>3, <4>1, LongLead, Zenon
    <3> QED BY <1>1, <3>2, <3>3
  <2>3. (c.mood = "denies_ahead") = TRUE
    BY <1>7
  <2> QED BY <1>p, <2>2, <2>3
<1> QED BY <1>6, <1>7

LEMMA ThingIs ==
  ASSUME NEW c, c.thing \in {"account", "other"}, c.long \in BOOLEAN
  PROVE  /\ Thing(c) \in Seq(Words)
         /\ \A i \in 1..Len(Thing(c)) : Thing(c)[i] \notin {"state", "denial"}
         /\ c.thing = "other" => Len(Thing(c)) = 1 /\ Thing(c)[1] = "word"
         /\ c.thing = "account" /\ ~c.long => Len(Thing(c)) = 1 /\ Thing(c)[1] = "subject"
         /\ c.thing = "account" /\ c.long =>
              /\ Len(Thing(c)) = 6 /\ Thing(c)[1] = "subject" /\ Thing(c)[6] = "subject"
              /\ \A i \in 2..5 : Thing(c)[i] = "filler"
<1>1. CASE c.thing = "other"
  <2>1. Thing(c) = <<"word">>
    BY <1>1 DEF Thing
  <2> QED BY <1>1, <2>1 DEF Words
<1>2. CASE c.thing = "account" /\ ~c.long
  <2>1. Thing(c) = <<"subject">>
    BY <1>2 DEF Thing
  <2> QED BY <1>2, <2>1 DEF Words
<1>3. CASE c.thing = "account" /\ c.long
  <2>1. Thing(c) = <<"subject">> \o Fillers(3) \o <<"filler", "subject">>
    BY <1>3 DEF Thing
  <2>2. Fillers(3) = <<"filler", "filler", "filler">>
    BY DEF Fillers
  <2> DEFINE a == <<"subject">>
             b == Fillers(3)
             d == <<"filler", "subject">>
  <2>3. /\ a \in Seq(Words) /\ b \in Seq(Words) /\ d \in Seq(Words)
        /\ Len(a) = 1 /\ Len(b) = 3 /\ Len(d) = 2
        /\ a[1] = "subject" /\ d[1] = "filler" /\ d[2] = "subject"
        /\ b[1] = "filler" /\ b[2] = "filler" /\ b[3] = "filler"
    <3>1. a \in Seq(Words) /\ Len(a) = 1 /\ a[1] = "subject"
      BY DEF Words
    <3>2. d \in Seq(Words) /\ Len(d) = 2 /\ d[1] = "filler" /\ d[2] = "subject"
      BY DEF Words
    <3>3. b = <<"filler", "filler", "filler">>
      BY <2>2
    <3> HIDE DEF a, b, d
    <3>4. b \in Seq(Words) /\ Len(b) = 3 /\ b[1] = "filler" /\ b[2] = "filler" /\ b[3] = "filler"
      BY <3>3 DEF Words
    <3> QED BY <3>1, <3>2, <3>4
  <2> HIDE DEF a, b, d
  <2> DEFINE ab == a \o b
  <2>4. /\ ab \in Seq(Words) /\ Len(ab) = 4
        /\ ab[1] = "subject" /\ ab[2] = "filler" /\ ab[3] = "filler" /\ ab[4] = "filler"
    <3>1. /\ ab \in Seq(Words) /\ Len(ab) = Len(a) + Len(b)
          /\ \A i \in 1..Len(a) : ab[i] = a[i]
          /\ \A i \in 1..Len(b) : ab[Len(a) + i] = b[i]
      BY <2>3, Concat
    <3> HIDE DEF ab
    <3>2. \A i \in 1..3 : ab[1 + i] = b[i]
      BY <2>3, <3>1
    <3>3. ab[1] = a[1] /\ ab[2] = b[1] /\ ab[3] = b[2] /\ ab[4] = b[3]
      BY <2>3, <3>1, <3>2
    <3> QED BY <2>3, <3>1, <3>3
  <2> HIDE DEF ab
  <2>5. /\ ab \o d \in Seq(Words) /\ Len(ab \o d) = 6
        /\ \A i \in 1..4 : (ab \o d)[i] = ab[i]
        /\ \A i \in 1..2 : (ab \o d)[4 + i] = d[i]
    <3>1. /\ ab \o d \in Seq(Words) /\ Len(ab \o d) = Len(ab) + Len(d)
          /\ \A i \in 1..Len(ab) : (ab \o d)[i] = ab[i]
          /\ \A i \in 1..Len(d) : (ab \o d)[Len(ab) + i] = d[i]
      BY <2>3, <2>4, Concat
    <3> QED BY <2>3, <2>4, <3>1
  <2>6. /\ (ab \o d)[1] = "subject" /\ (ab \o d)[2] = "filler" /\ (ab \o d)[3] = "filler"
        /\ (ab \o d)[4] = "filler" /\ (ab \o d)[5] = "filler" /\ (ab \o d)[6] = "subject"
    BY <2>3, <2>4, <2>5
  <2>7. Thing(c) = ab \o d
    BY <2>1 DEF a, b, d, ab
  <2> QED BY <1>3, <2>5, <2>6, <2>7
<1> QED BY <1>1, <1>2, <1>3

\* Between the two stand fillers, and a denial if it is there.
Distance(c) == IF c.mood = "denies_between" THEN c.gap + 2 ELSE c.gap

LEMMA BetweenIs ==
  ASSUME NEW c, c.gap \in Nat
  PROVE  /\ Between(c) \in Seq(Words) /\ Len(Between(c)) = Distance(c)
         /\ \A i \in 1..Distance(c) : Between(c)[i] \in {"filler", "denial"}
         /\ c.mood # "denies_between" => \A i \in 1..c.gap : Between(c)[i] = "filler"
         /\ c.mood = "denies_between" => Between(c)[2] = "denial"
<1> DEFINE f == Fillers(c.gap)
<1>1. /\ f \in Seq(Words) /\ Len(f) = c.gap
      /\ \A i \in 1..c.gap : f[i] = "filler"
  BY DEF Fillers, Words
<1> HIDE DEF f
<1>2. CASE c.mood # "denies_between"
  <2>1. Between(c) = f
    BY <1>2 DEF Between, f
  <2> QED BY <1>1, <1>2, <2>1 DEF Distance
<1>3. CASE c.mood = "denies_between"
  <2> DEFINE d == <<"filler", "denial">>
  <2>1. Between(c) = d \o f
    BY <1>3 DEF Between, f
  <2>2. d \in Seq(Words) /\ Len(d) = 2 /\ d[1] = "filler" /\ d[2] = "denial"
    BY DEF Words
  <2> HIDE DEF d
  <2>3. /\ d \o f \in Seq(Words) /\ Len(d \o f) = 2 + c.gap
        /\ \A i \in 1..2 : (d \o f)[i] = d[i]
        /\ \A i \in 1..c.gap : (d \o f)[2 + i] = f[i]
    <3>1. /\ d \o f \in Seq(Words) /\ Len(d \o f) = Len(d) + Len(f)
          /\ \A i \in 1..Len(d) : (d \o f)[i] = d[i]
          /\ \A i \in 1..Len(f) : (d \o f)[Len(d) + i] = f[i]
      BY <1>1, <2>2, Concat
    <3> QED BY <1>1, <2>2, <3>1
  <2>4. \A i \in 1..(c.gap + 2) : i \in 1..2 \/ (i - 2 \in 1..c.gap /\ i = 2 + (i - 2))
    OBVIOUS
  <2>5. \A i \in 1..(c.gap + 2) : (d \o f)[i] \in {"filler", "denial"}
    BY <1>1, <2>2, <2>3, <2>4
  <2> QED BY <1>3, <2>1, <2>2, <2>3, <2>5 DEF Distance
<1> QED BY <1>2, <1>3

\* R is X, Y and Z, one behind the other.
Joined(R, X, Y, Z) ==
  /\ R \in Seq(Words) /\ Len(R) = Len(X) + Len(Y) + Len(Z)
  /\ \A i \in 1..Len(R) :
       /\ i <= Len(X) => R[i] = X[i]
       /\ i > Len(X) /\ i <= Len(X) + Len(Y) => R[i] = Y[i - Len(X)]
       /\ i > Len(X) + Len(Y) => R[i] = Z[i - Len(X) - Len(Y)]

LEMMA ThreeParts ==
  ASSUME NEW X \in Seq(Words), NEW Y \in Seq(Words), NEW Z \in Seq(Words)
  PROVE  Joined(X \o Y \o Z, X, Y, Z)
<1> DEFINE XY == X \o Y
           R  == XY \o Z
<1>1. /\ XY \in Seq(Words) /\ Len(XY) = Len(X) + Len(Y)
      /\ \A i \in 1..Len(X) : XY[i] = X[i]
      /\ \A i \in 1..Len(Y) : XY[Len(X) + i] = Y[i]
  BY Concat
<1> HIDE DEF XY
<1>2. /\ R \in Seq(Words) /\ Len(R) = Len(XY) + Len(Z)
      /\ \A i \in 1..Len(XY) : R[i] = XY[i]
      /\ \A i \in 1..Len(Z) : R[Len(XY) + i] = Z[i]
  BY <1>1, Concat
<1> HIDE DEF R
<1>3. Len(X) \in Nat /\ Len(Y) \in Nat /\ Len(Z) \in Nat
  OBVIOUS
<1>4. ASSUME NEW i \in 1..Len(R)
      PROVE  /\ i <= Len(X) => R[i] = X[i]
             /\ i > Len(X) /\ i <= Len(X) + Len(Y) => R[i] = Y[i - Len(X)]
             /\ i > Len(X) + Len(Y) => R[i] = Z[i - Len(X) - Len(Y)]
  <2>1. CASE i <= Len(X)
    BY <1>1, <1>2, <1>3, <2>1
  <2>2. CASE i > Len(X) /\ i <= Len(X) + Len(Y)
    <3>1. i - Len(X) \in 1..Len(Y) /\ i = Len(X) + (i - Len(X)) /\ i \in 1..Len(XY)
      BY <1>1, <1>3, <2>2
    <3>2. R[i] = XY[i] /\ XY[i] = Y[i - Len(X)]
      BY <1>1, <1>2, <3>1
    <3> QED BY <1>3, <2>2, <3>2
  <2>3. CASE i > Len(X) + Len(Y)
    <3>1. i - Len(XY) \in 1..Len(Z) /\ i = Len(XY) + (i - Len(XY))
      BY <1>1, <1>2, <1>3, <2>3
    <3>2. R[i] = Z[i - Len(XY)]
      BY <1>2, <3>1
    <3>3. i - Len(XY) = i - Len(X) - Len(Y)
      BY <1>1, <1>3
    <3> QED BY <1>3, <2>3, <3>2, <3>3
  <2> QED BY <1>3, <2>1, <2>2, <2>3
<1>5. Len(R) = Len(X) + Len(Y) + Len(Z)
  BY <1>1, <1>2
<1>6. Joined(R, X, Y, Z)
  BY <1>2, <1>4, <1>5 DEF Joined
<1> QED BY <1>6 DEF R, XY

\* The clause: z is the place of the subject next to the state at s.
Inside(i, z, s) == (z < i /\ i < s) \/ (s < i /\ i < z)

ClauseShape(Q, c, z, s) ==
  /\ Q \in Seq(Words) /\ z \in 1..Len(Q) /\ s \in 1..Len(Q)
  /\ Q[1] # "filler"
  /\ \A i \in 1..Len(Q) : Q[i] = "state" <=> i = s
  /\ z = 1 <=> c.order = "forward" /\ ~(c.thing = "account" /\ c.long)
  /\ c.thing = "other" => \A i \in 1..Len(Q) : Q[i] # "subject"
  /\ c.thing = "account" =>
       /\ Q[z] = "subject"
       /\ \A i \in 1..Len(Q) : Q[i] = "subject" => i = z \/ Inside(z, i, s)
  /\ c.order = "forward" => s = z + Distance(c) + 1
  /\ c.order # "forward" => z = s + Distance(c) + 1
  /\ c.mood # "denies_between" =>
       /\ \A i \in 1..Len(Q) : Inside(i, z, s) => Q[i] = "filler"
       /\ \A i \in 1..Len(Q) : Q[i] # "denial"
  /\ c.mood = "denies_between" => Q[(IF c.order = "forward" THEN z ELSE s) + 2] = "denial"

Clear(c) ==
  /\ c.thing \in {"account", "other"} /\ c.long \in BOOLEAN /\ c.order \in {"forward", "back"}
  /\ c.mood \in {"states", "supposes", "denies_ahead", "denies_between"}
  /\ c.gap \in Nat /\ c.live \in BOOLEAN /\ c.aside \in BOOLEAN
  /\ c.live => c.thing = "account" /\ c.order = "forward" /\ c.gap = 2

LEMMA ClausesClear == \A c \in Clauses(Nat) : Clear(c)
BY DEF Clauses, Clear

LEMMA DistanceType == \A c : Clear(c) => Distance(c) \in Nat /\ (c.mood = "denies_between" => Distance(c) >= 2)
BY DEF Clear, Distance

\* The state alone.
LEMMA StateWord == <<"state">> \in Seq(Words) /\ Len(<<"state">>) = 1 /\ <<"state">>[1] = "state"
BY DEF Words

LEMMA ForwardShape ==
  ASSUME NEW c, Clear(c), c.order = "forward"
  PROVE  LET z == Len(Thing(c)) IN ClauseShape(Clause(c), c, z, z + Distance(c) + 1)
<1> DEFINE T == Thing(c)
           M == Between(c)
           S == <<"state">>
           Q == T \o M \o S
           h == Len(T)
           m == Distance(c)
           s == h + m + 1
<1>1. Clause(c) = Q
  BY DEF Clause
<1>2. /\ T \in Seq(Words) /\ h \in {1, 6}
      /\ \A i \in 1..h : T[i] \notin {"state", "denial"}
      /\ c.thing = "other" => h = 1 /\ T[1] = "word"
      /\ c.thing = "account" /\ ~c.long => h = 1 /\ T[1] = "subject"
      /\ c.thing = "account" /\ c.long =>
           /\ h = 6 /\ T[1] = "subject" /\ T[6] = "subject"
           /\ \A i \in 2..5 : T[i] = "filler"
  BY ThingIs DEF Clear
<1>3. /\ M \in Seq(Words) /\ Len(M) = m
      /\ \A i \in 1..m : M[i] \in {"filler", "denial"}
      /\ c.mood # "denies_between" => m = c.gap /\ \A i \in 1..m : M[i] = "filler"
      /\ c.mood = "denies_between" => M[2] = "denial"
  BY BetweenIs DEF Clear, Distance
<1>4. m \in Nat /\ (c.mood = "denies_between" => m >= 2)
  BY DistanceType
<1>5. S \in Seq(Words) /\ Len(S) = 1 /\ S[1] = "state"
  BY StateWord
<1> HIDE DEF T, M, S, m
<1>6. /\ Q \in Seq(Words) /\ Len(Q) = h + Len(M) + Len(S)
      /\ \A i \in 1..Len(Q) :
           /\ i <= h => Q[i] = T[i]
           /\ i > h /\ i <= h + Len(M) => Q[i] = M[i - h]
           /\ i > h + Len(M) => Q[i] = S[i - h - Len(M)]
  <2>1. Joined(Q, T, M, S)
    BY <1>2, <1>3, <1>5, ThreeParts
  <2> HIDE DEF Q
  <2> QED BY <2>1 DEF Joined
<1> HIDE DEF Q, h
<1>7. Len(Q) = s /\ h \in Nat /\ s \in Nat /\ 1 <= h /\ h < s
  BY <1>2, <1>3, <1>4, <1>5, <1>6
<1>8. ASSUME NEW i \in 1..s
      PROVE  /\ i <= h => i \in 1..h /\ Q[i] = T[i]
             /\ i > h /\ i < s => i - h \in 1..m /\ Q[i] = M[i - h]
  BY <1>3, <1>4, <1>6, <1>7
<1>9. Q[s] = "state"
  <2>1. Q[s] = S[s - h - m]
    BY <1>3, <1>4, <1>6, <1>7
  <2>2. s - h - m = 1
    BY <1>4, <1>7
  <2> QED BY <1>5, <2>1, <2>2
<1>10. \A i \in 1..s : Q[i] = "state" <=> i = s
  <2> SUFFICES ASSUME NEW i \in 1..s PROVE Q[i] = "state" <=> i = s
    OBVIOUS
  <2>1. CASE i <= h
    BY <1>2, <1>7, <1>8, <2>1
  <2>2. CASE i > h /\ i < s
    <3>1. Q[i] \in {"filler", "denial"}
      BY <1>3, <1>8, <2>2
    <3> QED BY <1>7, <2>2, <3>1
  <2>3. CASE i = s
    BY <1>9, <2>3
  <2> QED BY <1>7, <2>1, <2>2, <2>3
<1>11. Q[1] = T[1] /\ Q[h] = T[h]
  BY <1>7, <1>8
<1>12. Q[1] # "filler"
  BY <1>2, <1>11 DEF Clear
<1>13. h = 1 <=> ~(c.thing = "account" /\ c.long)
  BY <1>2 DEF Clear
<1>14. ASSUME NEW i \in 1..s, Q[i] = "subject"
       PROVE  c.thing = "account" /\ (i = h \/ (i < h /\ h < s))
  <2>1. i <= h
    <3>1. CASE i > h /\ i < s
      BY <1>3, <1>8, <1>14, <3>1
    <3>2. CASE i = s
      BY <1>9, <1>14, <3>2
    <3> QED BY <1>7, <3>1, <3>2
  <2>2. T[i] = "subject" /\ i \in 1..h
    BY <1>8, <1>14, <2>1
  <2>3. c.thing = "account"
    BY <1>2, <2>2 DEF Clear
  <2> QED BY <1>7, <2>1, <2>3
<1>15. c.thing = "account" => Q[h] = "subject"
  BY <1>2, <1>11 DEF Clear
<1>16. c.mood # "denies_between" => \A i \in 1..s : (h < i /\ i < s => Q[i] = "filler") /\ Q[i] # "denial"
  <2> SUFFICES ASSUME c.mood # "denies_between", NEW i \in 1..s
               PROVE  (h < i /\ i < s => Q[i] = "filler") /\ Q[i] # "denial"
    OBVIOUS
  <2>1. CASE i <= h
    BY <1>2, <1>7, <1>8, <2>1
  <2>2. CASE i > h /\ i < s
    BY <1>3, <1>8, <2>2
  <2>3. CASE i = s
    BY <1>7, <1>9, <2>3
  <2> QED BY <1>7, <2>1, <2>2, <2>3
<1>17. c.mood = "denies_between" => Q[h + 2] = "denial"
  <2> SUFFICES ASSUME c.mood = "denies_between" PROVE Q[h + 2] = "denial"
    OBVIOUS
  <2>1. h + 2 \in 1..s /\ h + 2 > h /\ h + 2 < s /\ (h + 2) - h = 2
    BY <1>4, <1>7
  <2> QED BY <1>3, <1>8, <2>1
<1>18. ClauseShape(Q, c, h, s)
  <2>1. h \in 1..Len(Q) /\ s \in 1..Len(Q) /\ s = h + m + 1
    BY <1>7
  <2>2. \A i \in 1..Len(Q) : Q[i] = "subject" => c.thing = "account" /\ (i = h \/ Inside(h, i, s))
    BY <1>7, <1>14 DEF Inside
  <2>3. \A i \in 1..Len(Q) : Inside(i, h, s) => h < i /\ i < s
    BY <1>7 DEF Inside
  <2>4. c.thing = "other" => c.thing # "account"
    OBVIOUS
  <2> HIDE DEF s
  <2> QED BY <1>6, <1>7, <1>10, <1>12, <1>13, <1>15, <1>16, <1>17, <2>1, <2>2, <2>3, <2>4
          DEF ClauseShape, m
<1> QED BY <1>1, <1>18 DEF h, T, m

LEMMA BackShape ==
  ASSUME NEW c, Clear(c), c.order = "back"
  PROVE  ClauseShape(Clause(c), c, Distance(c) + 2, 1)
<1> DEFINE T == Thing(c)
           M == Between(c)
           S == <<"state">>
           Q == S \o M \o T
           h == Len(T)
           m == Distance(c)
           z == m + 2
<1>1. Clause(c) = Q
  BY DEF Clause
<1>2. /\ T \in Seq(Words) /\ h \in {1, 6}
      /\ \A i \in 1..h : T[i] \notin {"state", "denial"}
      /\ c.thing = "other" => h = 1 /\ T[1] = "word"
      /\ c.thing = "account" => T[1] = "subject"
  BY ThingIs DEF Clear
<1>3. /\ M \in Seq(Words) /\ Len(M) = m
      /\ \A i \in 1..m : M[i] \in {"filler", "denial"}
      /\ c.mood # "denies_between" => m = c.gap /\ \A i \in 1..m : M[i] = "filler"
      /\ c.mood = "denies_between" => M[2] = "denial"
  BY BetweenIs DEF Clear, Distance
<1>4. m \in Nat /\ (c.mood = "denies_between" => m >= 2)
  BY DistanceType
<1>5. S \in Seq(Words) /\ Len(S) = 1 /\ S[1] = "state"
  BY StateWord
<1> HIDE DEF T, M, S, m
<1>6. /\ Q \in Seq(Words) /\ Len(Q) = Len(S) + Len(M) + h
      /\ \A i \in 1..Len(Q) :
           /\ i <= Len(S) => Q[i] = S[i]
           /\ i > Len(S) /\ i <= Len(S) + Len(M) => Q[i] = M[i - Len(S)]
           /\ i > Len(S) + Len(M) => Q[i] = T[i - Len(S) - Len(M)]
  <2>1. Joined(Q, S, M, T)
    BY <1>2, <1>3, <1>5, ThreeParts
  <2> HIDE DEF Q
  <2> QED BY <2>1 DEF Joined
<1> HIDE DEF Q, h
<1>7. Len(Q) = z + h - 1 /\ h \in Nat /\ z \in Nat /\ 1 <= h /\ 1 < z /\ z <= Len(Q)
  BY <1>2, <1>3, <1>4, <1>5, <1>6
<1>8. ASSUME NEW i \in 1..Len(Q)
      PROVE  /\ i > 1 /\ i < z => i - 1 \in 1..m /\ Q[i] = M[i - 1]
             /\ i >= z => i - m - 1 \in 1..h /\ Q[i] = T[i - m - 1]
  <2>1. CASE i > 1 /\ i < z
    BY <1>3, <1>4, <1>5, <1>6, <1>7, <2>1
  <2>2. CASE i >= z
    <3>1. i > Len(S) + Len(M) /\ i - Len(S) - Len(M) = i - m - 1
      BY <1>3, <1>4, <1>5, <1>7, <2>2
    <3>2. Q[i] = T[i - m - 1]
      BY <1>6, <3>1
    <3>3. i - m - 1 \in 1..h
      BY <1>4, <1>7, <2>2
    <3> QED BY <1>4, <1>7, <2>2, <3>2, <3>3
  <2> QED BY <1>7, <2>1, <2>2
<1>9. Q[1] = "state"
  BY <1>5, <1>6, <1>7
<1>10. \A i \in 1..Len(Q) : Q[i] = "state" <=> i = 1
  <2> SUFFICES ASSUME NEW i \in 1..Len(Q) PROVE Q[i] = "state" <=> i = 1
    OBVIOUS
  <2>1. CASE i >= z
    BY <1>2, <1>7, <1>8, <2>1
  <2>2. CASE i > 1 /\ i < z
    <3>1. Q[i] \in {"filler", "denial"}
      BY <1>3, <1>8, <2>2
    <3> QED BY <2>2, <3>1
  <2>3. CASE i = 1
    BY <1>9, <2>3
  <2> QED BY <1>7, <2>1, <2>2, <2>3
<1>11. Q[z] = T[1]
  <2>1. z \in 1..Len(Q) /\ z - m - 1 = 1
    BY <1>4, <1>7
  <2> QED BY <1>7, <1>8, <2>1
<1>12. ASSUME NEW i \in 1..Len(Q), Q[i] = "subject"
       PROVE  c.thing = "account" /\ (i = z \/ z < i)
  <2>1. i >= z
    <3>1. CASE i > 1 /\ i < z
      BY <1>3, <1>8, <1>12, <3>1
    <3>2. CASE i = 1
      BY <1>9, <1>12, <3>2
    <3> QED BY <1>7, <3>1, <3>2
  <2>2. T[i - m - 1] = "subject" /\ i - m - 1 \in 1..h
    BY <1>8, <1>12, <2>1
  <2>3. c.thing = "account"
    BY <1>2, <2>2 DEF Clear
  <2> QED BY <1>7, <2>1, <2>3
<1>13. c.mood # "denies_between" => \A i \in 1..Len(Q) : (1 < i /\ i < z => Q[i] = "filler") /\ Q[i] # "denial"
  <2> SUFFICES ASSUME c.mood # "denies_between", NEW i \in 1..Len(Q)
               PROVE  (1 < i /\ i < z => Q[i] = "filler") /\ Q[i] # "denial"
    OBVIOUS
  <2>1. CASE i >= z
    BY <1>2, <1>7, <1>8, <2>1
  <2>2. CASE i > 1 /\ i < z
    BY <1>3, <1>8, <2>2
  <2>3. CASE i = 1
    BY <1>9, <2>3
  <2> QED BY <1>7, <2>1, <2>2, <2>3
<1>14. c.mood = "denies_between" => Q[3] = "denial"
  <2> SUFFICES ASSUME c.mood = "denies_between" PROVE Q[3] = "denial"
    OBVIOUS
  <2>1. 3 \in 1..Len(Q) /\ 3 > 1 /\ 3 < z
    BY <1>4, <1>7
  <2> QED BY <1>3, <1>8, <2>1
<1>15. ClauseShape(Q, c, z, 1)
  <2>1. z \in 1..Len(Q) /\ 1 \in 1..Len(Q) /\ z = 1 + m + 1 /\ z # 1
    BY <1>4, <1>7
  <2>2. \A i \in 1..Len(Q) : Q[i] = "subject" => c.thing = "account" /\ (i = z \/ Inside(z, i, 1))
    BY <1>7, <1>12 DEF Inside
  <2>3. \A i \in 1..Len(Q) : Inside(i, z, 1) => 1 < i /\ i < z
    BY <1>7 DEF Inside
  <2>4. c.thing = "account" => Q[z] = "subject"
    BY <1>2, <1>11
  <2>5. c.mood = "denies_between" => Q[1 + 2] = "denial"
    BY <1>14
  <2>6. (c.thing = "other" => c.thing # "account") /\ c.order # "forward" /\ Q[1] # "filler"
    BY <1>9
  <2> HIDE DEF z
  <2> QED BY <1>6, <1>10, <1>13, <2>1, <2>2, <2>3, <2>4, <2>5, <2>6 DEF ClauseShape, m
<1> QED BY <1>1, <1>15 DEF m

\* The whole text: z is the place of the subject that counts, s of the state, n
\* the length of the lead.
TextShape(t, c, n, z, s) ==
  /\ n \in Nat \ {0} /\ z \in (n + 1)..Len(t) /\ s \in (n + 1)..Len(t)
  /\ Len(t) \in Nat /\ DOMAIN t = 1..Len(t)
  /\ t[n + 1] # "filler"
  /\ \A i \in 1..Len(t) : t[i] = "state" <=> i = s
  /\ z = n + 1 <=> c.order = "forward" /\ ~(c.thing = "account" /\ c.long)
  /\ \A i \in 1..Len(t) :
       t[i] = "subject" => \/ i + 2 <= n /\ t[i + 2] = "word"
                           \/ c.thing = "account" /\ (i = z \/ Inside(z, i, s))
  /\ c.thing = "account" => t[z] = "subject"
  /\ c.order = "forward" => s = z + Distance(c) + 1
  /\ c.order # "forward" => z = s + Distance(c) + 1
  /\ c.mood # "denies_between" => \A i \in 1..Len(t) : Inside(i, z, s) => t[i] = "filler"
  /\ c.mood = "denies_between" => t[(IF c.order = "forward" THEN z ELSE s) + 2] = "denial"
  /\ c.mood \in {"states", "supposes"} => \A i \in 1..Len(t) : t[i] # "denial"
  /\ c.mood = "denies_ahead" =>
       /\ n >= 2 /\ t[n - 1] = "denial" /\ t[n] = "filler"
       /\ \A i \in 1..Len(t) : t[i] = "denial" => i = n - 1

LEMMA ClauseIs ==
  ASSUME NEW c, Clear(c)
  PROVE  \E z, s \in Nat : ClauseShape(Clause(c), c, z, s)
<1>1. CASE c.order = "forward"
  <2>1. ClauseShape(Clause(c), c, Len(Thing(c)), Len(Thing(c)) + Distance(c) + 1)
    BY <1>1, ForwardShape
  <2>2. Len(Thing(c)) \in Nat /\ Distance(c) \in Nat
    BY ThingIs, DistanceType DEF Clear
  <2>3. Len(Thing(c)) + Distance(c) + 1 \in Nat
    BY <2>2
  <2> QED BY <2>1, <2>2, <2>3
<1>2. CASE c.order = "back"
  <2>1. ClauseShape(Clause(c), c, Distance(c) + 2, 1)
    BY <1>2, BackShape
  <2>2. Distance(c) + 2 \in Nat
    BY DistanceType
  <2> QED BY <2>1, <2>2
<1> QED BY <1>1, <1>2 DEF Clear

LEMMA TextIs ==
  ASSUME NEW c, Clear(c)
  PROVE  \E n, z, s \in Nat : TextShape(Text(c), c, n, z, s)
<1> DEFINE P == Lead(c)
           Q == Clause(c)
           W == <<"word">>
           t == Text(c)
           n == Len(P)
           q == Len(Q)
<1>1. LeadShape(P, c.mood = "denies_ahead")
  BY LeadIs DEF Clear
<1>2. PICK z, s \in Nat : ClauseShape(Q, c, z, s)
  BY ClauseIs
<1>3. t = P \o Q \o W
  BY TextParts
<1> HIDE DEF P, Q, t
<1>4. P \in Seq(Words) /\ Q \in Seq(Words) /\ W \in Seq(Words) /\ Len(W) = 1 /\ W[1] = "word"
  BY <1>1, <1>2 DEF LeadShape, ClauseShape, Words
<1> HIDE DEF W
<1>5. Joined(t, P, Q, W)
  BY <1>3, <1>4, ThreeParts
<1>6. n \in 1..6 /\ q \in Nat /\ z \in 1..q /\ s \in 1..q
  BY <1>1, <1>2, <1>4 DEF LeadShape, ClauseShape
<1> HIDE DEF n, q
<1>7. t \in Seq(Words) /\ Len(t) = n + q + 1 /\ DOMAIN t = 1..Len(t)
  BY <1>4, <1>5 DEF Joined, n, q
<1>8. ASSUME NEW i \in 1..Len(t)
      PROVE  /\ i <= n => i \in 1..n /\ t[i] = P[i]
             /\ i > n /\ i <= n + q => i - n \in 1..q /\ t[i] = Q[i - n]
             /\ i > n + q => t[i] = "word"
  <2>1. /\ i <= n => t[i] = P[i]
        /\ i > n /\ i <= n + q => t[i] = Q[i - n]
        /\ i > n + q => t[i] = W[i - n - q]
    BY <1>5 DEF Joined, n, q
  <2>2. i > n + q => i - n - q = 1
    BY <1>6, <1>7
  <2> QED BY <1>4, <1>6, <1>7, <2>1, <2>2
<1>9. /\ \A i \in 1..n : P[i] # "state"
      /\ \A i \in 1..n : P[i] = "subject" => i + 2 <= n /\ P[i + 2] = "word"
      /\ \A i \in 1..n : P[i] = "denial" => c.mood = "denies_ahead" /\ i = n - 1
      /\ c.mood = "denies_ahead" => n >= 2 /\ P[n - 1] = "denial" /\ P[n] = "filler"
  BY <1>1 DEF LeadShape, n
<1>10. /\ Q[1] # "filler"
       /\ \A i \in 1..q : Q[i] = "state" <=> i = s
       /\ z = 1 <=> c.order = "forward" /\ ~(c.thing = "account" /\ c.long)
       /\ c.thing = "other" => \A i \in 1..q : Q[i] # "subject"
       /\ c.thing = "account" =>
            /\ Q[z] = "subject"
            /\ \A i \in 1..q : Q[i] = "subject" => i = z \/ Inside(z, i, s)
       /\ c.order = "forward" => s = z + Distance(c) + 1
       /\ c.order # "forward" => z = s + Distance(c) + 1
       /\ c.mood # "denies_between" =>
            /\ \A i \in 1..q : Inside(i, z, s) => Q[i] = "filler"
            /\ \A i \in 1..q : Q[i] # "denial"
       /\ c.mood = "denies_between" => Q[(IF c.order = "forward" THEN z ELSE s) + 2] = "denial"
  BY <1>2 DEF ClauseShape, q
<1>11. \A i \in 1..q : n + i \in 1..Len(t) /\ t[n + i] = Q[i]
  <2> SUFFICES ASSUME NEW i \in 1..q PROVE n + i \in 1..Len(t) /\ t[n + i] = Q[i]
    OBVIOUS
  <2>1. n + i \in 1..Len(t) /\ n + i > n /\ n + i <= n + q /\ (n + i) - n = i
    BY <1>6, <1>7
  <2> QED BY <1>8, <2>1
<1> DEFINE zz == n + z
           ss == n + s
<1>12. zz \in (n + 1)..Len(t) /\ ss \in (n + 1)..Len(t) /\ zz \in Nat /\ ss \in Nat
  BY <1>6, <1>7
<1>13. t[n + 1] # "filler"
  BY <1>6, <1>10, <1>11
<1>14. ASSUME NEW i \in 1..Len(t)
       PROVE  t[i] = "state" <=> i = ss
  <2>1. CASE i <= n
    BY <1>6, <1>8, <1>9, <2>1
  <2>2. CASE i > n /\ i <= n + q
    BY <1>6, <1>8, <1>10, <2>2
  <2>3. CASE i > n + q
    BY <1>6, <1>8, <2>3
  <2> QED BY <1>6, <1>7, <2>1, <2>2, <2>3
<1>15. ASSUME NEW i \in 1..Len(t), t[i] = "subject"
       PROVE  \/ i + 2 <= n /\ t[i + 2] = "word"
              \/ c.thing = "account" /\ (i = zz \/ Inside(zz, i, ss))
  <2>1. CASE i <= n
    <3>1. i + 2 <= n /\ P[i + 2] = "word"
      BY <1>8, <1>9, <1>15, <2>1
    <3>2. i + 2 \in 1..Len(t) /\ t[i + 2] = P[i + 2]
      BY <1>6, <1>7, <1>8, <3>1
    <3> QED BY <3>1, <3>2
  <2>2. CASE i > n /\ i <= n + q
    <3>1. i - n \in 1..q /\ Q[i - n] = "subject"
      BY <1>8, <1>15, <2>2
    <3>2. c.thing = "account"
      BY <1>10, <3>1 DEF Clear
    <3>3. i - n = z \/ Inside(z, i - n, s)
      BY <1>10, <3>1, <3>2
    <3>4. i = zz \/ Inside(zz, i, ss)
      BY <1>6, <3>1, <3>3 DEF Inside
    <3> QED BY <3>2, <3>4
  <2>3. CASE i > n + q
    BY <1>8, <1>15, <2>3
  <2> QED BY <1>6, <1>7, <2>1, <2>2, <2>3
<1>16. c.thing = "account" => t[zz] = "subject"
  BY <1>6, <1>10, <1>11
<1>17. ASSUME c.mood # "denies_between", NEW i \in 1..Len(t), Inside(i, zz, ss)
       PROVE  t[i] = "filler"
  <2>1. i > n /\ i <= n + q /\ Inside(i - n, z, s)
    BY <1>6, <1>7, <1>17 DEF Inside
  <2> QED BY <1>8, <1>10, <1>17, <2>1
<1>18. c.mood = "denies_between" => t[(IF c.order = "forward" THEN zz ELSE ss) + 2] = "denial"
  <2> SUFFICES ASSUME c.mood = "denies_between"
               PROVE  t[(IF c.order = "forward" THEN zz ELSE ss) + 2] = "denial"
    OBVIOUS
  <2>1. Distance(c) \in Nat /\ Distance(c) >= 2
    BY DistanceType
  <2>2. CASE c.order = "forward"
    <3>1. z + 2 \in 1..q /\ Q[z + 2] = "denial" /\ zz + 2 = n + (z + 2)
      BY <1>6, <1>10, <2>1, <2>2
    <3> QED BY <1>11, <2>2, <3>1
  <2>3. CASE c.order # "forward"
    <3>1. s + 2 \in 1..q /\ Q[s + 2] = "denial" /\ ss + 2 = n + (s + 2)
      BY <1>6, <1>10, <2>1, <2>3
    <3> QED BY <1>11, <2>3, <3>1
  <2> QED BY <2>2, <2>3
<1>19. ASSUME NEW i \in 1..Len(t), t[i] = "denial", c.mood # "denies_between"
       PROVE  c.mood = "denies_ahead" /\ i = n - 1
  <2>1. CASE i <= n
    BY <1>8, <1>9, <1>19, <2>1
  <2>2. CASE i > n /\ i <= n + q
    BY <1>8, <1>10, <1>19, <2>2
  <2>3. CASE i > n + q
    BY <1>8, <1>19, <2>3
  <2> QED BY <1>6, <1>7, <2>1, <2>2, <2>3
<1>20. c.mood = "denies_ahead" => n >= 2 /\ t[n - 1] = "denial" /\ t[n] = "filler"
  BY <1>6, <1>7, <1>8, <1>9
<1>21. /\ zz = n + 1 <=> z = 1
       /\ s = z + Distance(c) + 1 => ss = zz + Distance(c) + 1
       /\ z = s + Distance(c) + 1 => zz = ss + Distance(c) + 1
  BY <1>6, DistanceType
<1> HIDE DEF zz, ss
<1>22. TextShape(t, c, n, zz, ss)
  BY <1>6, <1>7, <1>10, <1>12, <1>13, <1>14, <1>15, <1>16, <1>17, <1>18, <1>19, <1>20, <1>21
  DEF TextShape
<1>23. n \in Nat
  BY <1>6
<1> QED BY <1>12, <1>22, <1>23 DEF t

\* The phrase is found exactly where the account is put into a state close by,
\* and no denial stands between the two or right before the two.
LEMMA PhraseIs ==
  ASSUME NEW c, Clear(c), NEW t, NEW n, NEW z, NEW s, TextShape(t, c, n, z, s)
  PROVE  HasAccountStatePhrase(t) <=>
           /\ c.thing = "account" /\ c.gap < StateGap
           /\ \/ c.mood \in {"states", "supposes"}
              \/ c.mood = "denies_ahead" /\ z # n + 1
<1>1. /\ n \in Nat \ {0} /\ z \in (n + 1)..Len(t) /\ s \in (n + 1)..Len(t)
      /\ Len(t) \in Nat /\ DOMAIN t = 1..Len(t) /\ c.gap \in Nat
  BY DEF TextShape, Clear
<1>2. ASSUME HasAccountStatePhrase(t)
      PROVE  /\ c.thing = "account" /\ c.gap < StateGap
             /\ \/ c.mood \in {"states", "supposes"}
                \/ c.mood = "denies_ahead" /\ z # n + 1
  <2>1. PICK i \in 1..Len(t), j \in 1..Len(t) :
          /\ t[i] = "subject" /\ ~IsNegated(t, i)
          /\ t[j] = "state"
          /\ j - i \in (-StateGap)..StateGap
          /\ FillersOnly(t, i + 1, j - 1) /\ FillersOnly(t, j + 1, i - 1)
    BY <1>1, <1>2, Zenon DEF HasAccountStatePhrase
  <2>2. j = s
    BY <2>1 DEF TextShape
  <2>3. \A k \in Nat : Inside(k, i, s) => t[k] = "filler"
    <3> SUFFICES ASSUME NEW k \in Nat, Inside(k, i, s) PROVE t[k] = "filler"
      OBVIOUS
    <3>1. k \in (i + 1)..(j - 1) \/ k \in (j + 1)..(i - 1)
      BY <1>1, <2>2 DEF Inside
    <3> QED BY <2>1, <3>1 DEF FillersOnly
  <2>4. ~(i + 2 <= n /\ t[i + 2] = "word")
    <3> SUFFICES ASSUME i + 2 <= n, t[i + 2] = "word" PROVE FALSE
      OBVIOUS
    <3>1. Inside(i + 2, i, s) /\ i + 2 \in Nat
      BY <1>1 DEF Inside
    <3> QED BY <2>3, <3>1
  <2>5. c.thing = "account" /\ (i = z \/ Inside(z, i, s))
    BY <2>1, <2>4 DEF TextShape
  <2>6. t[z] = "subject" /\ z \in Nat
    BY <1>1, <2>5 DEF TextShape
  <2>7. i = z
    BY <2>3, <2>5, <2>6
  <2>8. s = z + Distance(c) + 1 \/ z = s + Distance(c) + 1
    BY DEF TextShape
  <2>9. c.mood # "denies_between"
    <3> SUFFICES ASSUME c.mood = "denies_between" PROVE FALSE
      OBVIOUS
    <3>1. Distance(c) \in Nat /\ Distance(c) >= 2
      BY DistanceType
    <3>2. CASE c.order = "forward"
      <4>1. t[z + 2] = "denial" /\ s = z + Distance(c) + 1
        BY <3>2 DEF TextShape
      <4>2. Inside(z + 2, i, s) /\ z + 2 \in Nat
        BY <1>1, <2>7, <3>1, <4>1 DEF Inside
      <4> QED BY <2>3, <4>1, <4>2
    <3>3. CASE c.order # "forward"
      <4>1. t[s + 2] = "denial" /\ z = s + Distance(c) + 1
        BY <3>3 DEF TextShape
      <4>2. Inside(s + 2, i, s) /\ s + 2 \in Nat
        BY <1>1, <2>7, <3>1, <4>1 DEF Inside
      <4> QED BY <2>3, <4>1, <4>2
    <3> QED BY <3>2, <3>3
  <2>10. Distance(c) = c.gap
    BY <2>9 DEF Distance
  <2>11. c.gap < StateGap
    BY <1>1, <2>1, <2>2, <2>7, <2>8, <2>10 DEF StateGap
  <2>12. ASSUME c.mood = "denies_ahead"
         PROVE  z # n + 1
    <3> SUFFICES ASSUME z = n + 1 PROVE FALSE
      OBVIOUS
    <3>1. n >= 2 /\ t[n - 1] = "denial" /\ t[n] = "filler"
      BY <2>12 DEF TextShape
    <3>2. n - 1 \in 1..(z - 1) /\ \A k \in ((n - 1) + 1)..(z - 1) : k = n
      BY <1>1, <3>1
    <3>3. FillersOnly(t, (n - 1) + 1, z - 1)
      BY <3>1, <3>2 DEF FillersOnly
    <3>4. IsNegated(t, z)
      BY <3>1, <3>2, <3>3 DEF IsNegated
    <3> QED BY <2>1, <2>7, <3>4
  <2> QED BY <2>5, <2>9, <2>11, <2>12 DEF Clear
<1>3. ASSUME c.thing = "account", c.gap < StateGap,
             \/ c.mood \in {"states", "supposes"}
             \/ c.mood = "denies_ahead" /\ z # n + 1
      PROVE  HasAccountStatePhrase(t)
  <2>1. t[z] = "subject" /\ t[s] = "state" /\ z \in 1..Len(t) /\ s \in 1..Len(t)
    BY <1>1, <1>3 DEF TextShape
  <2>2. ~IsNegated(t, z)
    <3> SUFFICES ASSUME NEW b \in 1..(z - 1), t[b] = "denial", FillersOnly(t, b + 1, z - 1)
                 PROVE  FALSE
      BY DEF IsNegated
    <3>1. b \in 1..Len(t)
      BY <1>1
    <3>2. c.mood \notin {"states", "supposes"}
      BY <3>1 DEF TextShape
    <3>3. b = n - 1 /\ z # n + 1
      BY <1>3, <3>1, <3>2 DEF TextShape
    <3>4. n + 1 \in (b + 1)..(z - 1)
      BY <1>1, <3>3
    <3> QED BY <3>4 DEF FillersOnly, TextShape
  <2>3. \A i \in 1..Len(t) : Inside(i, z, s) => t[i] = "filler"
    BY <1>3 DEF TextShape
  <2>4. FillersOnly(t, z + 1, s - 1) /\ FillersOnly(t, s + 1, z - 1)
    <3>1. \A i \in (z + 1)..(s - 1) : i \in 1..Len(t) /\ Inside(i, z, s)
      BY <1>1 DEF Inside
    <3>2. \A i \in (s + 1)..(z - 1) : i \in 1..Len(t) /\ Inside(i, z, s)
      BY <1>1 DEF Inside
    <3> QED BY <2>3, <3>1, <3>2 DEF FillersOnly
  <2>5. s - z \in (-StateGap)..StateGap
    <3>1. Distance(c) = c.gap
      BY <1>3 DEF Distance
    <3>2. s = z + c.gap + 1 \/ z = s + c.gap + 1
      BY <3>1 DEF TextShape
    <3> QED BY <1>1, <1>3, <3>2 DEF StateGap
  <2> QED BY <1>1, <2>1, <2>2, <2>4, <2>5, Zenon DEF HasAccountStatePhrase
<1> QED BY <1>2, <1>3

\* Where the exact wording is found no denial stands between the subject and the
\* state, and the long one not right behind a denial.
LEMMA CopyIs ==
  ASSUME NEW c, Clear(c), NEW t, NEW n, NEW z, NEW s, TextShape(t, c, n, z, s),
         NEW v, c.live, Contains(t, LiveCopy(v))
  PROVE  /\ c.mood # "denies_between"
         /\ v # "firecrawl" /\ c.mood = "denies_ahead" => z # n + 1
<1>1. /\ n \in Nat \ {0} /\ z \in (n + 1)..Len(t) /\ s \in (n + 1)..Len(t)
      /\ Len(t) \in Nat /\ DOMAIN t = 1..Len(t) /\ c.gap = 2 /\ c.order = "forward"
  BY DEF TextShape, Clear
<1>2. s = z + Distance(c) + 1
  BY <1>1 DEF TextShape
<1> DEFINE copy == LiveCopy(v)
           m == Len(copy)
<1>3. /\ m \in {4, 10} /\ DOMAIN copy = 1..m
      /\ copy[m - 3] = "subject" /\ copy[m] = "state"
      /\ v # "firecrawl" => m = 10 /\ copy[5] = "filler"
  <2>1. CASE v = "firecrawl"
    <3>1. copy = <<"subject", "filler", "filler", "state">>
      BY <2>1 DEF LiveCopy
    <3> HIDE DEF copy
    <3> QED BY <2>1, <3>1
  <2>2. CASE v # "firecrawl"
    <3>1. copy = <<"filler", "subject", "filler", "filler", "filler", "filler",
                   "subject", "filler", "filler", "state">>
      BY <2>2 DEF LiveCopy
    <3> HIDE DEF copy
    <3> QED BY <2>2, <3>1
  <2> QED BY <2>1, <2>2
<1>4. PICK i \in 0..(Len(t) - m) : \A k \in DOMAIN copy : t[i + k] = copy[k]
  BY DEF Contains
<1> HIDE DEF copy, m
<1>5. t[i + m] = "state" /\ t[i + (m - 3)] = "subject"
  BY <1>3, <1>4
<1>6. i + m \in 1..Len(t)
  BY <1>1, <1>3
<1>7. s = i + m
  BY <1>5, <1>6 DEF TextShape
<1>8. t[s - 3] = "subject"
  <2>1. s - 3 = i + (m - 3)
    BY <1>3, <1>7
  <2> QED BY <1>5, <2>1
<1>9. c.mood # "denies_between"
  <2> SUFFICES ASSUME c.mood = "denies_between" PROVE FALSE
    OBVIOUS
  <2>1. Distance(c) = 4
    BY <1>1 DEF Distance
  <2>2. s - 3 = z + 2 /\ t[z + 2] = "denial"
    BY <1>1, <1>2, <2>1 DEF TextShape
  <2> QED BY <1>8, <2>2
<1>10. ASSUME v # "firecrawl", c.mood = "denies_ahead"
       PROVE  z # n + 1
  <2>1. t[i + 5] = "filler" /\ s = i + 10
    BY <1>3, <1>4, <1>7, <1>10
  <2>2. Distance(c) = 2
    BY <1>1, <1>10 DEF Distance
  <2>3. t[n - 1] = "denial"
    BY <1>10 DEF TextShape
  <2>4. z = n + 1 => i + 5 = n - 1
    BY <1>1, <1>2, <2>1, <2>2
  <2> QED BY <2>1, <2>3, <2>4
<1> QED BY <1>9, <1>10

\* What is taken for a ban is what closes the account, or is known to be misread.
Closes(v, c) ==
  /\ c.thing = "account" /\ InReach(v, c)
  /\ c.mood = "states" \/ Misread(v, c)

LEMMA BanIs ==
  ASSUME NEW v \in Vendors, NEW c, Clear(c), NEW status, StatusGate(status)
  PROVE  IsAccountBanned(v, status, c) <=> Closes(v, c)
<1> DEFINE t == Text(c)
<1>1. PICK n \in Nat, z \in Nat, s \in Nat : TextShape(t, c, n, z, s)
  BY TextIs
<1> HIDE DEF t
<1>2. HasAccountStatePhrase(t) <=>
        /\ c.thing = "account" /\ c.gap < StateGap
        /\ \/ c.mood \in {"states", "supposes"}
           \/ c.mood = "denies_ahead" /\ z # n + 1
  BY <1>1, PhraseIs
<1>3. z = n + 1 <=> c.order = "forward" /\ ~(c.thing = "account" /\ c.long)
  BY <1>1 DEF TextShape
<1>4. ASSUME HasLiveCopy(v, c)
      PROVE  /\ c.thing = "account" /\ c.gap < StateGap
             /\ c.mood # "denies_between"
             /\ v # "firecrawl" /\ c.mood = "denies_ahead" => z # n + 1
  <2>1. c.live /\ Contains(t, LiveCopy(v))
    BY <1>4 DEF HasLiveCopy, t
  <2>2. c.thing = "account" /\ c.gap = 2
    BY <2>1 DEF Clear
  <2>3. c.gap < StateGap
    BY <2>2 DEF StateGap
  <2>4. /\ c.mood # "denies_between"
        /\ v # "firecrawl" /\ c.mood = "denies_ahead" => z # n + 1
    BY <1>1, <2>1, CopyIs
  <2> QED BY <2>2, <2>3, <2>4
<1>5. /\ v \in {"tavily", "exa", "firecrawl", "xai"}
      /\ c.mood \in {"states", "supposes", "denies_ahead", "denies_between"}
      /\ c.order \in {"forward", "back"}
  BY DEF Vendors, Clear
<1>6. IsAccountBanned(v, status, c) <=>
        \/ v \in {"firecrawl", "tavily"} /\ HasLiveCopy(v, c)
        \/ v # "firecrawl" /\ HasAccountStatePhrase(t)
  BY DEF IsAccountBanned, t
<1>7. CASE v = "firecrawl"
  BY <1>4, <1>5, <1>6, <1>7, Zenon DEF Closes, InReach, Misread
<1>8. CASE v # "firecrawl"
  <2>1. Closes(v, c) <=>
          /\ c.thing = "account" /\ c.gap < StateGap
          /\ \/ c.mood \in {"states", "supposes"}
             \/ c.mood = "denies_ahead" /\ (z # n + 1 \/ HasLiveCopy(v, c))
    BY <1>3, <1>5, <1>8, Zenon DEF Closes, InReach, Misread
  <2>2. HasLiveCopy(v, c) /\ c.mood = "denies_ahead" => z # n + 1
    BY <1>4, <1>8
  <2>3. HasLiveCopy(v, c) => /\ c.thing = "account" /\ c.gap < StateGap
                             /\ c.mood \in {"states", "supposes", "denies_ahead"}
    BY <1>4, <1>5
  <2> QED BY <1>2, <1>6, <1>8, <2>1, <2>2, <2>3, Zenon
<1> QED BY <1>7, <1>8

\* A verdict that takes a key out, or writes its balance off, is what the reply
\* meant: for every text, and whatever the gap in it.
LEMMA VerdictMeans ==
  ASSUME NEW v \in Vendors, NEW r \in Replies
  PROVE  /\ VerdictFor(v, r) = "banned" => Meaning(v, r) = "closed"
         /\ VerdictFor(v, r) = "auth" => Meaning(v, r) = "unauthorized"
         /\ VerdictFor(v, r) \in {"paid", "exhausted"} => Meaning(v, r) = "spent"
<1>1. CASE r \in LocalReplies
  <2>1. r.kind \in {"unsupported", "http"}
    BY <1>1 DEF LocalReplies
  <2> QED BY <2>1 DEF VerdictFor
<1>2. CASE r \in UpstreamReplies(Nat, Clauses(Nat))
  <2> DEFINE st == r.status
             c  == r.text
  <2>1. r.kind = "upstream" /\ st \in Nat /\ Clear(c)
    BY <1>2, ClausesClear DEF UpstreamReplies
  <2>2. VerdictFor(v, r) = UpstreamVerdict(v, st, c)
    BY <2>1 DEF VerdictFor
  <2>3. Meaning(v, r) =
          IF st \in {402, 429, 432, 433} THEN "spent"
          ELSE IF st \notin {401, 403} THEN "nothing"
          ELSE IF Closes(v, c) THEN "closed"
          ELSE "unauthorized"
    BY <2>1 DEF Meaning, Closes
  <2> HIDE DEF st, c
  <2>4. CASE st \in {402, 429, 432, 433}
    <3>1. Meaning(v, r) = "spent"
      BY <2>3, <2>4
    <3>2. ~StatusGate(st) /\ st \notin {401, 403}
      BY <2>4 DEF StatusGate
    <3>3. UpstreamVerdict(v, st, c) \notin {"banned", "auth"}
      BY <3>2 DEF UpstreamVerdict, IsAccountBanned
    <3> QED BY <2>2, <3>1, <3>3
  <2>5. CASE st \in {401, 403}
    <3>1. IsAccountBanned(v, st, c) <=> Closes(v, c)
      BY <2>1, <2>5, BanIs DEF StatusGate
    <3>2. st # 402 /\ ~IsExhaustedStatus(v, st) /\ st \notin {402, 429, 432, 433}
      BY <2>5 DEF IsExhaustedStatus
    <3>3. UpstreamVerdict(v, st, c) = IF IsAccountBanned(v, st, c) THEN "banned" ELSE "auth"
      BY <2>5, <3>2 DEF UpstreamVerdict
    <3>4. Meaning(v, r) = IF Closes(v, c) THEN "closed" ELSE "unauthorized"
      BY <2>3, <2>5, <3>2
    <3> QED BY <2>2, <3>1, <3>3, <3>4
  <2>6. CASE st \notin {401, 402, 403, 429, 432, 433}
    <3>1. ~IsAccountBanned(v, st, c)
      BY <2>6 DEF IsAccountBanned, StatusGate
    <3>2. UpstreamVerdict(v, st, c) \in {"retryable", "failed"}
      BY <2>6, <3>1 DEF UpstreamVerdict, IsExhaustedStatus
    <3> QED BY <2>2, <3>2
  <2> QED BY <2>4, <2>5, <2>6
<1> QED BY <1>1, <1>2, RunAssumption

LEMMA CallFailsKeeps ==
  ASSUME TypeOK, AccountsKept, NEW l \in Legs, leg[l].pc = "calling",
         NEW o \in Outcomes[Vendor(l)], NEW s \in States, CallFails(l, o.fault, o.says, s)
  PROVE  AccountsKept'
<1> DEFINE k == leg[l].key
<1>1. Vendor(l) \in Vendors
  BY VendorTypes
<1>2. PICK r \in Replies : o = [fault |-> VerdictFor(Vendor(l), r), says |-> Meaning(Vendor(l), r)]
  BY <1>1 DEF Outcomes
<1>3. /\ o.fault = "banned" => o.says = "closed"
      /\ o.fault = "auth" => o.says = "unauthorized"
      /\ o.fault \in {"paid", "exhausted"} => o.says = "spent"
  BY <1>1, <1>2, VerdictMeans
<1>4. /\ k \in Keys /\ keyState \in [Keys -> States]
      /\ cause \in [Keys -> Meanings \cup {"none"}]
  BY DEF TypeOK
<1>5. /\ s \in Marks(o.fault, keyState[k])
      /\ keyState' = [keyState EXCEPT ![k] = s]
      /\ cause' = IF s # keyState[k] THEN [cause EXCEPT ![k] = o.says] ELSE cause
  BY Zenon DEF CallFails
<1>6. CASE s = keyState[k]
  <2>1. keyState' = keyState /\ cause' = cause
    BY <1>4, <1>5, <1>6
  <2> QED BY <2>1 DEF AccountsKept
<1>7. CASE s # keyState[k]
  <2>1. \/ o.fault \in {"paid", "exhausted"} /\ s = "zeroed"
        \/ o.fault = "auth" /\ s = "out"
        \/ o.fault = "banned" /\ s = "banned"
    BY <1>5, <1>7, Zenon DEF Marks
  <2>2. cause' = [cause EXCEPT ![k] = o.says]
    BY <1>5, <1>7
  <2> HIDE DEF k
  <2>3. ASSUME NEW j \in Keys
        PROVE  /\ keyState'[j] = "banned" => cause'[j] = "closed"
               /\ keyState'[j] = "out" => cause'[j] = "unauthorized"
               /\ keyState'[j] = "zeroed" => cause'[j] = "spent"
    <3>1. CASE j = k
      <4>1. keyState'[j] = s /\ cause'[j] = o.says
        BY <1>4, <1>5, <2>2, <3>1
      <4> QED BY <1>3, <2>1, <4>1
    <3>2. CASE j # k
      <4>1. keyState'[j] = keyState[j] /\ cause'[j] = cause[j]
        BY <1>4, <1>5, <2>2, <3>2
      <4> QED BY <4>1 DEF AccountsKept
    <3> QED BY <3>1, <3>2
  <2> QED BY <2>3 DEF AccountsKept
<1> QED BY <1>6, <1>7

\* A key is taken out for good only on a reply that closes its account, or that
\* the matcher is known to misread, and left to the cron only on one that does
\* not; a balance is written off only for credit or quota: for every text of the
\* clauses, any gap in it, any status and any keys (banned.rs, exhausted.rs).
THEOREM AccountsAreKept == Spec => []AccountsKept
<1>1. Init => AccountsKept
  BY DEF Init, AccountsKept
<1>2. TypeOK /\ AccountsKept /\ [Next]_vars => AccountsKept'
  <2> SUFFICES ASSUME TypeOK, AccountsKept, [Next]_vars PROVE AccountsKept'
    OBVIOUS
  <2>1. ASSUME NEW l \in Legs, leg[l].pc = "calling",
               NEW o \in Outcomes[Vendor(l)], NEW s \in States,
               CallFails(l, o.fault, o.says, s)
        PROVE  AccountsKept'
    BY <2>1, CallFailsKeeps
  <2>2. CASE UNCHANGED <<keyState, cause>>
    BY <2>2 DEF AccountsKept
  <2>3. \/ UNCHANGED <<keyState, cause>>
        \/ \E l \in Legs :
             /\ leg[l].pc = "calling"
             /\ \E o \in Outcomes[Vendor(l)], s \in States : CallFails(l, o.fault, o.says, s)
    BY DEF Next, Step, Granted, NotGranted, CallAnswers, Answer, Deadline, vars, code, history
  <2> QED BY <2>1, <2>2, <2>3
<1> QED BY <1>1, <1>2, SearchTypes, PTL DEF Spec
=============================================================================
