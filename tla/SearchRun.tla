------------------------------ MODULE SearchRun ------------------------------
(***************************************************************************)
(* One search request from routing to its answer: the legs of its plan,    *)
(* each walking a chain of vendors, up to MaxAttempts leases and calls per *)
(* vendor, and what is told of it all: the answer's error class, the       *)
(* execution meta that becomes the usage event, and the live snapshot that *)
(* stands in for the meta when the deadline drops the request.             *)
(*                                                                         *)
(* An attempt is two steps, the lease and the end of the call, because the *)
(* legs run concurrently and the deadline falls in between.  LeaseLadder   *)
(* has the steps inside them, KeyLeases says which key is granted: here any *)
(* key this request has not taken out may be, and none may be at any time, *)
(* which is also all that other requests can do to this one.  Of the error *)
(* classes the ones the code never tells apart when it combines legs (no   *)
(* key, key busy, no node, database, vendor fault) are one, "outage".      *)
(* Validation and the cache answer before the first leg and are not here.  *)
(***************************************************************************)
EXTENDS VendorReply, FiniteSets

CONSTANTS
  Keys,          \* the key rows of all vendors
  NoKey,         \* no key id
  VendorOf,      \* the service column of each row
  MaxAttempts,   \* MAX_ATTEMPTS of run_provider
  Replies,       \* the replies that are no answer, as VendorReply has them
  Plans          \* the plans a request may have, a subset of AllPlans

Vendors == {"tavily", "exa", "firecrawl", "xai"}

\* [kind, primary] as execution_plan returns it.
AllPlans ==
  [kind : {"single"}, primary : Vendors]
    \cup [kind : {"blend", "verify"}, primary : {"tavily", "firecrawl"}]
    \cup {[kind |-> "hybrid", primary |-> "tavily"],
          [kind |-> "deep", primary |-> "exa"]}

ASSUME RunAssumption ==
  /\ NoKey \notin Keys
  /\ VendorOf \in [Keys -> Vendors]
  /\ MaxAttempts \in Nat \ {0}
  /\ Plans \subseteq AllPlans
  /\ \A r \in Replies : r \in LocalReplies \/ r \in UpstreamReplies(Nat, Clauses(Nat))

VARIABLES
  plan,     \* the request's plan
  leg,      \* per leg: where it is, what it holds and what it has collected
  keyState, \* per key: "spend", "zeroed" (its balance is 0), "out" (disabled, and
            \* tried again by the cron) or "banned" (for good: deleted or suspended)
  sink,     \* MetaSink: the last snapshot published
  answer,   \* the class of the answer, "none" while there is none
  meta,     \* the meta the usage event is made of, once there is an answer
  fault,    \* history: how each vendor failed each leg
  calls,    \* history: calls that ended
  won,      \* history: keys that answered a call of this request
  cause     \* history: what the reply that changed a key's state meant

code    == <<plan, leg, keyState, sink, answer, meta>>
history == <<fault, calls, won, cause>>
vars    == <<code, history>>

-----------------------------------------------------------------------------
(* Plans.                                                                   *)

FallbackChain(v) ==
  CASE v = "firecrawl" -> <<"firecrawl", "exa", "tavily">>
    [] v = "exa"       -> <<"exa", "firecrawl", "tavily">>
    [] v = "xai"       -> <<"xai">>
    [] OTHER           -> <<"tavily", "exa", "firecrawl">>

Secondary(v) == IF v = "firecrawl" THEN "tavily" ELSE "firecrawl"

Legs == 1..3

\* The chain each leg of a plan walks; <<>> where the plan has no such leg.
Chains(p) ==
  CASE p.kind = "single" -> <<FallbackChain(p.primary), <<>>, <<>>>>
    [] p.kind = "deep"   -> <<<<"exa">>, <<>>, <<>>>>
    [] p.kind = "hybrid" -> <<FallbackChain("tavily"), <<"xai">>, <<>>>>
    [] p.kind = "blend"  -> <<<<p.primary>>, <<Secondary(p.primary)>>, <<>>>>
    [] p.kind = "verify" -> <<<<p.primary>>, <<Secondary(p.primary)>>, <<"exa">>>>

Chain(l) == Chains(plan)[l]

\* The deep leg is one atomic attempt.
Budget == IF plan.kind = "deep" THEN 1 ELSE MaxAttempts

-----------------------------------------------------------------------------
(* ExecMeta: completed attempts, the key it names, whether that one         *)
(* answered, and the keys whose transitions it lists.                       *)

Meta == [count : Nat, key : Keys \cup {NoKey}, won : BOOLEAN, flips : SUBSET Keys]

EmptyMeta == [count |-> 0, key |-> NoKey, won |-> FALSE, flips |-> {}]

NotePending(m, k) == [m EXCEPT !.key = IF m.won THEN @ ELSE k]

NoteAttempt(m, k, ok, flips) ==
  [m EXCEPT !.count = @ + 1,
            !.key = IF ok \/ ~m.won THEN k ELSE @,
            !.won = @ \/ ok,
            !.flips = @ \cup flips]

\* Mutant: any key replaces the one that answered.
AbsorbLastKey(m, o) ==
  [count |-> m.count + o.count,
   key   |-> IF o.key # NoKey THEN o.key ELSE m.key,
   won   |-> m.won \/ o.won,
   flips |-> m.flips \cup o.flips]

\* Fold one leg's meta into another: the last answer names the key, a failure
\* only where nothing has answered.
Absorb(m, o) ==
  [count |-> m.count + o.count,
   key   |-> IF o.won \/ (~m.won /\ o.key # NoKey) THEN o.key ELSE m.key,
   won   |-> m.won \/ o.won,
   flips |-> m.flips \cup o.flips]

-----------------------------------------------------------------------------
(* Calls and how they end.                                                  *)

\* The verdicts of a call that did not answer: "failed" is any fault but a
\* refusal that is not tried again.
Faults == {"refused", "failed", "exhausted", "paid", "auth", "banned", "retryable"}

Retried == {"auth", "banned", "retryable"}

\* The class the caller would be given for it (map_provider_error).
Class(f) ==
  CASE f = "refused" -> "refused"
    [] f = "paid"    -> "drained"
    [] OTHER         -> "outage"

Classes == {"refused", "drained", "outage"}

\* What the report of a fault may do to a key in state s.  It may change nothing:
\* its lease is gone, the key is below its threshold, or someone else was first.
Marks(f, s) ==
  {s} \cup (CASE f \in {"paid", "exhausted"} /\ s = "spend" -> {"zeroed"}
              [] f = "auth" -> {"out"}
              [] f = "banned" -> {"banned"}
              [] OTHER -> {})

States == {"spend", "zeroed", "out", "banned"}

Stages == {"absent", "acquire", "calling", "ok", "err"}

\* hop indexes the leg's chain; own is the meta of the vendor it is at, kept
\* the meta of the vendors it has left; errs the classes it has collected.
Leg == [pc : Stages, hop : 1..3, attempt : 1..MaxAttempts,
        key : Keys \cup {NoKey}, own : Meta, kept : Meta,
        errs : SUBSET Classes, items : BOOLEAN]

FirstLeg(chain) ==
  [pc |-> IF chain = <<>> THEN "absent" ELSE "acquire", hop |-> 1, attempt |-> 1,
   key |-> NoKey, own |-> EmptyMeta, kept |-> EmptyMeta, errs |-> {},
   items |-> FALSE]

Vendor(l) == Chain(l)[leg[l].hop]

Answers == {"served", "refused", "drained", "outage", "empty", "timeout"}

TypeOK ==
  /\ plan \in Plans
  /\ leg \in [Legs -> Leg]
  /\ \A l \in Legs :
       /\ leg[l].pc = "absent" <=> Chain(l) = <<>>
       /\ leg[l].pc # "absent" => leg[l].hop <= Len(Chain(l))
       /\ leg[l].pc = "calling" => /\ leg[l].key \in Keys
                                   /\ VendorOf[leg[l].key] = Vendor(l)
  /\ keyState \in [Keys -> States]
  /\ sink \in Meta
  /\ answer \in Answers \cup {"none"}
  /\ meta \in Meta
  /\ fault \in [Legs -> [Vendors -> Classes \cup {"none"}]]
  /\ calls \in Nat
  /\ won \subseteq Keys
  /\ cause \in [Keys -> Meanings \cup {"none"}]

Init ==
  /\ plan \in Plans
  /\ leg = [l \in Legs |-> FirstLeg(Chain(l))]
  /\ keyState = [k \in Keys |-> "spend"]
  /\ sink = EmptyMeta
  /\ answer = "none"
  /\ meta = EmptyMeta
  /\ fault = [l \in Legs |-> [v \in Vendors |-> "none"]]
  /\ calls = 0
  /\ won = {}
  /\ cause = [k \in Keys |-> "none"]

-----------------------------------------------------------------------------
(* A leg.                                                                   *)

\* Mutant: a drained vendor is one more outage, and the last error wins.
LeaveLastWins(l, r, class) ==
  LET last == r.hop = Len(Chain(l))
      left == [r EXCEPT !.kept = Absorb(r.kept, r.own), !.own = EmptyMeta,
                        !.errs = IF class = "refused" THEN @ \cup {class}
                                 ELSE (@ \ {"outage", "drained"}) \cup {class},
                        !.attempt = 1, !.key = NoKey]
  IN IF last THEN [left EXCEPT !.pc = "err"]
     ELSE [left EXCEPT !.pc = "acquire", !.hop = @ + 1]

\* Leg l, in state r, gives up on its vendor with an error of this class: its
\* meta is absorbed and the chain moves on, or ends.
Leave(l, r, class) ==
  LET last == r.hop = Len(Chain(l))
      left == [r EXCEPT !.kept = Absorb(r.kept, r.own), !.own = EmptyMeta,
                        !.errs = @ \cup {class}, !.attempt = 1, !.key = NoKey]
  IN IF last THEN [left EXCEPT !.pc = "err"]
     ELSE [left EXCEPT !.pc = "acquire", !.hop = @ + 1]

\* The pool grants a key and the attempt is published before the call.
Granted(l, k) ==
  /\ answer = "none"
  /\ leg[l].pc = "acquire"
  /\ VendorOf[k] = Vendor(l)
  /\ keyState[k] \in {"spend", "zeroed"}
  /\ sink' = NotePending(leg[l].own, k)
  /\ leg' = [leg EXCEPT ![l].pc = "calling", ![l].key = k, ![l].own = sink']
  /\ UNCHANGED <<plan, keyState, answer, meta, history>>

\* No key in rotation, all of them busy, no node, or a database error: the
\* ladder is not tried again.
NotGranted(l) ==
  /\ answer = "none"
  /\ leg[l].pc = "acquire"
  /\ leg' = [leg EXCEPT ![l] = Leave(l, leg[l], "outage")]
  /\ fault' = [fault EXCEPT ![l][Vendor(l)] = "outage"]
  /\ UNCHANGED <<plan, keyState, sink, answer, meta, calls, won, cause>>

\* The vendor answers, with items or without.
CallAnswers(l, items) ==
  LET k   == leg[l].key
      own == NoteAttempt(leg[l].own, k, TRUE, {})
  IN /\ answer = "none"
     /\ leg[l].pc = "calling"
     /\ sink' = own
     /\ leg' = [leg EXCEPT ![l].pc = "ok", ![l].items = items, ![l].key = NoKey,
                           ![l].kept = Absorb(leg[l].kept, own),
                           ![l].own = EmptyMeta]
     /\ calls' = calls + 1
     /\ won' = won \cup {k}
     /\ UNCHANGED <<plan, keyState, answer, meta, fault, cause>>

Again(l, f) == f \in Retried /\ leg[l].attempt < Budget

\* What vendor v's replies come to: the verdict, and what the vendor meant.
Outcomes ==
  [v \in Vendors |->
     {[fault |-> VerdictFor(v, r), says |-> Meaning(v, r)] : r \in Replies}]

\* The call fails as f, a reply that says says of the key's account, and its
\* report leaves the key in state s.  The same vendor is tried again after a
\* pause, or the leg leaves it.
CallFails(l, f, says, s) ==
  LET k     == leg[l].key
      flips == IF s # keyState[k] THEN {k} ELSE {}
      own   == NoteAttempt(leg[l].own, k, FALSE, flips)
      r     == [leg[l] EXCEPT !.own = own]
  IN /\ answer = "none"
     /\ leg[l].pc = "calling"
     /\ s \in Marks(f, keyState[k])
     /\ keyState' = [keyState EXCEPT ![k] = s]
     /\ sink' = own
     /\ calls' = calls + 1
     /\ cause' = IF s # keyState[k] THEN [cause EXCEPT ![k] = says] ELSE cause
     /\ \/ /\ Again(l, f)
           /\ leg' = [leg EXCEPT ![l] = [r EXCEPT !.pc = "acquire", !.key = NoKey,
                                                  !.attempt = @ + 1]]
           /\ UNCHANGED fault
        \/ /\ ~Again(l, f)
           /\ leg' = [leg EXCEPT ![l] = Leave(l, r, Class(f))]
           /\ fault' = [fault EXCEPT ![l][Vendor(l)] = Class(f)]
     /\ UNCHANGED <<plan, answer, meta, won>>

-----------------------------------------------------------------------------
(* The request.                                                             *)

\* Mutant: a leg the plan does not have is waited for.
RunningAbsent(l) == leg[l].pc \notin {"ok", "err"}

Running(l) == leg[l].pc \in {"acquire", "calling"}

\* What a leg that failed reports: a drained vendor outranks an outage, and an
\* outage a refusal.
ErrorOf(errs) ==
  CASE "drained" \in errs -> "drained"
    [] "drained" \notin errs /\ "outage" \in errs -> "outage"
    [] OTHER -> "refused"

Failed == {l \in Legs : leg[l].pc = "err"}

\* Mutant: one leg's refusal is the answer of all.
CombinedRefusalFirst ==
  LET es == {ErrorOf(leg[l].errs) : l \in Failed}
  IN IF es = {} THEN "empty"
     ELSE IF "refused" \in es THEN "refused" ELSE ErrorOf(es)

\* leg_aggregate_err over the legs that failed, when no leg brought items.
Combined ==
  IF Failed = {} THEN "empty" ELSE ErrorOf({ErrorOf(leg[l].errs) : l \in Failed})

\* A plan of one leg serves what the leg answered, items or not; a merged plan
\* needs items from one of its legs.
Served ==
  IF plan.kind \in {"single", "deep"} THEN leg[1].pc = "ok"
  ELSE \E l \in Legs : leg[l].pc = "ok" /\ leg[l].items

Answer ==
  /\ answer = "none"
  /\ \A l \in Legs : ~Running(l)
  /\ answer' = IF Served THEN "served" ELSE Combined
  /\ meta' = Absorb(Absorb(leg[1].kept, leg[2].kept), leg[3].kept)
  /\ UNCHANGED <<plan, leg, keyState, sink, history>>

\* The deadline, or a cancelled MCP call: the legs are dropped and the snapshot
\* is all that is known of them.
Deadline ==
  /\ answer = "none"
  /\ answer' = "timeout"
  /\ meta' = sink
  /\ UNCHANGED <<plan, leg, keyState, sink, history>>

Step(l) ==
  \/ \E k \in Keys : Granted(l, k)
  \/ NotGranted(l)
  \/ \E items \in BOOLEAN : CallAnswers(l, items)
  \/ /\ leg[l].pc = "calling"
     /\ \E o \in Outcomes[Vendor(l)], s \in States : CallFails(l, o.fault, o.says, s)

Next ==
  \/ \E l \in Legs : Step(l)
  \/ Answer
  \/ Deadline

Spec == Init /\ [][Next]_vars

\* An acquire waits at most its timeout and a call at most its client's, so a
\* leg that can step does; the deadline is given no fairness, so it is not what
\* ends a request here.
Fairness ==
  /\ \A l \in Legs : WF_vars(Step(l))
  /\ WF_vars(Answer)

FairSpec == Spec /\ Fairness

-----------------------------------------------------------------------------
(* Properties.                                                              *)

Asked(l) == {Chain(l)[i] : i \in DOMAIN Chain(l)}

\* A caller is told that its parameters are wrong (not to be retried) only
\* when every vendor of every leg that failed refused them itself: one outage
\* or one drained vendor anywhere makes it the vendors' fault.
RefusalIsUnanimous ==
  answer = "refused" =>
    /\ Failed # {}
    /\ \A l \in Failed : \A v \in Asked(l) : fault[l][v] = "refused"

\* A 402 is never hidden behind another vendor's failure: when the request
\* fails and a vendor of a failed leg was drained, the answer says so, however
\* the legs and the vendors of a chain failed before and after it.
DrainSurfaces ==
  answer \in {"refused", "drained", "outage", "empty"} =>
    (answer = "drained" <=>
       \E l \in Failed : \E v \in Asked(l) : fault[l][v] = "drained")

\* The class of a failed request follows the precedence drained, provider side,
\* refusal, whatever the order in which vendors and legs failed.
AnswerPrecedence == RefusalIsUnanimous /\ DrainSurfaces

\* The meta of a request that was answered counts every call once, lists every
\* key its reports took out or zeroed, and is billed to a key that answered if
\* any did, else to none that the request did not hold.
MetaIsExact ==
  answer \notin {"none", "timeout"} =>
    /\ meta.count = calls
    /\ meta.flips = {k \in Keys : cause[k] # "none"}
    /\ won # {} => meta.key \in won
    /\ (meta.key = NoKey) <=> (calls = 0)

\* A key is taken out for good only when its vendor's reply said that the account
\* is closed, or said it in a form the matcher is known to misread; one whose
\* vendor said so in reach of the matcher is not left to the cron, which would
\* bring it back to fail for ever; and a balance is written off only for a reply
\* about credit or quota.
AccountsKept ==
  \A k \in Keys :
    /\ keyState[k] = "banned" => cause[k] = "closed"
    /\ keyState[k] = "out" => cause[k] = "unauthorized"
    /\ keyState[k] = "zeroed" => cause[k] = "spent"

\* A request that runs is answered, however its vendors fail: the attempts of a
\* vendor and the vendors of a chain run out.
SearchEnds == <>(answer # "none")
=============================================================================
