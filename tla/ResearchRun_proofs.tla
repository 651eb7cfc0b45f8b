------------------------- MODULE ResearchRun_proofs -------------------------
(***************************************************************************)
(* Proofs about the extract surface, for any lengths of calls, leases and  *)
(* poll windows, any urls, lists and bounds: the extract request           *)
(* (ExtractRun) and the orchestrated research (ResearchRun).               *)
(***************************************************************************)
EXTENDS ResearchRun, Picks_proofs

-----------------------------------------------------------------------------
(* The extract request.                                                    *)
(*                                                                         *)
(* LeaseOutlivesJob: a lease that every refresh has reached in time is     *)
(* whole when a call starts, and one pause short of whole when a poll does.*)

Working == {"acquire", "call", "status", "put", "stored"}

\* Where a request is says what it may still expect.
PlaceOK ==
  /\ answer # "none" <=> pc = "done"
  /\ pc \in Working => mode # "refused"
  /\ pc = "status" => Polled
  /\ pc \in {"received", "dispatch"} => hop = 1 /\ errs = {}

LeaseOK ==
  /\ pc = "call" => lease = TTL
  /\ pc = "status" /\ ~missed /\ ~slow => lease + 1 >= TTL
  /\ LeaseOutlivesJob

\* One success is on the account of the key from the answer on, on the research
\* path from the moment it is served.
ChargeOK ==
  /\ pc \in {"received", "dispatch", "acquire", "call", "status"} => ~answered /\ charged = 0
  /\ pc \in {"put", "stored"} => answered /\ charged = (IF mode = "research" THEN 0 ELSE 1)
  /\ answer = "served" => charged = (IF answered THEN 1 ELSE 0) /\ (answered \/ row)
  /\ answer \in Classes => charged <= (IF mode = "structured" THEN 1 ELSE 0)

Stopped == mode = "refused" \/ ~Admits("mcp", req)

\* The vendors left are those of the chain before the one the request is at.
FaultsOK ==
  /\ errs = {fault[i] : i \in 1..3} \ {"none"}
  /\ answer = "none" => \A i \in 1..3 : fault[i] = "none" <=> i >= hop
  /\ answer \in Classes =>
       \/ Stopped /\ answer = "refused" /\ errs = {}
       \/ answer = Surfaced(errs) /\ errs # {} /\ \A i \in 1..Len(Chain) : fault[i] # "none"

ExtractInv ==
  ExtractTypeOK /\ PlaceOK /\ LeaseOK /\ ChargeOK /\ FaultsOK /\ NoBlankIsStored

LEMMA ModeIn == mode \in Modes
BY DEF mode, Mode, Modes

LEMMA ChainLength == Len(Chain) \in 1..3 /\ (mode # "plain" => Len(Chain) = 1)
<1>1. CASE mode = "plain"
  <2>1. Chain = PlainChain(req.provider)
    BY <1>1, Zenon DEF Chain
  <2>2. PlainChain(req.provider) \in
          {<<"tavily", "firecrawl">>, <<"exa", "firecrawl", "tavily">>, <<"firecrawl", "tavily">>}
    BY Zenon DEF PlainChain
  <2> QED BY <1>1, <2>1, <2>2
<1>2. CASE mode # "plain"
  <2>1. Chain \in {<<"tavily">>, <<"exa">>, <<"firecrawl">>}
    BY <1>2, Zenon DEF Chain
  <2> QED BY <1>2, <2>1
<1> QED BY <1>1, <1>2

LEMMA SameRequest ==
  ASSUME UNCHANGED req
  PROVE  mode' = mode /\ Chain' = Chain /\ Polled' = Polled /\ Stopped' = Stopped
BY DEF mode, Chain, Polled, Stopped

LEMMA ClassIn == \A f \in Faults : Class(f) \in Classes
<1> SUFFICES ASSUME NEW f \in Faults
             PROVE  Class(f) \in Classes
  OBVIOUS
<1>1. /\ PlainClass(f) \in Classes /\ BatchClass(f) \in Classes
      /\ JobClass(f) \in Classes /\ BackendClass(f) \in Classes
  BY DEF PlainClass, BatchClass, JobClass, BackendClass, Classes
<1> QED BY <1>1, Zenon DEF Class

-----------------------------------------------------------------------------
(* Leaving a vendor.                                                       *)

LEMMA SurfacedIn == \A es : Surfaced(es) \in Classes
BY DEF Surfaced, Classes

\* The request moves to the next vendor of the chain or ends.
Moved ==
  /\ hop' \in 1..3 /\ attempt' \in 1..MaxAttempts
  /\ \/ pc' = "acquire" /\ hop' <= Len(Chain) /\ answer' = "none"
     \/ pc' = "done" /\ answer' \in Classes
  /\ errs' \subseteq Classes
  /\ fault' \in [1..3 -> Classes \cup {"none"}]

LEMMA LeaveMoves ==
  ASSUME ExtractInv, answer = "none", pc \in Working,
         NEW class \in Classes, Leave(class), UNCHANGED req
  PROVE  Moved /\ FaultsOK' /\ (hop = Len(Chain) => pc' = "done")
<1>1. /\ hop \in 1..3 /\ hop <= Len(Chain) /\ errs \subseteq Classes
      /\ attempt \in 1..MaxAttempts
      /\ fault \in [1..3 -> Classes \cup {"none"}]
  BY DEF ExtractInv, ExtractTypeOK, Working
<1>2. fault' = [fault EXCEPT ![hop] = class] /\ errs' = errs \cup {class}
  BY DEF Leave
<1>3. /\ Len(Chain) \in 1..3 /\ 1 \in 1..MaxAttempts
  BY ChainLength, ExtractAssumption
<1>4. "none" \notin Classes /\ class # "none"
  BY DEF Classes
<1>5. \/ pc' = "acquire" /\ hop < Len(Chain) /\ hop' = hop + 1 /\ attempt' = 1 /\ answer' = answer
      \/ pc' = "done" /\ hop = Len(Chain) /\ answer' = Surfaced(errs') /\ hop' = hop /\ attempt' = attempt
  BY DEF Leave
<1>6. Surfaced(errs') \in Classes
  BY SurfacedIn
<1>7. Moved
  <2>1. errs' \subseteq Classes /\ fault' \in [1..3 -> Classes \cup {"none"}]
    BY <1>1, <1>2
  <2>2. hop' \in 1..3 /\ attempt' \in 1..MaxAttempts
    <3>a. \A n \in 1..3 : hop < n => hop + 1 \in 1..3
      BY <1>1
    <3>1. hop' \in 1..3
      BY <1>1, <1>3, <1>5, <3>a, Zenon
    <3>2. attempt' \in 1..MaxAttempts
      BY <1>1, <1>3, <1>5
    <3> QED BY <3>1, <3>2
  <2>3. \/ pc' = "acquire" /\ hop' <= Len(Chain) /\ answer' = "none"
        \/ pc' = "done" /\ answer' \in Classes
    BY <1>1, <1>3, <1>5, <1>6
  <2> QED BY <2>1, <2>2, <2>3, Zenon DEF Moved
<1>8. \A i \in 1..3 : fault[i] = "none" <=> i >= hop
  BY DEF ExtractInv, FaultsOK
<1>9. \A i \in 1..3 : fault'[i] = (IF i = hop THEN class ELSE fault[i])
  BY <1>1, <1>2
<1>10. errs' = {fault'[i] : i \in 1..3} \ {"none"}
  <2>1. errs = {fault[i] : i \in 1..3} \ {"none"} /\ fault[hop] = "none"
    BY <1>1, <1>8 DEF ExtractInv, FaultsOK
  <2>2. ASSUME NEW x
        PROVE  x \in errs' <=> x \in {fault'[i] : i \in 1..3} \ {"none"}
    <3>1. x \in errs' <=> x = class \/ (x # "none" /\ \E i \in 1..3 : x = fault[i])
      BY <1>2, <2>1
    <3>2. x = class => x = fault'[hop] /\ x # "none"
      BY <1>1, <1>4, <1>9
    <3>3. \A i \in 1..3 : x = fault[i] /\ x # "none" => x = fault'[i]
      BY <1>9, <2>1
    <3>4. \A i \in 1..3 : x = fault'[i] => x = class \/ x = fault[i]
      BY <1>9
    <3> QED BY <1>1, <3>1, <3>2, <3>3, <3>4
  <2> QED BY <2>2
<1>11. Chain' = Chain /\ Stopped' = Stopped
  BY SameRequest
<1>12. CASE pc' = "acquire"
  <2>1. answer' = "none" /\ hop' = hop + 1
    BY <1>5, <1>12
  <2>2. \A i \in 1..3 : fault'[i] = "none" <=> i >= hop'
    BY <1>1, <1>4, <1>8, <1>9, <2>1
  <2> QED BY <1>7, <1>10, <1>12, <1>5, <2>1, <2>2, <1>4 DEF FaultsOK
<1>13. CASE pc' = "done"
  <2>1. answer' = Surfaced(errs') /\ hop = Len(Chain) /\ answer' # "none"
    BY <1>4, <1>5, <1>6, <1>13
  <2>2. \A i \in 1..Len(Chain) : fault'[i] # "none"
    BY <1>1, <1>3, <1>4, <1>8, <1>9, <2>1
  <2>3. errs' # {}
    BY <1>2
  <2> QED BY <1>7, <1>10, <1>11, <1>13, <2>1, <2>2, <2>3 DEF FaultsOK
<1> QED BY <1>5, <1>12, <1>13

\* A vendor is lost: nothing was answered, and only a structured job that ended
\* the request has been charged.
LEMMA VendorLost ==
  ASSUME ExtractInv, answer = "none", pc \in {"acquire", "call", "status"},
         UNCHANGED <<req, row, page, answered>>, Moved, FaultsOK',
         lease' \in 0..TTL, left' \in 0..Window, missed' \in BOOLEAN,
         slow' \in BOOLEAN, lapsed' \in BOOLEAN, lapsed' => missed' \/ slow',
         charged' = charged \/ (charged' = charged + 1 /\ mode = "structured" /\ pc' = "done")
  PROVE  ExtractInv'
<1>1. mode' = mode /\ Chain' = Chain /\ Polled' = Polled
  BY SameRequest
<1>2. ~answered /\ charged = 0 /\ mode # "refused"
  BY DEF ExtractInv, ChargeOK, PlaceOK, Working
<1>3. /\ \/ pc' = "acquire" /\ answer' = "none"
         \/ pc' = "done" /\ answer' \in Classes
      /\ "none" \notin Classes /\ "served" \notin Classes
  BY DEF Moved, Classes
<1>4. charged' \in {0, 1}
  BY <1>2
<1>5. ExtractTypeOK'
  <2>1. hop' \in 1..3 /\ attempt' \in 1..MaxAttempts /\ errs' \subseteq Classes
        /\ fault' \in [1..3 -> Classes \cup {"none"}]
        /\ (pc' = "acquire" => hop' <= Len(Chain))
    BY <1>3 DEF Moved
  <2>2. pc' \in Stages /\ answer' \in Answers
    BY <1>3 DEF Stages, Answers
  <2>3. pc' \notin {"received", "dispatch", "done"} => hop' <= Len(Chain')
    BY <1>1, <1>3, <2>1
  <2> QED BY <1>2, <1>4, <2>1, <2>2, <2>3 DEF ExtractInv, ExtractTypeOK
<1>6. PlaceOK'
  BY <1>1, <1>2, <1>3 DEF PlaceOK
<1>7. LeaseOK'
  BY <1>3 DEF LeaseOK, LeaseOutlivesJob
<1>8. ChargeOK'
  BY <1>1, <1>2, <1>3, <1>4 DEF ChargeOK
<1>9. NoBlankIsStored'
  BY <1>3 DEF NoBlankIsStored
<1> QED BY <1>5, <1>6, <1>7, <1>8, <1>9 DEF ExtractInv

\* No call outlives a lease that every refresh has reached.
LEMMA CallInTime ==
  ASSUME ExtractInv, pc \in {"call", "status"}, NEW d \in 0..Http
  PROVE  /\ d \in Nat /\ lease \in Nat /\ TTL \in Nat \ {0}
         /\ lapsed \in BOOLEAN /\ missed \in BOOLEAN /\ slow \in BOOLEAN
         /\ ~missed /\ ~slow /\ d + 1 < TTL => d < lease
         /\ lapsed \/ d >= lease => missed \/ slow \/ d + 1 >= TTL
<1>1. /\ lease \in 0..TTL /\ Http \in Nat /\ TTL \in Nat \ {0}
      /\ lapsed \in BOOLEAN /\ missed \in BOOLEAN /\ slow \in BOOLEAN
  BY ExtractAssumption DEF ExtractInv, ExtractTypeOK
<1>2. /\ pc = "call" => lease = TTL
      /\ pc = "status" /\ ~missed /\ ~slow => lease + 1 >= TTL
      /\ lapsed => missed \/ slow
  BY DEF ExtractInv, LeaseOK, LeaseOutlivesJob
<1> QED BY <1>1, <1>2

LEMMA FailedInv ==
  ASSUME ExtractInv, answer = "none", pc \in {"call", "status"},
         NEW f \in Faults, NEW d \in 0..Http, Failed(f, d)
  PROVE  ExtractInv'
<1>1. /\ lapsed' = (lapsed \/ d >= lease) /\ slow' = (slow \/ d + 1 >= TTL) /\ lease' = 0
      /\ UNCHANGED <<req, left, row, page, answered, charged, missed>>
  BY DEF Failed, Ran
<1>2. /\ lease' \in 0..TTL /\ left' \in 0..Window /\ missed' \in BOOLEAN
      /\ slow' \in BOOLEAN /\ lapsed' \in BOOLEAN /\ (lapsed' => missed' \/ slow')
  BY <1>1, CallInTime, ExtractAssumption DEF ExtractInv, ExtractTypeOK
<1>3. Moved /\ FaultsOK'
  <2>1. CASE attempt < MaxAttempts /\ attempt' = attempt + 1 /\ pc' = "acquire"
             /\ UNCHANGED <<hop, errs, fault, answer>>
    <3>1. attempt' \in 1..MaxAttempts
      BY <2>1, ExtractAssumption DEF ExtractInv, ExtractTypeOK
    <3>2. Moved
      BY <2>1, <3>1 DEF Moved, ExtractInv, ExtractTypeOK
    <3>3. Chain' = Chain /\ Stopped' = Stopped
      BY <1>1, SameRequest
    <3> QED BY <2>1, <3>2, <3>3 DEF ExtractInv, FaultsOK
  <2>2. CASE Leave(Class(f))
    BY <1>1, <2>2, ClassIn, LeaveMoves DEF Working
  <2> QED BY <2>1, <2>2 DEF Failed
<1> QED BY <1>1, <1>2, <1>3, VendorLost

\* What may be stored.
Storable(text) ==
  \/ text = "text"
  \/ mode \in {"batch", "structured", "research"}
  \/ mode = "question" /\ text = "blank"

LEMMA DeliveredInv ==
  ASSUME ExtractInv, answer = "none", pc \in {"call", "status"},
         NEW d \in 1..Http, NEW text \in Texts, Storable(text), Delivered(d, text)
  PROVE  ExtractInv'
<1>1. /\ lapsed' = (lapsed \/ d >= lease) /\ slow' = (slow \/ d + 1 >= TTL)
      /\ lease' = Spend(lease, d)
      /\ answered' = TRUE /\ page' = text /\ pc' = "put"
      /\ charged' = (IF mode = "research" THEN charged ELSE charged + 1)
      /\ UNCHANGED <<req, hop, attempt, errs, left, row, answer, fault, missed>>
  BY DEF Delivered, Ran
<1>2. mode' = mode /\ Chain' = Chain /\ Polled' = Polled /\ Stopped' = Stopped
  BY <1>1, SameRequest
<1>3. mode # "refused" /\ charged = 0
  BY DEF ExtractInv, ChargeOK, PlaceOK, Working
<1>4. d \in 0..Http
  BY ExtractAssumption
<1>5. slow' \in BOOLEAN /\ lapsed' \in BOOLEAN /\ (lapsed' => missed' \/ slow')
  BY <1>1, <1>4, CallInTime
<1>6. lease' \in 0..TTL
  <2>1. lease \in 0..TTL /\ TTL \in Nat /\ d \in Nat
    BY <1>4, ExtractAssumption DEF ExtractInv, ExtractTypeOK
  <2> QED BY <1>1, <2>1 DEF Spend
<1>7. ExtractTypeOK'
  <2>1. pc' \in Stages
    BY <1>1 DEF Stages
  <2>2. hop <= Len(Chain)
    BY DEF ExtractInv, ExtractTypeOK
  <2>3. charged' \in Nat
    BY <1>1, <1>3
  <2> QED BY <1>1, <1>2, <1>5, <1>6, <2>1, <2>2, <2>3 DEF ExtractInv, ExtractTypeOK
<1>8. PlaceOK'
  BY <1>1, <1>2, <1>3 DEF PlaceOK
<1>9. LeaseOK'
  BY <1>1, <1>5 DEF LeaseOK, LeaseOutlivesJob
<1>10. ChargeOK'
  BY <1>1, <1>2, <1>3 DEF ChargeOK, Classes
<1>11. FaultsOK'
  BY <1>1, <1>2 DEF ExtractInv, FaultsOK
<1>12. NoBlankIsStored'
  BY <1>1, <1>2 DEF NoBlankIsStored, Storable
<1> QED BY <1>7, <1>8, <1>9, <1>10, <1>11, <1>12 DEF ExtractInv

-----------------------------------------------------------------------------
(* One lemma per step.                                                     *)

\* A step before the first vendor is asked.
LEMMA FirstSteps ==
  ASSUME ExtractInv, Receive \/ Dispatch
  PROVE  ExtractInv'
<1>1. /\ answer = "none" /\ pc \in {"received", "dispatch"}
      /\ UNCHANGED <<req, hop, attempt, errs, lease, left, row, page, reqHistory>>
      /\ \/ pc' = "dispatch" /\ answer' = "none"
         \/ pc' = "acquire" /\ answer' = "none" /\ mode # "refused"
         \/ pc' = "done" /\ answer' = "served" /\ row
         \/ pc' = "done" /\ answer' = "refused" /\ Stopped
  BY DEF Receive, Dispatch, Stopped, Admits, RestAdmits, McpAdmits
<1>2. mode' = mode /\ Chain' = Chain /\ Polled' = Polled /\ Stopped' = Stopped
  BY <1>1, SameRequest
<1>3. errs = {} /\ hop = 1 /\ ~answered /\ charged = 0
  BY <1>1 DEF ExtractInv, PlaceOK, ChargeOK
<1>4. ExtractTypeOK'
  <2>1. pc' \in Stages /\ answer' \in Answers
    BY <1>1 DEF Stages, Answers, Classes
  <2>2. hop <= Len(Chain)
    <3>1. \A n \in 1..3 : 1 <= n
      OBVIOUS
    <3> QED BY <1>3, <3>1, ChainLength, Zenon
  <2> QED BY <1>1, <1>2, <2>1, <2>2 DEF ExtractInv, ExtractTypeOK, reqHistory
<1>5. PlaceOK'
  BY <1>1, <1>2, <1>3 DEF PlaceOK, Working
<1>6. LeaseOK'
  BY <1>1 DEF ExtractInv, LeaseOK, LeaseOutlivesJob, reqHistory
<1>7. ChargeOK'
  BY <1>1, <1>2, <1>3 DEF ChargeOK, Classes, reqHistory
<1>8. FaultsOK'
  BY <1>1, <1>2, <1>3 DEF ExtractInv, FaultsOK, Classes, reqHistory
<1>9. NoBlankIsStored'
  BY <1>1 DEF NoBlankIsStored
<1> QED BY <1>4, <1>5, <1>6, <1>7, <1>8, <1>9 DEF ExtractInv

LEMMA GrantedInv ==
  ASSUME ExtractInv, Granted
  PROVE  ExtractInv'
<1>1. /\ answer = "none" /\ pc = "acquire" /\ pc' = "call" /\ lease' = TTL
      /\ UNCHANGED <<req, hop, attempt, errs, left, row, answer, page, reqHistory>>
  BY DEF Granted
<1>2. mode' = mode /\ Chain' = Chain /\ Polled' = Polled /\ Stopped' = Stopped
  BY <1>1, SameRequest
<1>3. ExtractTypeOK'
  BY <1>1, <1>2, ExtractAssumption DEF ExtractInv, ExtractTypeOK, Stages, reqHistory
<1>4. PlaceOK' /\ LeaseOK' /\ NoBlankIsStored'
  BY <1>1, <1>2 DEF ExtractInv, PlaceOK, LeaseOK, LeaseOutlivesJob, NoBlankIsStored,
                    Working, reqHistory
<1>5. ChargeOK'
  BY <1>1, <1>2 DEF ExtractInv, ChargeOK, Classes, reqHistory
<1>6. FaultsOK'
  BY <1>1, <1>2 DEF ExtractInv, FaultsOK, Classes, reqHistory
<1> QED BY <1>3, <1>4, <1>5, <1>6 DEF ExtractInv

LEMMA NotGrantedInv ==
  ASSUME ExtractInv, NotGranted
  PROVE  ExtractInv'
<1>1. /\ answer = "none" /\ pc = "acquire" /\ Leave("outage")
      /\ UNCHANGED <<req, lease, left, row, page, answered, charged, missed, lapsed, slow>>
  BY DEF NotGranted
<1>2. Moved /\ FaultsOK'
  BY <1>1, LeaveMoves DEF Working, Classes
<1>3. lease' \in 0..TTL /\ left' \in 0..Window /\ missed' \in BOOLEAN
      /\ slow' \in BOOLEAN /\ lapsed' \in BOOLEAN /\ (lapsed' => missed' \/ slow')
  BY <1>1 DEF ExtractInv, ExtractTypeOK, LeaseOK, LeaseOutlivesJob
<1> QED BY <1>1, <1>2, <1>3, VendorLost

\* A call that gives no answer, for whatever reason.
LEMMA CallsFailInv ==
  ASSUME ExtractInv, CallRefused \/ CallFails \/ CallEmpty \/ NoJob
  PROVE  ExtractInv'
<1>1. answer = "none" /\ pc \in {"call", "status"}
  BY DEF CallRefused, CallFails, CallEmpty, NoJob
<1>2. PICK f \in Faults, d \in 0..Http : Failed(f, d)
  <2>1. 0 \in 0..Http /\ \A d \in 1..Http : d \in 0..Http
    BY ExtractAssumption
  <2>2. "refused" \in Faults /\ "failed" \in Faults
    BY DEF Faults
  <2> QED BY <2>1, <2>2, Zenon DEF CallRefused, CallFails, CallEmpty, NoJob
<1> QED BY <1>1, <1>2, FailedInv

LEMMA CallAnswersInv ==
  ASSUME ExtractInv, CallAnswers
  PROVE  ExtractInv'
<1>1. answer = "none" /\ pc = "call"
  BY DEF CallAnswers
<1>2. PICK d \in 1..Http, rows \in (IF mode = "batch" THEN BatchReplies ELSE PageReplies) :
        (mode # "batch" => HasText(TextIn(rows))) /\ Delivered(d, TextIn(rows))
  BY Zenon DEF CallAnswers
<1>3. TextIn(rows) \in Texts /\ Storable(TextIn(rows))
  <2>1. CASE mode = "batch"
    <3>1. TextIn(rows) = BatchText(vendor, rows)
      BY <2>1, Zenon DEF TextIn
    <3>2. BatchText(vendor, rows) \in Texts
      BY Zenon DEF BatchText, Texts
    <3> QED BY <2>1, <3>1, <3>2 DEF Storable
  <2>2. CASE mode # "batch"
    BY <1>2, <2>2 DEF HasText, Texts, Storable
  <2> QED BY <2>1, <2>2
<1> QED BY <1>1, <1>2, <1>3, DeliveredInv

LEMMA StandingsAre ==
  ASSUME NEW st \in Standings
  PROVE  st.body \in Texts /\ st.completed \in BOOLEAN
<1>1. PICK r \in StatusReplies :
        st = IF mode = "research" THEN ResearchStatus(r) ELSE StructuredStatus(r)
  BY DEF Standings
<1>2. r.body \in Texts
  BY DEF StatusReplies
<1> QED BY <1>1, <1>2 DEF ResearchStatus, StructuredStatus, Texts

LEMMA JobCompletesInv ==
  ASSUME ExtractInv, JobCompletes
  PROVE  ExtractInv'
<1>1. answer = "none" /\ pc = "status"
  BY DEF JobCompletes
<1>2. PICK st \in Standings, d \in 1..Http : Satisfies(st) /\ Delivered(d, st.body)
  BY Zenon DEF JobCompletes
<1>3. st.body \in Texts
  BY StandingsAre
<1>4. mode \in {"structured", "question", "research"}
  BY <1>1 DEF ExtractInv, PlaceOK, Polled
<1>5. Storable(st.body)
  BY <1>2, <1>3, <1>4 DEF Satisfies, Storable, Texts
<1> QED BY <1>1, <1>2, <1>3, <1>5, DeliveredInv

\* A refresh of a lease that is not late makes it whole.
LEMMA LeaseAfter ==
  ASSUME ExtractInv, pc \in {"call", "status"}, NEW d \in 1..Http, NEW works \in BOOLEAN
  PROVE  /\ d \in 0..Http
         /\ Refreshed(d, works) \in 0..TTL /\ Spend(Refreshed(d, works), 1) \in 0..TTL
         /\ works /\ ~missed /\ ~slow /\ d + 1 < TTL => Refreshed(d, works) = TTL
<1>1. d \in 0..Http /\ TTL \in Nat
  BY ExtractAssumption
<1>2. d \in Nat /\ lease \in 0..TTL /\ (~missed /\ ~slow /\ d + 1 < TTL => d < lease)
  BY <1>1, CallInTime DEF ExtractInv, ExtractTypeOK
<1>3. Spend(lease, d) \in 0..TTL
  BY <1>1, <1>2 DEF Spend
<1>4. /\ Refreshed(d, works) \in 0..TTL
      /\ works /\ ~missed /\ ~slow /\ d + 1 < TTL => Refreshed(d, works) = TTL
  BY <1>1, <1>2, <1>3 DEF Refreshed
<1> QED BY <1>1, <1>4 DEF Spend

LEMMA JobStartsInv ==
  ASSUME ExtractInv, JobStarts
  PROVE  ExtractInv'
<1>1. /\ answer = "none" /\ pc = "call" /\ Polled /\ pc' = "status" /\ left' = Window
      /\ UNCHANGED <<req, hop, attempt, errs, row, answer, page, fault, answered, charged>>
  BY DEF JobStarts
<1>2. PICK d \in 1..Http, works \in BOOLEAN :
        /\ lapsed' = (lapsed \/ d >= lease) /\ slow' = (slow \/ d + 1 >= TTL)
        /\ lease' = Refreshed(d, works)
        /\ missed' = (missed \/ ~works)
  BY Zenon DEF JobStarts, Ran
<1>3. mode' = mode /\ Chain' = Chain /\ Polled' = Polled /\ Stopped' = Stopped
  BY <1>1, SameRequest
<1>4. /\ lapsed' \in BOOLEAN /\ missed' \in BOOLEAN /\ slow' \in BOOLEAN
      /\ (lapsed' => missed' \/ slow')
      /\ (~missed' /\ ~slow' => lease' = TTL) /\ lease' \in 0..TTL
  <2>1. d \in 0..Http
    BY <1>1, LeaseAfter
  <2>2. /\ d \in Nat /\ TTL \in Nat \ {0}
        /\ lapsed \in BOOLEAN /\ missed \in BOOLEAN /\ slow \in BOOLEAN
        /\ lapsed \/ d >= lease => missed \/ slow \/ d + 1 >= TTL
    BY <1>1, <2>1, CallInTime
  <2>3. /\ Refreshed(d, works) \in 0..TTL
        /\ works /\ ~missed /\ ~slow /\ d + 1 < TTL => Refreshed(d, works) = TTL
    BY <1>1, LeaseAfter
  <2>4. lapsed' \in BOOLEAN /\ missed' \in BOOLEAN /\ slow' \in BOOLEAN
    BY <1>2, <2>2
  <2>5. lapsed' => missed' \/ slow'
    BY <1>2, <2>2
  <2>6. ASSUME ~missed', ~slow' PROVE lease' = TTL
    <3>1. ~missed /\ works /\ ~slow /\ ~(d + 1 >= TTL)
      BY <1>2, <2>6, Zenon
    <3>2. d + 1 < TTL
      BY <2>2, <3>1
    <3> QED BY <1>2, <2>3, <3>1, <3>2
  <2> QED BY <1>2, <2>3, <2>4, <2>5, <2>6
<1>5. ExtractTypeOK'
  BY <1>1, <1>3, <1>4, ExtractAssumption DEF ExtractInv, ExtractTypeOK, Stages
<1>6. PlaceOK' /\ NoBlankIsStored'
  BY <1>1, <1>3 DEF ExtractInv, PlaceOK, NoBlankIsStored, Working
<1>7. LeaseOK'
  <2>1. TTL \in Nat /\ TTL' = TTL
    BY ExtractAssumption
  <2>2. ~missed' /\ ~slow' => lease' + 1 >= TTL
    BY <1>4, <2>1
  <2> QED BY <1>1, <1>4, <2>1, <2>2 DEF LeaseOK, LeaseOutlivesJob
<1>8. ChargeOK'
  BY <1>1, <1>3 DEF ExtractInv, ChargeOK, Classes
<1>9. FaultsOK'
  BY <1>1, <1>3 DEF ExtractInv, FaultsOK, Classes
<1> QED BY <1>5, <1>6, <1>7, <1>8, <1>9 DEF ExtractInv

\* The vendor of a polled job is the last of its chain.
LEMMA JobEnds ==
  ASSUME ExtractInv, answer = "none", pc = "status", UNCHANGED req,
         NEW class \in Classes, Leave(class)
  PROVE  Moved /\ FaultsOK' /\ pc' = "done"
<1>1. Len(Chain) = 1
  BY ChainLength DEF ExtractInv, PlaceOK, Polled
<1>2. hop = Len(Chain)
  <2>1. hop \in 1..3 /\ hop <= Len(Chain)
    BY DEF ExtractInv, ExtractTypeOK
  <2> QED BY <1>1, <2>1
<1> QED BY <1>2, LeaveMoves DEF Working

LEMMA JobFailsInv ==
  ASSUME ExtractInv, JobFails
  PROVE  ExtractInv'
<1>1. /\ answer = "none" /\ pc = "status" /\ Leave("outage") /\ lease' = 0
      /\ charged' = (IF mode = "structured" THEN charged + 1 ELSE charged)
      /\ UNCHANGED <<req, left, row, page, answered, missed>>
  BY DEF JobFails
<1>2. PICK d \in 1..Http :
        lapsed' = (lapsed \/ d >= lease) /\ slow' = (slow \/ d + 1 >= TTL)
  BY Zenon DEF JobFails, Ran
<1>3. Moved /\ FaultsOK' /\ pc' = "done"
  BY <1>1, JobEnds DEF Classes
<1>4. d \in 0..Http
  BY ExtractAssumption
<1>5. /\ lease' \in 0..TTL /\ left' \in 0..Window /\ missed' \in BOOLEAN
      /\ slow' \in BOOLEAN /\ lapsed' \in BOOLEAN /\ (lapsed' => missed' \/ slow')
  BY <1>1, <1>2, <1>4, CallInTime, ExtractAssumption DEF ExtractInv, ExtractTypeOK
<1> QED BY <1>1, <1>3, <1>5, VendorLost

LEMMA JobRunsInv ==
  ASSUME ExtractInv, JobRuns
  PROVE  ExtractInv'
<1>1. answer = "none" /\ pc = "status" /\ UNCHANGED <<req, row, page, answered>>
  BY DEF JobRuns
<1>2. PICK d \in 1..Http, works \in BOOLEAN :
        /\ missed' = (missed \/ ~works) /\ slow' = (slow \/ d + 1 >= TTL)
        /\ \/ /\ LeftAfter(d) > 0
              /\ lease' = Spend(Refreshed(d, works), 1)
              /\ left' = Spend(LeftAfter(d), 1)
              /\ lapsed' = (lapsed \/ lease' = 0)
              /\ UNCHANGED <<pc, hop, attempt, errs, fault, answer, charged>>
           \/ /\ LeftAfter(d) = 0
              /\ lapsed' = (lapsed \/ d >= lease)
              /\ lease' = 0 /\ left' = 0
              /\ charged' = IF mode = "structured" THEN charged + 1 ELSE charged
              /\ Leave("timeout")
  BY Zenon DEF JobRuns, Ran
<1>3. mode' = mode /\ Chain' = Chain /\ Polled' = Polled /\ Stopped' = Stopped
  BY <1>1, SameRequest
<1>4. /\ d \in 0..Http /\ d \in Nat \ {0} /\ missed \in BOOLEAN /\ slow \in BOOLEAN
      /\ lapsed \in BOOLEAN /\ (lapsed => missed \/ slow)
      /\ TTL \in Nat \ {0} /\ Http \in Nat /\ Window \in Nat
  BY <1>1, LeaseAfter, CallInTime, ExtractAssumption
     DEF ExtractInv, ExtractTypeOK, LeaseOK, LeaseOutlivesJob
<1>5. CASE /\ LeftAfter(d) > 0
           /\ lease' = Spend(Refreshed(d, works), 1)
           /\ left' = Spend(LeftAfter(d), 1)
           /\ lapsed' = (lapsed \/ lease' = 0)
           /\ UNCHANGED <<pc, hop, attempt, errs, fault, answer, charged>>
  <2>1. lease' \in 0..TTL
        /\ (works /\ ~missed /\ ~slow /\ d + 1 < TTL => lease' = TTL - 1)
    BY <1>1, <1>4, <1>5, LeaseAfter DEF Spend
  <2>2. missed' \in BOOLEAN /\ slow' \in BOOLEAN /\ lapsed' \in BOOLEAN
        /\ (lapsed' => missed' \/ slow') /\ (~missed' /\ ~slow' => lease' + 1 >= TTL)
    <3>1. CASE works /\ ~missed /\ ~slow /\ d + 1 < TTL
      <4>1. lease' + 1 >= TTL /\ lease' # 0
        BY <1>4, <2>1, <3>1
      <4>2. lapsed' = FALSE /\ missed' = FALSE
        BY <1>2, <1>4, <1>5, <3>1, <4>1, Zenon
      <4>3. slow' \in BOOLEAN
        BY <1>2, <1>4
      <4> QED BY <4>1, <4>2, <4>3
    <3>2. CASE ~(works /\ ~missed /\ ~slow /\ d + 1 < TTL)
      <4>1. missed' \in BOOLEAN /\ slow' \in BOOLEAN
        BY <1>2, <1>4
      <4>3. d + 1 < TTL \/ d + 1 >= TTL
        BY <1>4
      <4>4. missed' \/ slow'
        BY <1>2, <1>4, <3>2, <4>3, Zenon
      <4>2. lapsed' \in BOOLEAN
        BY <1>4, <1>5
      <4> QED BY <4>1, <4>2, <4>4
    <3> QED BY <3>1, <3>2
  <2>3. left' \in 0..Window
    <3>1. left \in 0..Window /\ d \in Nat
      BY <1>4 DEF ExtractInv, ExtractTypeOK
    <3>2. LeftAfter(d) \in 0..Window
      BY <1>4, <3>1 DEF LeftAfter, Spend
    <3> QED BY <1>4, <1>5, <3>2 DEF Spend
  <2>4. ExtractTypeOK'
    BY <1>1, <1>3, <1>5, <2>1, <2>2, <2>3 DEF ExtractInv, ExtractTypeOK
  <2>5. PlaceOK' /\ NoBlankIsStored'
    BY <1>1, <1>3, <1>5 DEF ExtractInv, PlaceOK, NoBlankIsStored, Working
  <2>6. LeaseOK'
    BY <1>1, <1>5, <2>2 DEF LeaseOK, LeaseOutlivesJob
  <2>7. ChargeOK'
    BY <1>1, <1>3, <1>5 DEF ExtractInv, ChargeOK, Classes
  <2>8. FaultsOK'
    BY <1>1, <1>3, <1>5 DEF ExtractInv, FaultsOK, Classes
  <2> QED BY <2>4, <2>5, <2>6, <2>7, <2>8 DEF ExtractInv
<1>6. CASE /\ lapsed' = (lapsed \/ d >= lease)
           /\ lease' = 0 /\ left' = 0
           /\ charged' = IF mode = "structured" THEN charged + 1 ELSE charged
           /\ Leave("timeout")
  <2>1. Moved /\ FaultsOK' /\ pc' = "done"
    BY <1>1, <1>6, JobEnds DEF Classes
  <2>2. lease' \in 0..TTL /\ left' \in 0..Window
    BY <1>4, <1>6
  <2>3. /\ lapsed' \in BOOLEAN /\ missed' \in BOOLEAN /\ slow' \in BOOLEAN
        /\ (lapsed' => missed' \/ slow')
    BY <1>1, <1>2, <1>4, <1>6, CallInTime
  <2> QED BY <1>1, <1>6, <2>1, <2>2, <2>3, VendorLost
<1> QED BY <1>2, <1>5, <1>6

LEMMA LastSteps ==
  ASSUME ExtractInv, Put \/ Serve \/ Cut
  PROVE  ExtractInv'
<1>1. /\ answer = "none" /\ row \in BOOLEAN
      /\ UNCHANGED <<req, hop, attempt, errs, left, page, fault, answered, missed, lapsed, slow>>
  BY DEF Put, Serve, Cut, reqHistory, ExtractInv, ExtractTypeOK
<1>2. mode' = mode /\ Chain' = Chain /\ Polled' = Polled /\ Stopped' = Stopped
  BY <1>1, SameRequest
<1>3. \/ pc = "put" /\ pc' = "stored" /\ UNCHANGED <<lease, answer, charged>> /\ row' \in BOOLEAN
      \/ /\ pc = "stored" /\ pc' = "done" /\ answer' = "served" /\ lease' = 0 /\ row' = row
         /\ charged' = (IF mode = "research" THEN charged + 1 ELSE charged)
      \/ pc' = "done" /\ answer' = "cut" /\ lease' = 0 /\ UNCHANGED <<row, charged>>
  BY <1>1 DEF Put, Serve, Cut, reqHistory
<1>4. lease' \in 0..TTL
  BY <1>3, ExtractAssumption DEF ExtractInv, ExtractTypeOK
<1>5. /\ pc \in {"put", "stored"} => answered /\ charged = (IF mode = "research" THEN 0 ELSE 1)
      /\ charged \in Nat
  BY DEF ExtractInv, ChargeOK, ExtractTypeOK
<1>6. ExtractTypeOK'
  <2>1. pc' \in Stages /\ answer' \in Answers /\ row' \in BOOLEAN
    BY <1>1, <1>3 DEF Stages, Answers
  <2>2. charged' \in Nat
    BY <1>3, <1>5
  <2>3. pc' \notin {"received", "dispatch", "done"} => hop' <= Len(Chain')
    BY <1>1, <1>2, <1>3 DEF ExtractInv, ExtractTypeOK
  <2> QED BY <1>1, <1>4, <2>1, <2>2, <2>3 DEF ExtractInv, ExtractTypeOK
<1>7. PlaceOK' /\ NoBlankIsStored'
  BY <1>1, <1>2, <1>3 DEF ExtractInv, PlaceOK, NoBlankIsStored, Working
<1>8. LeaseOK'
  BY <1>1, <1>3 DEF ExtractInv, LeaseOK, LeaseOutlivesJob
<1>9. ChargeOK'
  BY <1>1, <1>2, <1>3, <1>5 DEF ChargeOK, Classes
<1>10. FaultsOK'
  BY <1>1, <1>2, <1>3 DEF ExtractInv, FaultsOK, Classes
<1> QED BY <1>6, <1>7, <1>8, <1>9, <1>10 DEF ExtractInv

\* A row for the request may appear at any time: research has it stored too.
LEMMA RowGained ==
  ASSUME ExtractInv, row' \in {row, TRUE},
         UNCHANGED <<req, pc, hop, attempt, errs, lease, left, answer, page, reqHistory>>
  PROVE  ExtractInv'
<1>1. mode' = mode /\ Chain' = Chain /\ Polled' = Polled /\ Stopped' = Stopped
  BY SameRequest
<1>2. ExtractTypeOK'
  BY <1>1 DEF ExtractInv, ExtractTypeOK, reqHistory
<1>3. PlaceOK' /\ NoBlankIsStored' /\ LeaseOK'
  BY <1>1 DEF ExtractInv, PlaceOK, NoBlankIsStored, LeaseOK, LeaseOutlivesJob, reqHistory
<1>4. ChargeOK'
  BY <1>1 DEF ExtractInv, ChargeOK, reqHistory
<1>5. FaultsOK'
  BY <1>1 DEF ExtractInv, FaultsOK, reqHistory
<1> QED BY <1>2, <1>3, <1>4, <1>5 DEF ExtractInv

LEMMA ExtractStepInv ==
  ASSUME ExtractInv, ExtractStep \/ Cut
  PROVE  ExtractInv'
BY FirstSteps, GrantedInv, NotGrantedInv, CallsFailInv, CallAnswersInv, JobStartsInv,
   JobCompletesInv, JobFailsInv, JobRunsInv, LastSteps, Zenon DEF ExtractStep

LEMMA ExtractStarts ==
  ASSUME NEW requests \in SUBSET (ExtractRequests \cup {BackendRequest}), ExtractStart(requests)
  PROVE  ExtractInv
<1>1. /\ req \in ExtractRequests \cup {BackendRequest} /\ pc = "received" /\ hop = 1
      /\ attempt = 1 /\ errs = {} /\ lease = 0 /\ left = 0 /\ row \in BOOLEAN
      /\ answer = "none" /\ page = "none" /\ fault = [i \in 1..3 |-> "none"]
      /\ answered = FALSE /\ charged = 0 /\ missed = FALSE /\ lapsed = FALSE
      /\ slow = FALSE
  BY DEF ExtractStart
<1>2. /\ 0 \in 0..TTL /\ 0 \in 0..Window /\ 1 \in 1..MaxAttempts /\ 1 \in 1..3 /\ 0 \in Nat
      /\ "none" \notin Classes
  BY ExtractAssumption DEF Classes
<1>3. ExtractTypeOK
  BY <1>1, <1>2 DEF ExtractTypeOK, Stages, Answers, Texts
<1>4. PlaceOK /\ NoBlankIsStored /\ LeaseOK /\ ChargeOK
  BY <1>1, <1>2 DEF PlaceOK, NoBlankIsStored, LeaseOK, LeaseOutlivesJob, ChargeOK, Working
<1>5. FaultsOK
  <2>1. \A i \in 1..3 : fault[i] = "none" /\ i >= hop
    BY <1>1
  <2> QED BY <1>1, <1>2, <2>1 DEF FaultsOK
<1> QED BY <1>3, <1>4, <1>5 DEF ExtractInv

-----------------------------------------------------------------------------
(* What the invariant says of an answer.                                   *)

LEMMA ChargesFit == ExtractInv => ChargedForAnswers
BY DEF ExtractInv, ChargeOK, ChargedForAnswers

LEMMA FailuresFit ==
  ASSUME ExtractInv
  PROVE  FailureIsFair
<1> SUFFICES ASSUME answer \in Classes
             PROVE  /\ answer = "drained" <=> \E i \in 1..3 : fault[i] = "drained"
                    /\ answer = "refused" =>
                         \/ mode = "refused" \/ ~Admits("mcp", req)
                         \/ \A i \in 1..Len(Chain) : fault[i] = "refused"
  BY Zenon DEF FailureIsFair
<1>1. /\ errs = {fault[i] : i \in 1..3} \ {"none"}
      /\ \/ Stopped /\ answer = "refused" /\ errs = {}
         \/ answer = Surfaced(errs) /\ errs # {} /\ \A i \in 1..Len(Chain) : fault[i] # "none"
      /\ errs \subseteq Classes
  BY DEF ExtractInv, FaultsOK, ExtractTypeOK
<1>2. "drained" \in errs <=> \E i \in 1..3 : fault[i] = "drained"
  BY <1>1
<1>3. CASE Stopped /\ answer = "refused" /\ errs = {}
  BY <1>2, <1>3 DEF Stopped
<1>4. CASE /\ answer = Surfaced(errs) /\ errs # {}
           /\ \A i \in 1..Len(Chain) : fault[i] # "none"
  <2>1. answer = "drained" <=> "drained" \in errs
    <3>1. CASE "drained" \in errs
      BY <1>4, <3>1, Zenon DEF Surfaced
    <3>2. CASE "drained" \notin errs
      <4>1. Surfaced(errs) # "drained"
        BY <3>2 DEF Surfaced
      <4> QED BY <1>4, <3>2, <4>1, Zenon
    <3> QED BY <3>1, <3>2
  <2>2. answer = "refused" => errs \subseteq {"refused"}
    BY <1>1, <1>4 DEF Surfaced, Classes
  <2>3. \A n \in 1..3 : \A i \in 1..n : i \in 1..3
    OBVIOUS
  <2>4. \A i \in 1..Len(Chain) : i \in 1..3
    BY <2>3, ChainLength, Zenon
  <2>5. \A i \in 1..Len(Chain) : fault[i] \in errs
    BY <1>1, <1>4, <2>4, Zenon
  <2> QED BY <1>2, <2>1, <2>2, <2>5
<1> QED BY <1>1, <1>3, <1>4

-----------------------------------------------------------------------------
(* The orchestrated research.                                              *)
(*                                                                         *)
(* ResearchMetaExact: a call is either in the meta or in the meta of a leg *)
(* that is not absorbed yet; what a step leaves no leg to absorb must be 0.*)

Found     == [url : Urls, named : Urls, text : BOOLEAN]
Scrapings == [done : {FALSE}, url : Urls] \cup [done : {TRUE}, page : Found, count : 0..1]

ListsOK ==
  /\ listed \in Seq(Urls) /\ targets \in Seq(Urls) /\ second.list \in Seq(Urls)
  /\ scraped \in Seq(Found) /\ busy \in Seq(Scrapings)

CountsOK ==
  /\ meta.count \in Nat /\ part.count \in Nat /\ calls \in Nat
  /\ social.meta.count \in Nat /\ second.meta.count \in Nat

\* Which legs have nothing to be absorbed at which step.
PhaseOK ==
  /\ step \in {"cache", "search"} =>
       /\ listed = <<>> /\ busy = <<>> /\ part.count = 0
       /\ social.meta.count = 0 /\ second.meta.count = 0
  /\ kind = "deep" => busy = <<>> /\ social.meta.count = 0
  /\ kind = "standard" \/ step = "scrape" => second.meta.count = 0
  /\ kind = "deep" /\ step \in {"search", "scrape", "synth1", "refine"} => part.count = 0
  /\ second.pc = "running" => second.meta.count = 0 /\ step \in {"synth1", "join", "done"}

\* The scrapes that made a call and wait to be yielded.
Noted == {i \in DOMAIN busy : busy[i].done /\ busy[i].count = 1}

\* What the second search noted is absorbed when the two legs are joined.
Beside == IF step \in {"refine", "end"} THEN 0 ELSE second.meta.count

SumOK ==
  /\ result = "none" =>
       calls = meta.count + part.count + social.meta.count + Cardinality(Noted) + Beside
  /\ ResearchMetaExact

NovelOK == step = "refine" => Pages(targets) \cap early = {}

ResearchInv == ListsOK /\ CountsOK /\ PhaseOK /\ SumOK /\ NovelOK

LEMMA AbsorbCounts ==
  /\ \A m, o : Absorb(m, o).count = m.count + o.count
  /\ \A l, ok : \A n \in 0..1 : LegMeta(l, ok, n).count = n
  /\ \A m, l, ok : \A n \in 0..1 : Absorb(m, LegMeta(l, ok, n)).count = m.count + n
  /\ \A m, o, p : Absorb(Absorb(m, o), p).count = (m.count + o.count) + p.count
  /\ NoMeta.count = 0
<1>1. \A m, o : Absorb(m, o).count = m.count + o.count
  BY DEF Absorb
<1>2. \A l, ok : \A n \in 0..1 : LegMeta(l, ok, n).count = n
  BY DEF LegMeta, NoMeta
<1> QED BY <1>1, <1>2 DEF NoMeta

LEMMA NoneNoted == busy = <<>> => Noted = {} /\ Cardinality(Noted) = 0
BY FS_EmptySet DEF Noted

LEMMA NotedIs ==
  ASSUME ListsOK
  PROVE  IsFiniteSet(Noted) /\ Cardinality(Noted) \in Nat /\ Noted \subseteq 1..Len(busy)
<1>1. Len(busy) \in Nat /\ Noted \in SUBSET (1..Len(busy))
  BY DEF ListsOK, Noted
<1>2. IsFiniteSet(1..Len(busy))
  BY <1>1, FS_Interval
<1> QED BY <1>1, <1>2, FS_Subset, FS_CardinalityType, Zenon

LEMMA ScrapesFound == \A u \in Urls : Scrapes(u) \subseteq Found
<1> SUFFICES ASSUME NEW u \in Urls
             PROVE  Scrapes(u) \subseteq Found
  OBVIOUS
<1>1. [url : {u}, named : Urls, text : {TRUE}] \subseteq Found
  BY DEF Found
<1>2. [url |-> u, named |-> u, text |-> FALSE] \in Found
  BY DEF Found
<1> QED BY <1>1, <1>2, Zenon DEF Scrapes

LEMMA TopIs ==
  ASSUME NEW s \in Seq(Urls)
  PROVE  Top(s) \in Seq(Urls) /\ Pages(Top(s)) \subseteq Pages(s)
<1>1. ScrapeTop \in Nat
  BY ResearchAssumption
<1>2. PICK n \in 0..Len(s) : Top(s) = SubSeq(s, 1, n)
  BY <1>1 DEF Top
<1>3. Top(s) \in Seq(Urls) /\ Len(Top(s)) = n /\ \A i \in 1..n : Top(s)[i] = s[i]
  BY <1>2
<1> QED BY <1>3 DEF Pages

\* A step that leaves every leg and list alone.
LEMMA ResearchRests ==
  ASSUME ResearchInv, UNCHANGED <<kind, step, listed, targets, scraped, busy, social, synth,
                                  second, meta, part, result, calls, early>>
  PROVE  ResearchInv'
<1>1. ListsOK' /\ CountsOK' /\ PhaseOK' /\ NovelOK'
  BY DEF ResearchInv, ListsOK, CountsOK, PhaseOK, NovelOK, Pages
<1>2. SumOK'
  BY DEF ResearchInv, SumOK, ResearchMetaExact, Noted, Beside
<1> QED BY <1>1, <1>2 DEF ResearchInv

\* What the steps of a request that is orchestrated have in common.
LEMMA OrchestratedIs ==
  ASSUME NEW k, Orchestrated(k)
  PROVE  kind = k /\ kind' = kind /\ result = "none"
BY DEF Orchestrated

LEMMA FromCacheMeta ==
  ASSUME ResearchInv, FromCache
  PROVE  ResearchInv'
<1>1. /\ kind = "standard" /\ result = "none" /\ step = "cache"
      /\ step' = (IF row THEN "done" ELSE "search")
      /\ result' = (IF row THEN "served" ELSE "none")
      /\ UNCHANGED <<kind, listed, targets, scraped, busy, social, second, meta, part, calls,
                     early>>
  BY OrchestratedIs DEF FromCache
<1>2. ListsOK' /\ CountsOK' /\ NovelOK'
  BY <1>1 DEF ResearchInv, ListsOK, CountsOK, NovelOK
<1>3. PhaseOK'
  BY <1>1 DEF ResearchInv, PhaseOK
<1>4. calls = meta.count /\ Cardinality(Noted) = 0 /\ Beside = 0
      /\ part.count = 0 /\ social.meta.count = 0 /\ second.meta.count = 0
  BY <1>1, NoneNoted DEF ResearchInv, SumOK, PhaseOK, Beside, CountsOK
<1>5. SumOK'
  <2>1. Noted' = Noted /\ Beside' = 0
    BY <1>1, <1>4 DEF Noted, Beside
  <2> QED BY <1>1, <1>4, <2>1 DEF ResearchInv, CountsOK, SumOK, ResearchMetaExact
<1> QED BY <1>2, <1>3, <1>5 DEF ResearchInv

LEMMA SearchMeta ==
  ASSUME ResearchInv, NEW k \in {"standard", "deep"}, Search(k)
  PROVE  ResearchInv'
<1>1. /\ kind = k /\ result = "none" /\ step = "search"
      /\ UNCHANGED <<kind, scraped, busy, social, second, part, early>>
  BY OrchestratedIs DEF Search
<1>2. PICK n \in 0..1 :
        /\ calls' = calls + n
        /\ \/ /\ listed' \in Listings
              /\ targets' = Top(listed')
              /\ meta' = Absorb(meta, LegMeta("web", TRUE, n))
              /\ step' = "scrape" /\ UNCHANGED result
           \/ /\ meta' = Absorb(meta, LegMeta("web", FALSE, n))
              /\ result' = "failed" /\ step' = "done"
              /\ UNCHANGED <<listed, targets>>
  BY Zenon DEF Search
<1>3. meta'.count = meta.count + n
  <2>1. \E ok \in BOOLEAN : meta' = Absorb(meta, LegMeta("web", ok, n))
    BY <1>2
  <2> QED BY <2>1, AbsorbCounts
<1>4. calls = meta.count /\ Cardinality(Noted) = 0
      /\ part.count = 0 /\ social.meta.count = 0 /\ second.meta.count = 0
  BY <1>1, NoneNoted DEF ResearchInv, SumOK, PhaseOK, Beside, CountsOK
<1>5. ListsOK'
  <2>1. listed' \in Seq(Urls) /\ targets' \in Seq(Urls)
    BY <1>2, TopIs, ResearchAssumption DEF ResearchInv, ListsOK
  <2> QED BY <1>1, <2>1 DEF ResearchInv, ListsOK
<1>6. CountsOK'
  BY <1>1, <1>2, <1>3 DEF ResearchInv, CountsOK
<1>7. PhaseOK' /\ NovelOK'
  BY <1>1, <1>2, <1>4 DEF ResearchInv, PhaseOK, NovelOK
<1>8. SumOK'
  <2>1. Noted' = Noted /\ Beside' = 0
    BY <1>1, <1>4 DEF Noted, Beside
  <2>2. calls' = meta'.count
    BY <1>2, <1>3, <1>4
  <2> QED BY <1>1, <1>4, <1>6, <2>1, <2>2 DEF CountsOK, SumOK, ResearchMetaExact
<1> QED BY <1>5, <1>6, <1>7, <1>8 DEF ResearchInv

LEMMA DropMeta ==
  ASSUME ResearchInv, Drop
  PROVE  ResearchInv'
<1>1. /\ result' = "cut" /\ step' = "done"
      /\ UNCHANGED <<kind, listed, targets, scraped, busy, social, second, meta, part, calls>>
  BY DEF Drop
<1>2. ListsOK' /\ CountsOK' /\ PhaseOK' /\ NovelOK' /\ SumOK'
  BY <1>1 DEF ResearchInv, ListsOK, CountsOK, PhaseOK, NovelOK, SumOK, ResearchMetaExact
<1> QED BY <1>2 DEF ResearchInv

\* What the steps of the gathering leave alone.
LEMMA GatheringIs ==
  ASSUME Gathering
  PROVE  kind = "standard" /\ kind' = kind /\ result = "none" /\ step = "scrape"
BY OrchestratedIs DEF Gathering

LEMMA ScrapeStartsMeta ==
  ASSUME ResearchInv, ScrapeStarts
  PROVE  ResearchInv'
<1>1. /\ kind = "standard" /\ result = "none" /\ step = "scrape" /\ targets # <<>>
      /\ busy' = Append(busy, [done |-> FALSE, url |-> Head(targets)])
      /\ targets' = Tail(targets)
      /\ UNCHANGED <<kind, step, listed, scraped, social, second, meta, part, result, calls,
                     early>>
  BY GatheringIs DEF ScrapeStarts
<1>2. busy \in Seq(Scrapings) /\ targets \in Seq(Urls)
  BY DEF ResearchInv, ListsOK
<1>3. ListsOK'
  <2>1. Head(targets) \in Urls /\ targets' \in Seq(Urls)
    BY <1>1, <1>2
  <2>2. [done |-> FALSE, url |-> Head(targets)] \in Scrapings
    BY <2>1 DEF Scrapings
  <2> QED BY <1>1, <1>2, <2>1, <2>2 DEF ResearchInv, ListsOK
<1>4. CountsOK' /\ PhaseOK' /\ NovelOK'
  BY <1>1 DEF ResearchInv, CountsOK, PhaseOK, NovelOK
<1>5. Noted' = Noted
  <2> DEFINE e == [done |-> FALSE, url |-> Head(targets)]
  <2>1. ~e.done
    OBVIOUS
  <2> HIDE DEF e
  <2>2. /\ Len(busy) \in Nat /\ DOMAIN busy = 1..Len(busy) /\ DOMAIN busy' = 1..(Len(busy) + 1)
        /\ \A i \in 1..Len(busy) : busy'[i] = busy[i]
        /\ busy'[Len(busy) + 1] = e
    BY <1>1, <1>2 DEF e
  <2>3. \A i \in DOMAIN busy' : i \in DOMAIN busy \/ i = Len(busy) + 1
    BY <2>2
  <2> QED BY <2>1, <2>2, <2>3 DEF Noted
<1>6. SumOK'
  BY <1>1, <1>5 DEF ResearchInv, SumOK, ResearchMetaExact, Beside
<1> QED BY <1>3, <1>4, <1>6 DEF ResearchInv

LEMMA ScrapeEndsMeta ==
  ASSUME ResearchInv, NEW i \in 1..Concurrency, ScrapeEnds(i)
  PROVE  ResearchInv'
<1>1. /\ kind = "standard" /\ result = "none" /\ step = "scrape"
      /\ i \in DOMAIN busy /\ ~busy[i].done
      /\ UNCHANGED <<kind, step, listed, targets, scraped, social, second, meta, part, result,
                     early>>
  BY GatheringIs DEF ScrapeEnds
<1>2. PICK p \in Scrapes(busy[i].url), n \in 0..1 :
        /\ busy' = [busy EXCEPT ![i] = [done |-> TRUE, page |-> p, count |-> n]]
        /\ calls' = calls + n
  BY Zenon DEF ScrapeEnds
<1> DEFINE e == [done |-> TRUE, page |-> p, count |-> n]
<1>3. e.done /\ e.count = n
  OBVIOUS
<1>4. /\ busy \in Seq(Scrapings) /\ Len(busy) \in Nat /\ DOMAIN busy = 1..Len(busy)
      /\ busy[i] \in Scrapings
  BY <1>1 DEF ResearchInv, ListsOK
<1>5. e \in Scrapings
  <2>1. busy[i].url \in Urls
    BY <1>1, <1>4 DEF Scrapings
  <2>2. p \in Found
    BY <2>1, ScrapesFound
  <2> QED BY <2>2 DEF Scrapings
<1> HIDE DEF e
<1>6. busy' = [busy EXCEPT ![i] = e]
  BY <1>2 DEF e
<1>7. /\ busy' \in Seq(Scrapings) /\ DOMAIN busy' = DOMAIN busy
      /\ \A x \in DOMAIN busy : busy'[x] = IF x = i THEN e ELSE busy[x]
  BY <1>1, <1>4, <1>5, <1>6
<1>8. ListsOK'
  BY <1>1, <1>7 DEF ResearchInv, ListsOK
<1>9. CountsOK' /\ PhaseOK' /\ NovelOK'
  BY <1>1, <1>2 DEF ResearchInv, CountsOK, PhaseOK, NovelOK
<1>10. IsFiniteSet(Noted) /\ Cardinality(Noted) \in Nat
  BY NotedIs DEF ResearchInv
<1>11. i \notin Noted
  BY <1>1 DEF Noted
<1>12. Cardinality(Noted') = Cardinality(Noted) + n
  <2>1. CASE n = 1
    <3>1. Noted' = Noted \cup {i}
      BY <1>1, <1>3, <1>7, <2>1 DEF Noted
    <3> QED BY <1>10, <1>11, <2>1, <3>1, FS_AddElement
  <2>2. CASE n = 0
    <3>1. Noted' = Noted
      BY <1>1, <1>3, <1>7, <2>2 DEF Noted
    <3> QED BY <1>10, <2>2, <3>1
  <2> QED BY <2>1, <2>2
<1>13. SumOK'
  BY <1>1, <1>2, <1>10, <1>12 DEF ResearchInv, CountsOK, SumOK, ResearchMetaExact, Beside
<1> QED BY <1>8, <1>9, <1>13 DEF ResearchInv

\* A set of numbers has as many members after each has gone down by one.
LEMMA OneDown ==
  ASSUME NEW S, S \subseteq Nat \ {0}, IsFiniteSet(S)
  PROVE  IsFiniteSet({x - 1 : x \in S}) /\ Cardinality({x - 1 : x \in S}) = Cardinality(S)
<1> DEFINE T == {x - 1 : x \in S}
           f == [x \in S |-> x - 1]
<1>1. f \in [S -> T] /\ \A x, y \in S : f[x] = f[y] => x = y
  OBVIOUS
<1>2. \A y \in T : \E x \in S : f[x] = y
  OBVIOUS
<1>3. f \in Bijection(S, T)
  BY <1>1, <1>2 DEF Bijection, Injection, IsInjective, Surjection
<1>4. ExistsBijection(S, T)
  BY <1>3 DEF ExistsBijection
<1> QED BY <1>4, FS_Bijection

LEMMA ScrapeYieldsMeta ==
  ASSUME ResearchInv, ScrapeYields
  PROVE  ResearchInv'
<1> DEFINE s == Head(busy)
<1>1. /\ kind = "standard" /\ result = "none" /\ step = "scrape"
      /\ busy # <<>> /\ s.done
      /\ scraped' = Append(scraped, s.page)
      /\ part' = Absorb(part, LegMeta("scrape", s.page.text, s.count))
      /\ busy' = Tail(busy)
      /\ UNCHANGED <<kind, step, listed, targets, social, second, meta, result, calls, early>>
  BY GatheringIs DEF ScrapeYields
<1>2. /\ busy \in Seq(Scrapings) /\ Len(busy) \in Nat /\ Len(busy) # 0
      /\ scraped \in Seq(Found)
  BY <1>1 DEF ResearchInv, ListsOK
<1>3. /\ s = busy[1] /\ s \in Scrapings
      /\ busy' \in Seq(Scrapings) /\ Len(busy') = Len(busy) - 1
      /\ \A i \in 1..(Len(busy) - 1) : busy'[i] = busy[i + 1]
  BY <1>1, <1>2
<1> HIDE DEF s
<1>4. s.page \in Found /\ s.count \in 0..1
  BY <1>1, <1>3 DEF Scrapings
<1>5. ListsOK'
  BY <1>1, <1>2, <1>3, <1>4 DEF ResearchInv, ListsOK
<1>6. part'.count = part.count + s.count
  BY <1>1, <1>4, AbsorbCounts
<1>7. CountsOK' /\ PhaseOK' /\ NovelOK'
  BY <1>1, <1>4, <1>6 DEF ResearchInv, CountsOK, PhaseOK, NovelOK
<1>8. /\ IsFiniteSet(Noted) /\ Cardinality(Noted) \in Nat /\ Noted \subseteq 1..Len(busy)
      /\ 1 \in Noted <=> s.count = 1
  <2>1. 1 \in DOMAIN busy
    BY <1>2
  <2>2. 1 \in Noted <=> s.count = 1
    BY <1>1, <1>3, <2>1 DEF Noted
  <2> QED BY <2>2, NotedIs DEF ResearchInv
<1>9. Noted' = {x - 1 : x \in Noted \ {1}}
  <2>1. /\ DOMAIN busy = 1..Len(busy) /\ DOMAIN busy' = 1..(Len(busy) - 1)
        /\ Len(busy) \in Nat \ {0}
    BY <1>2, <1>3
  <2>2. ASSUME NEW y \in Noted'
        PROVE  y + 1 \in Noted \ {1} /\ y = (y + 1) - 1
    BY <1>3, <2>1 DEF Noted
  <2>3. ASSUME NEW x \in Noted \ {1}
        PROVE  x - 1 \in Noted'
    <3>1. x \in 1..Len(busy) /\ x - 1 \in 1..(Len(busy) - 1) /\ x = (x - 1) + 1
      BY <1>8, <2>1
    <3>2. busy'[x - 1] = busy[x]
      BY <1>3, <3>1
    <3> QED BY <2>1, <3>1, <3>2 DEF Noted
  <2> QED BY <2>2, <2>3
<1>10. Cardinality(Noted) = Cardinality(Noted') + s.count /\ Cardinality(Noted') \in Nat
  <2>1. /\ IsFiniteSet(Noted \ {1})
        /\ Cardinality(Noted \ {1}) = IF 1 \in Noted THEN Cardinality(Noted) - 1 ELSE Cardinality(Noted)
        /\ Noted \ {1} \subseteq Nat \ {0}
    BY <1>2, <1>8, FS_RemoveElement
  <2>2. Cardinality(Noted') = Cardinality(Noted \ {1})
    BY <1>9, <2>1, OneDown
  <2>3. Cardinality(Noted') \in Nat
    BY <2>1, <2>2, FS_CardinalityType
  <2> QED BY <1>4, <1>8, <2>1, <2>2, <2>3
<1>11. SumOK'
  <2>1. Beside' = Beside /\ Beside \in Nat /\ part.count \in Nat /\ s.count \in Nat
    BY <1>1, <1>4 DEF Beside, ResearchInv, CountsOK
  <2>2. Cardinality(Noted) = Cardinality(Noted') + s.count /\ Cardinality(Noted') \in Nat
    BY <1>10
  <2>3. part'.count + social.meta.count + Cardinality(Noted')
          = part.count + social.meta.count + Cardinality(Noted)
    BY <1>6, <2>1, <2>2 DEF ResearchInv, CountsOK
  <2> QED BY <1>1, <1>6, <2>1, <2>2, <2>3 DEF ResearchInv, CountsOK, SumOK, ResearchMetaExact
<1> QED BY <1>5, <1>7, <1>11 DEF ResearchInv

LEMMA SocialEndsMeta ==
  ASSUME ResearchInv, SocialEnds
  PROVE  ResearchInv'
<1>1. /\ kind = "standard" /\ result = "none" /\ step = "scrape"
      /\ UNCHANGED <<kind, step, listed, targets, scraped, busy, second, meta, part, result, early>>
  BY GatheringIs DEF SocialEnds
<1>2. PICK n \in 0..1, end \in {"ok", "soft", "run"} :
        /\ calls' = calls + n
        /\ social' = [pc |-> end,
                      tries |-> IF end = "run" THEN social.tries + 1 ELSE social.tries,
                      meta |-> Absorb(social.meta, LegMeta("social", end = "ok", n))]
  BY Zenon DEF SocialEnds
<1>3. social'.meta.count = social.meta.count + n
  <2>1. social'.meta = Absorb(social.meta, LegMeta("social", end = "ok", n))
    BY <1>2
  <2> QED BY <2>1, AbsorbCounts
<1>4. ListsOK' /\ CountsOK' /\ PhaseOK' /\ NovelOK'
  BY <1>1, <1>2, <1>3 DEF ResearchInv, ListsOK, CountsOK, PhaseOK, NovelOK
<1>5. Noted' = Noted /\ Beside' = Beside /\ Cardinality(Noted) \in Nat /\ Beside \in Nat
  BY <1>1, NotedIs DEF Noted, Beside, ResearchInv, CountsOK
<1>6. SumOK'
  BY <1>1, <1>2, <1>3, <1>5 DEF ResearchInv, CountsOK, SumOK, ResearchMetaExact
<1> QED BY <1>4, <1>6 DEF ResearchInv

LEMMA GatheredMeta ==
  ASSUME ResearchInv, Gathered
  PROVE  ResearchInv'
<1>1. /\ kind = "standard" /\ result = "none" /\ step = "scrape" /\ busy = <<>>
      /\ meta' = Absorb(Absorb(meta, part), social.meta)
      /\ result' = "served" /\ step' = "done"
      /\ UNCHANGED <<kind, listed, targets, scraped, busy, social, second, part, calls, early>>
  BY GatheringIs DEF Gathered
<1>2. meta'.count = (meta.count + part.count) + social.meta.count
  BY <1>1, AbsorbCounts
<1>3. ListsOK' /\ CountsOK' /\ PhaseOK' /\ NovelOK'
  BY <1>1, <1>2 DEF ResearchInv, ListsOK, CountsOK, PhaseOK, NovelOK
<1>4. Cardinality(Noted) = 0 /\ Beside = 0
  BY <1>1, NoneNoted DEF Beside, ResearchInv, PhaseOK
<1>5. SumOK'
  BY <1>1, <1>2, <1>4 DEF ResearchInv, CountsOK, SumOK, ResearchMetaExact
<1> QED BY <1>3, <1>5 DEF ResearchInv

-----------------------------------------------------------------------------
(* Deep research.                                                          *)

LEMMA DeepScrapeMeta ==
  ASSUME ResearchInv, DeepScrape
  PROVE  ResearchInv'
<1>1. /\ kind = "deep" /\ result = "none" /\ step \in {"scrape", "refine"} /\ targets # <<>>
      /\ targets' = Tail(targets)
      /\ UNCHANGED <<kind, step, listed, busy, social, second, part, result, early>>
  BY OrchestratedIs DEF DeepScrape
<1>2. PICK p \in Scrapes(Head(targets)), n \in 0..1 :
        /\ scraped' = Append(scraped, p)
        /\ meta' = Absorb(meta, LegMeta("scrape", p.text, n))
        /\ calls' = calls + n
  BY Zenon DEF DeepScrape
<1>3. targets \in Seq(Urls) /\ scraped \in Seq(Found)
  BY DEF ResearchInv, ListsOK
<1>4. /\ Head(targets) \in Urls /\ targets' \in Seq(Urls)
      /\ \A i \in DOMAIN targets' : i + 1 \in DOMAIN targets /\ targets'[i] = targets[i + 1]
  BY <1>1, <1>3
<1>5. p \in Found
  BY <1>4, ScrapesFound
<1>6. meta'.count = meta.count + n
  BY <1>2, AbsorbCounts
<1>7. ListsOK' /\ CountsOK' /\ PhaseOK'
  BY <1>1, <1>2, <1>3, <1>4, <1>5, <1>6 DEF ResearchInv, ListsOK, CountsOK, PhaseOK
<1>8. NovelOK'
  <2>1. ASSUME NEW x \in Pages(targets')
        PROVE  x \in Pages(targets)
    <3>1. PICK i \in DOMAIN targets' : x = PageOf[targets'[i]]
      BY DEF Pages
    <3>2. i + 1 \in DOMAIN targets /\ x = PageOf[targets[i + 1]]
      BY <1>4, <3>1
    <3> QED BY <3>2 DEF Pages
  <2> QED BY <1>1, <2>1 DEF ResearchInv, NovelOK
<1>9. Noted' = Noted /\ Beside' = Beside /\ Cardinality(Noted) \in Nat /\ Beside \in Nat
  BY <1>1, NotedIs DEF Noted, Beside, ResearchInv, CountsOK
<1>10. SumOK'
  <2>1. /\ n \in Nat /\ meta.count \in Nat /\ part.count \in Nat /\ social.meta.count \in Nat
        /\ calls = meta.count + part.count + social.meta.count + Cardinality(Noted) + Beside
    BY <1>1 DEF ResearchInv, CountsOK, SumOK
  <2>2. calls' = (meta.count + n) + part.count + social.meta.count + Cardinality(Noted) + Beside
    BY <1>2, <1>9, <2>1
  <2> QED BY <1>1, <1>6, <1>9, <2>2 DEF SumOK, ResearchMetaExact
<1> QED BY <1>7, <1>8, <1>10 DEF ResearchInv

LEMMA Synthesize1Meta ==
  ASSUME ResearchInv, Synthesize1
  PROVE  ResearchInv'
<1>1. /\ kind = "deep" /\ result = "none" /\ step = "scrape" /\ step' = "synth1"
      /\ targets' = <<>>
      /\ second' = [Idle EXCEPT !.pc = IF clock = "ample" THEN "running" ELSE "none"]
      /\ UNCHANGED <<kind, listed, scraped, busy, social, meta, part, result, calls, early>>
  BY OrchestratedIs DEF Synthesize1
<1>2. second'.meta.count = 0 /\ second'.list = <<>>
  BY <1>1 DEF Idle, NoMeta
<1>3. second.meta.count = 0
  BY <1>1 DEF ResearchInv, PhaseOK
<1>4. ListsOK' /\ CountsOK' /\ PhaseOK' /\ NovelOK'
  <2>a. <<>> \in Seq(Urls)
    OBVIOUS
  <2>b. targets' \in Seq(Urls) /\ second'.list \in Seq(Urls)
    BY <1>1, <1>2, <2>a, Zenon
  <2>1. ListsOK'
    BY <1>1, <2>b DEF ResearchInv, ListsOK
  <2>2. CountsOK' /\ NovelOK'
    BY <1>1, <1>2 DEF ResearchInv, CountsOK, NovelOK
  <2>3. PhaseOK'
    BY <1>1, <1>2 DEF ResearchInv, PhaseOK
  <2> QED BY <2>1, <2>2, <2>3
<1>5. Noted' = Noted /\ Beside' = 0 /\ Beside = 0
  BY <1>1, <1>2, <1>3 DEF Noted, Beside
<1>6. SumOK'
  BY <1>1, <1>5 DEF ResearchInv, SumOK, ResearchMetaExact
<1> QED BY <1>4, <1>6 DEF ResearchInv

\* A synthesis notes the call that it makes.
LEMMA SynthesisNotes ==
  ASSUME CountsOK, NEW pass, NEW to, Synthesis(pass, to)
  PROVE  step' = to /\ \E n \in 0..1 : calls' = calls + n /\ part'.count = n
<1>1. calls \in Nat
  BY DEF CountsOK
<1>2. CASE UNCHANGED <<synth, calls>> /\ part' = NoMeta
  <2>1. calls' = calls + 0 /\ part'.count = 0
    BY <1>1, <1>2 DEF NoMeta
  <2> QED BY <2>1 DEF Synthesis
<1>3. CASE /\ \E text \in Completions : part' = LegMeta("synth", HasText(text), 1)
           /\ calls' = calls + 1
  <2>1. part'.count = 1
    BY <1>3, AbsorbCounts
  <2> QED BY <1>3, <2>1 DEF Synthesis
<1> QED BY <1>2, <1>3, Zenon DEF Synthesis

LEMMA Synthesized1Meta ==
  ASSUME ResearchInv, Synthesized1
  PROVE  ResearchInv'
<1>1. /\ kind = "deep" /\ result = "none" /\ step = "synth1" /\ Synthesis("first", "join")
      /\ UNCHANGED <<kind, listed, targets, scraped, busy, social, second, meta, result, early>>
  BY OrchestratedIs DEF Synthesized1
<1>2. PICK n \in 0..1 : step' = "join" /\ calls' = calls + n /\ part'.count = n
  BY <1>1, SynthesisNotes DEF ResearchInv
<1>3. part.count = 0
  BY <1>1 DEF ResearchInv, PhaseOK
<1>4. ListsOK' /\ CountsOK' /\ PhaseOK' /\ NovelOK'
  BY <1>1, <1>2 DEF ResearchInv, ListsOK, CountsOK, PhaseOK, NovelOK
<1>5. Noted' = Noted /\ Beside' = Beside /\ Cardinality(Noted) \in Nat /\ Beside \in Nat
  BY <1>1, <1>2, NotedIs DEF Noted, Beside, ResearchInv, CountsOK
<1>6. SumOK'
  BY <1>1, <1>2, <1>3, <1>5 DEF ResearchInv, CountsOK, SumOK, ResearchMetaExact
<1> QED BY <1>4, <1>6 DEF ResearchInv

LEMMA Synthesized2Meta ==
  ASSUME ResearchInv, Synthesized2
  PROVE  ResearchInv'
<1>1. /\ kind = "deep" /\ result = "none" /\ step = "refine" /\ Synthesis("refined", "end")
      /\ targets' = <<>>
      /\ UNCHANGED <<kind, listed, scraped, busy, social, second, meta, result, early>>
  BY OrchestratedIs DEF Synthesized2
<1>2. PICK n \in 0..1 : step' = "end" /\ calls' = calls + n /\ part'.count = n
  BY <1>1, SynthesisNotes DEF ResearchInv
<1>3. part.count = 0 /\ second.pc # "running"
  BY <1>1 DEF ResearchInv, PhaseOK
<1>4. ListsOK' /\ CountsOK' /\ PhaseOK' /\ NovelOK'
  BY <1>1, <1>2, <1>3 DEF ResearchInv, ListsOK, CountsOK, PhaseOK, NovelOK
<1>5. Noted' = Noted /\ Beside' = 0 /\ Beside = 0 /\ Cardinality(Noted) \in Nat
  BY <1>1, <1>2, NotedIs DEF Noted, Beside, ResearchInv
<1>6. SumOK'
  BY <1>1, <1>2, <1>3, <1>5 DEF ResearchInv, CountsOK, SumOK, ResearchMetaExact
<1> QED BY <1>4, <1>6 DEF ResearchInv

LEMMA SecondEndsMeta ==
  ASSUME ResearchInv, SecondEnds
  PROVE  ResearchInv'
<1>1. /\ kind = "deep" /\ result = "none" /\ second.pc = "running"
      /\ UNCHANGED <<kind, step, listed, targets, scraped, busy, social, meta, part, result, early>>
  BY OrchestratedIs DEF SecondEnds
<1>2. PICK n \in 0..1, list \in Listings, ok \in BOOLEAN :
        /\ calls' = calls + n
        /\ second' = [pc |-> IF ok THEN "found" ELSE "failed", list |-> list,
                      meta |-> LegMeta("web", ok, n)]
  BY Zenon DEF SecondEnds
<1>3. /\ second'.pc # "running" /\ second'.list = list
      /\ second'.meta = LegMeta("web", ok, n)
  BY <1>2
<1>4. second'.meta.count = n /\ list \in Seq(Urls)
  BY <1>3, AbsorbCounts, ResearchAssumption
<1>5. second.meta.count = 0 /\ step \in {"synth1", "join", "done"}
  BY <1>1 DEF ResearchInv, PhaseOK
<1>6. ListsOK' /\ CountsOK' /\ PhaseOK' /\ NovelOK'
  BY <1>1, <1>2, <1>3, <1>4, <1>5 DEF ResearchInv, ListsOK, CountsOK, PhaseOK, NovelOK
<1>7. Noted' = Noted /\ Beside = 0 /\ Beside' = n /\ Cardinality(Noted) \in Nat
  BY <1>1, <1>4, <1>5, NotedIs DEF Noted, Beside, ResearchInv
<1>8. SumOK'
  BY <1>1, <1>2, <1>7 DEF ResearchInv, CountsOK, SumOK, ResearchMetaExact
<1> QED BY <1>6, <1>8 DEF ResearchInv

LEMMA DeepAnswersMeta ==
  ASSUME ResearchInv, DeepAnswers
  PROVE  ResearchInv'
<1>1. /\ kind = "deep" /\ result = "none" /\ step = "end"
      /\ meta' = Absorb(meta, part) /\ result' = "served" /\ step' = "done"
      /\ UNCHANGED <<kind, listed, targets, scraped, busy, social, second, part, calls, early>>
  BY OrchestratedIs DEF DeepAnswers
<1>2. meta'.count = meta.count + part.count
  BY <1>1, AbsorbCounts
<1>3. busy = <<>> /\ social.meta.count = 0
  BY <1>1 DEF ResearchInv, PhaseOK
<1>4. ListsOK' /\ CountsOK' /\ PhaseOK' /\ NovelOK'
  BY <1>1, <1>2 DEF ResearchInv, ListsOK, CountsOK, PhaseOK, NovelOK
<1>5. Cardinality(Noted) = 0 /\ Beside = 0
  BY <1>1, <1>3, NoneNoted DEF Beside
<1>6. SumOK'
  BY <1>1, <1>2, <1>3, <1>5 DEF ResearchInv, CountsOK, SumOK, ResearchMetaExact
<1> QED BY <1>4, <1>6 DEF ResearchInv

\* Fresh keeps no url of a page that is known.
LEMMA FreshIs ==
  ASSUME NEW s \in Seq(Urls), NEW ps
  PROVE  Fresh(s, ps) \in Seq(Urls) /\ Pages(Fresh(s, ps)) \cap Known(ps) = {}
<1> DEFINE I == {i \in DOMAIN s : PageOf[s[i]] \notin Known(ps)}
           p == Picked(s, I)
           c == Cardinality(I)
<1>1. I \subseteq DOMAIN s /\ \A i \in I : PageOf[s[i]] \notin Known(ps)
  OBVIOUS
<1>2. Fresh(s, ps) = p
  BY DEF Fresh
<1> HIDE DEF I, p, c
<1>3. PICK at \in [1..c -> I] : p \in Seq(Urls) /\ Len(p) = c /\ \A k \in 1..c : p[k] = s[at[k]]
  <2>1. /\ Picked(s, I) \in Seq(Urls) /\ Len(Picked(s, I)) = Cardinality(I)
        /\ \E at \in [1..Cardinality(I) -> I] :
             /\ Ascends(at, Cardinality(I))
             /\ \A k \in 1..Cardinality(I) : Picked(s, I)[k] = s[at[k]]
    BY <1>1, PickedIs
  <2> QED BY <2>1, Zenon DEF p, c
<1>4. \A k \in DOMAIN p : PageOf[p[k]] \notin Known(ps)
  <2>1. DOMAIN p = 1..c
    BY <1>3
  <2> QED BY <1>1, <1>3, <2>1
<1> QED BY <1>2, <1>3, <1>4 DEF Pages

\* Merged adds no page twice and none that is listed.
LEMMA MergedIs ==
  ASSUME NEW l \in Seq(Urls), NEW s \in Seq(Urls)
  PROVE  /\ Merged(l, s) \in Seq(Urls)
         /\ \A i \in Len(l) + 1 .. Len(Merged(l, s)) :
              \A j \in 1 .. i - 1 : PageOf[Merged(l, s)[i]] # PageOf[Merged(l, s)[j]]
<1> DEFINE I == NewPlaces(l, s)
           p == Picked(s, I)
           c == Cardinality(I)
           m == Merged(l, s)
<1>1. /\ I \subseteq DOMAIN s /\ Len(s) \in Nat /\ DOMAIN s = 1..Len(s)
      /\ \A i \in I : PageOf[s[i]] \notin Pages(l)
      /\ \A i \in I : \A j \in 1..(i - 1) : PageOf[s[j]] # PageOf[s[i]]
  BY DEF NewPlaces
<1>2. m = l \o p
  BY DEF Merged
<1> HIDE DEF I, p, c, m
<1>3. PICK at \in [1..c -> I] :
        /\ p \in Seq(Urls) /\ Len(p) = c /\ Ascends(at, c)
        /\ \A k \in 1..c : p[k] = s[at[k]]
  <2>1. /\ Picked(s, I) \in Seq(Urls) /\ Len(Picked(s, I)) = Cardinality(I)
        /\ \E at \in [1..Cardinality(I) -> I] :
             /\ Ascends(at, Cardinality(I))
             /\ \A k \in 1..Cardinality(I) : Picked(s, I)[k] = s[at[k]]
    BY <1>1, PickedIs
  <2> QED BY <2>1, Zenon DEF p, c
<1>4. /\ Len(l) \in Nat /\ c \in Nat /\ m \in Seq(Urls) /\ Len(m) = Len(l) + c
      /\ \A i \in 1..Len(l) : m[i] = l[i]
      /\ \A i \in Len(l) + 1 .. Len(m) : m[i] = p[i - Len(l)] /\ i - Len(l) \in 1..c
  BY <1>2, <1>3
<1>5. ASSUME NEW i \in Len(l) + 1 .. Len(m), NEW j \in 1 .. i - 1
      PROVE  PageOf[m[i]] # PageOf[m[j]]
  <2> DEFINE a == i - Len(l)
             b == j - Len(l)
  <2>1. a \in 1..c /\ m[i] = s[at[a]] /\ at[a] \in I
    BY <1>3, <1>4
  <2>2. CASE j <= Len(l)
    <3>1. j \in DOMAIN l /\ m[j] = l[j]
      BY <1>4, <2>2
    <3>2. PageOf[m[j]] \in Pages(l)
      BY <3>1 DEF Pages
    <3> QED BY <1>1, <2>1, <3>2
  <2>3. CASE j > Len(l)
    <3>1. j \in Len(l) + 1 .. Len(m) /\ b \in 1..c /\ b < a
      BY <1>4, <2>3
    <3>2. m[j] = s[at[b]] /\ at[b] \in I /\ at[b] < at[a]
      BY <1>3, <1>4, <2>1, <3>1 DEF Ascends
    <3>3. at[b] \in 1..(at[a] - 1)
      BY <1>1, <2>1, <3>2
    <3> QED BY <1>1, <2>1, <3>2, <3>3
  <2> QED BY <1>4, <2>2, <2>3
<1> QED BY <1>4, <1>5 DEF m

LEMMA JoinMeta ==
  ASSUME ResearchInv, Join
  PROVE  ResearchInv'
<1>1. /\ kind = "deep" /\ result = "none" /\ step = "join" /\ second.pc # "running"
      /\ meta' = Absorb(Absorb(meta, part), second.meta)
      /\ listed' = Merged(listed, second.list)
      /\ targets' = Top(Fresh(second.list, scraped))
      /\ early' = Known(scraped)
      /\ step' = (IF targets' = <<>> THEN "end" ELSE "refine")
      /\ part' = NoMeta
      /\ UNCHANGED <<kind, scraped, busy, social, second, result, calls>>
  BY OrchestratedIs DEF Join
<1>2. listed \in Seq(Urls) /\ second.list \in Seq(Urls)
  BY DEF ResearchInv, ListsOK
<1>3. /\ targets' \in Seq(Urls) /\ Pages(targets') \cap early' = {}
      /\ listed' \in Seq(Urls)
  <2>1. Fresh(second.list, scraped) \in Seq(Urls)
        /\ Pages(Fresh(second.list, scraped)) \cap Known(scraped) = {}
    BY <1>2, FreshIs
  <2>2. targets' \in Seq(Urls) /\ Pages(targets') \subseteq Pages(Fresh(second.list, scraped))
    BY <1>1, <2>1, TopIs, Zenon
  <2> QED BY <1>1, <1>2, <2>1, <2>2, MergedIs
<1>4. meta'.count = (meta.count + part.count) + second.meta.count /\ part'.count = 0
  BY <1>1, AbsorbCounts
<1>5. step' \in {"end", "refine"} /\ busy = <<>> /\ social.meta.count = 0
  BY <1>1 DEF ResearchInv, PhaseOK
<1>6. ListsOK' /\ CountsOK'
  BY <1>1, <1>3, <1>4 DEF ResearchInv, ListsOK, CountsOK
<1>7. PhaseOK' /\ NovelOK'
  BY <1>1, <1>3, <1>4, <1>5 DEF PhaseOK, NovelOK
<1>8. Noted' = Noted /\ Beside' = 0 /\ Beside = second.meta.count /\ Cardinality(Noted) \in Nat
  BY <1>1, <1>5, NotedIs DEF Noted, Beside, ResearchInv
<1>9. SumOK'
  BY <1>1, <1>4, <1>8 DEF ResearchInv, CountsOK, SumOK, ResearchMetaExact
<1> QED BY <1>6, <1>7, <1>9 DEF ResearchInv

-----------------------------------------------------------------------------
(* The specification.                                                      *)

IInv == ExtractInv /\ ResearchInv

LEMMA StandardStepKeeps ==
  ASSUME ResearchInv, StandardStep
  PROVE  ResearchInv'
BY FromCacheMeta, SearchMeta, ScrapeStartsMeta, ScrapeEndsMeta, ScrapeYieldsMeta,
   SocialEndsMeta, GatheredMeta, Zenon DEF StandardStep

LEMMA DeepStepKeeps ==
  ASSUME ResearchInv, DeepStep
  PROVE  ResearchInv'
BY SearchMeta, DeepScrapeMeta, Synthesize1Meta, Synthesized1Meta, SecondEndsMeta, JoinMeta,
   Synthesized2Meta, DeepAnswersMeta, Zenon DEF DeepStep

\* Of the variables of ExtractRun an orchestrated request moves the row alone.
LEMMA StepsGainRow ==
  ASSUME ExtractInv, StandardStep \/ DeepStep \/ Tick
  PROVE  ExtractInv'
<1>1. /\ row' \in {row, TRUE}
      /\ UNCHANGED <<req, pc, hop, attempt, errs, lease, left, answer, page, reqHistory>>
  <2>1. CASE StandardStep
    BY <2>1 DEF StandardStep, FromCache, Search, ScrapeStarts, ScrapeEnds, ScrapeYields,
                SocialEnds, Gathered, Gathering, Orchestrated
  <2>2. CASE DeepStep
    BY <2>2 DEF DeepStep, Search, DeepScrape, Synthesize1, Synthesized1, SecondEnds, Join,
                Synthesized2, DeepAnswers, Orchestrated
  <2>3. CASE Tick
    BY <2>3 DEF Tick, Orchestrated
  <2> QED BY <2>1, <2>2, <2>3
<1> QED BY <1>1, RowGained

LEMMA IInvStep ==
  ASSUME IInv, [Next]_rvars
  PROVE  IInv'
<1>1. CASE ExtractNext
  <2>1. ExtractInv'
    BY <1>1, ExtractStepInv DEF ExtractNext, IInv
  <2>2. ResearchInv'
    BY <1>1, ResearchRests DEF ExtractNext, IInv, resVars
  <2> QED BY <2>1, <2>2 DEF IInv
<1>2. CASE StandardStep
  BY <1>2, StepsGainRow, StandardStepKeeps DEF IInv
<1>3. CASE DeepStep
  BY <1>3, StepsGainRow, DeepStepKeeps DEF IInv
<1>4. CASE Tick
  <2>1. ResearchInv'
    BY <1>4, ResearchRests DEF Tick, Orchestrated, IInv
  <2> QED BY <1>4, <2>1, StepsGainRow DEF IInv
<1>5. CASE Drop
  <2>1. ExtractInv'
    BY <1>5, RowGained DEF Drop, reqVars, reqHistory, IInv
  <2> QED BY <1>5, <2>1, DropMeta DEF IInv
<1>6. CASE UNCHANGED rvars
  <2>1. ExtractInv'
    BY <1>6, RowGained DEF rvars, reqVars, reqHistory, IInv
  <2>2. ResearchInv'
    BY <1>6, ResearchRests DEF rvars, resVars, IInv
  <2> QED BY <2>1, <2>2 DEF IInv
<1> QED BY <1>1, <1>2, <1>3, <1>4, <1>5, <1>6, Zenon DEF Next

LEMMA IInvInit == Init => IInv
<1> SUFFICES ASSUME Init
             PROVE  IInv
  OBVIOUS
<1>1. ExtractInv
  <2>1. {BackendRequest} \in SUBSET (ExtractRequests \cup {BackendRequest})
        /\ ExtractRequests \cup {BackendRequest} \in SUBSET (ExtractRequests \cup {BackendRequest})
    OBVIOUS
  <2>2. \/ ExtractStart(ExtractRequests \cup {BackendRequest})
        \/ ExtractStart({BackendRequest})
    BY DEF Init
  <2> QED BY <2>1, <2>2, ExtractStarts
<1>2. /\ step \in {"cache", "search"} /\ listed = <<>> /\ targets = <<>> /\ scraped = <<>>
      /\ busy = <<>> /\ social.meta = NoMeta /\ second = Idle
      /\ meta = NoMeta /\ part = NoMeta /\ result = "none" /\ calls = 0
      /\ step = "cache" => kind = "standard"
  BY DEF Init
<1>3. second.meta = NoMeta /\ second.list = <<>> /\ second.pc = "none" /\ NoMeta.count = 0
  BY <1>2 DEF Idle, NoMeta
<1>4. ListsOK
  <2>1. <<>> \in Seq(Urls) /\ <<>> \in Seq(Found) /\ <<>> \in Seq(Scrapings)
    OBVIOUS
  <2> QED BY <1>2, <1>3, <2>1, Zenon DEF ListsOK
<1>5. CountsOK /\ PhaseOK /\ NovelOK
  BY <1>2, <1>3 DEF CountsOK, PhaseOK, NovelOK
<1>6. SumOK
  BY <1>2, <1>3, NoneNoted DEF SumOK, ResearchMetaExact, Beside
<1> QED BY <1>1, <1>4, <1>5, <1>6 DEF IInv, ResearchInv

\* Only the two searches list anything, and only a synthesis makes an answer.
LEMMA ListedBy ==
  ASSUME ResearchInv, [Next]_rvars
  PROVE  \/ listed' = listed
         \/ listed = <<>>
         \/ listed' = Merged(listed, second.list)
<1>1. CASE ExtractNext \/ Tick \/ Drop \/ UNCHANGED rvars
  BY <1>1 DEF ExtractNext, Tick, Drop, rvars, resVars
<1>2. CASE StandardStep
  BY <1>2 DEF StandardStep, FromCache, Search, ScrapeStarts, ScrapeEnds, ScrapeYields,
              SocialEnds, Gathered, ResearchInv, PhaseOK
<1>3. CASE DeepStep
  BY <1>3 DEF DeepStep, Search, DeepScrape, Synthesize1, Synthesized1, SecondEnds, Join,
              Synthesized2, DeepAnswers, ResearchInv, PhaseOK
<1> QED BY <1>1, <1>2, <1>3, Zenon DEF Next

\* A completion with text over a page with text made the answer of this pass.
Answered(pass) ==
  /\ Usable(scraped) /\ part'.won
  /\ synth'.by = pass
  /\ ~HasText(synth'.answer) => ~schema

LEMMA SynthBy ==
  ASSUME [Next]_rvars
  PROVE  UNCHANGED synth \/ \E pass \in {"first", "refined"} : Answered(pass)
<1>1. CASE ExtractNext \/ Tick \/ Drop \/ UNCHANGED rvars
  BY <1>1 DEF ExtractNext, Tick, Drop, rvars, resVars
<1>2. CASE StandardStep
  BY <1>2 DEF StandardStep, FromCache, Search, ScrapeStarts, ScrapeEnds, ScrapeYields,
              SocialEnds, Gathered
<1>3. CASE DeepStep
  <2>1. ASSUME NEW pass, NEW to, Synthesis(pass, to)
        PROVE  UNCHANGED synth \/ Answered(pass)
    <3>1. CASE UNCHANGED <<synth, calls>> /\ part' = NoMeta
      BY <3>1
    <3>2. CASE ~(UNCHANGED <<synth, calls>> /\ part' = NoMeta)
      <4>1. PICK text \in Completions :
              /\ Usable(scraped)
              /\ IF HasText(text)
                   THEN \E said \in Parsed(text, schema) :
                           synth' = [by |-> pass, answer |-> said]
                   ELSE UNCHANGED synth
              /\ part' = LegMeta("synth", HasText(text), 1)
        BY <2>1, <3>2, Zenon DEF Synthesis
      <4>2. CASE HasText(text)
        <5>1. part'.won = TRUE
          BY <4>1, <4>2 DEF LegMeta
        <5> QED BY <4>1, <4>2, <5>1 DEF Answered, Parsed, HasText
      <4> QED BY <4>1, <4>2
    <3> QED BY <3>1, <3>2
  <2>2. CASE Synthesized1 \/ Synthesized2
    BY <2>1, <2>2 DEF Synthesized1, Synthesized2
  <2>3. CASE ~(Synthesized1 \/ Synthesized2)
    BY <1>3, <2>3 DEF DeepStep, Search, DeepScrape, Synthesize1, SecondEnds, Join, DeepAnswers
  <2> QED BY <2>2, <2>3
<1> QED BY <1>1, <1>2, <1>3, Zenon DEF Next

\* Where an extract request is, what its lease, its account and its failures are,
\* and of a research that every call is noted in one place: what the four
\* properties of the surface rest on, for any lengths of calls, leases and windows,
\* any urls, lists and bounds.
THEOREM SurfaceInvariant == Spec => []IInv
BY IInvInit, IInvStep, PTL DEF Spec

\* No call of a polled job outlives its lease, however long the job is polled, unless
\* a refresh failed or one call by itself took a lease's whole term but for a pause;
\* for any TTL that KEY_HOLD_TTL_SECS accepts and calls of any length.
THEOREM LeasesOutliveJobs == Spec => []LeaseOutlivesJob
<1>1. IInv => LeaseOutlivesJob
  BY DEF IInv, ExtractInv, LeaseOK
<1> QED BY <1>1, SurfaceInvariant, PTL

\* Every mode of an extract request charges for answers only, surfaces a drained
\* vendor above all and a refusal only where every vendor refused, and stores no
\* blank page.
THEOREM OutcomesAreFair == Spec => []OutcomeIsFair
<1>1. IInv => OutcomeIsFair
  BY ChargesFit, FailuresFit, Zenon DEF IInv, ExtractInv, OutcomeIsFair
<1> QED BY <1>1, SurfaceInvariant, PTL

\* Every call of a research that ended is in its meta once, whatever its legs did
\* and in whatever order they ended.
THEOREM ResearchMetasAreExact == Spec => []ResearchMetaExact
<1>1. IInv => ResearchMetaExact
  BY DEF IInv, ResearchInv, SumOK
<1> QED BY <1>1, SurfaceInvariant, PTL

\* A refinement scrapes no page that a vendor gave back in the first pass, no page
\* is cited twice for its two searches, and the response has an answer once there
\* was one: a completion with text alone replaces it, and one under the client's
\* schema never by a blank.
THEOREM RefinementsAreSafe == Spec => RefinementIsSafe
<1>1. ASSUME IInv, IInv', [Next]_rvars
      PROVE  RefineIsNovel
  <2>1. step' = "refine" => Pages(targets') \cap early' = {}
    BY <1>1 DEF IInv, ResearchInv, NovelOK
  <2>2. listed \in Seq(Urls) /\ second.list \in Seq(Urls)
    BY <1>1 DEF IInv, ResearchInv, ListsOK
  <2>3. ASSUME listed # <<>>, NEW i \in Len(listed) + 1 .. Len(listed'), NEW j \in 1 .. i - 1
        PROVE  PageOf[listed'[i]] # PageOf[listed'[j]]
    <3>1. CASE listed' = listed
      <4>1. Len(listed) \in Nat /\ i \in Len(listed) + 1 .. Len(listed)
        BY <2>2, <2>3, <3>1
      <4> QED BY <4>1
    <3>2. CASE listed' = Merged(listed, second.list)
      BY <2>2, <2>3, <3>2, MergedIs
    <3> QED BY <1>1, <2>3, <3>1, <3>2, ListedBy DEF IInv
  <2> QED BY <2>1, <2>3, Zenon DEF RefineIsNovel
<1>2. ASSUME [Next]_rvars
      PROVE  AnswerIsKept
  BY <1>2, SynthBy DEF AnswerIsKept, Answered
<1>3. IInv /\ IInv' /\ [Next]_rvars => [RefineIsNovel /\ AnswerIsKept]_rvars
  BY <1>1, <1>2
<1> QED BY <1>3, SurfaceInvariant, PTL DEF Spec, RefinementIsSafe
=============================================================================
