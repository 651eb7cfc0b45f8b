------------------------------ MODULE ExtractRun ------------------------------
(***************************************************************************)
(* One extract request, from the boundary to its answer: what the surface   *)
(* admits, the gates that choose a path, the exact-query cache, the chain   *)
(* of vendors of the plain path, the single-attempt paths, and the vendor   *)
(* jobs that are polled under a lease (structured extraction, question      *)
(* extraction, and the Tavily backend of research).                         *)
(*                                                                         *)
(* Time is in units of Tick, the pause between two polls.  Every HTTP call  *)
(* takes from one to Http of them; what is left of the lease and of the     *)
(* poll window is counted down.  The pool is KeyLeases, the steps around    *)
(* one call LeaseLadder; here a lease is granted or refused as they may.    *)
(***************************************************************************)
EXTENDS PageReply, Integers, FiniteSets

CONSTANTS
  Http,         \* the longest HTTP call (HTTP_TIMEOUT)
  TTL,          \* the lease of a key or a node (KEY_HOLD_TTL_SECS: any from 1)
  Window,       \* the poll window: min(request_timeout, 90 s)
  MaxAttempts   \* MAX_ATTEMPTS of try_extract_provider

ASSUME ExtractAssumption ==
  /\ Http \in Nat \ {0}
  /\ Window \in Nat
  /\ MaxAttempts \in Nat \ {0}
  /\ TTL \in Nat \ {0}

VARIABLES
  req,      \* the fields of the request the dispatch looks at
  pc,       \* where the request is
  hop,      \* the vendor of the chain it is at
  attempt,  \* the attempt at that vendor
  errs,     \* the classes of the vendors it has left
  lease,    \* what is left of the lease it holds, 0 when that has lapsed
  left,     \* what is left of the poll window
  row,      \* whether the cache has an answer for this request
  answer,   \* the class of the answer, "none" while there is none
  page,     \* what the vendor's answer has in it
  fault,    \* history: how each vendor of the chain failed
  answered, \* history: a vendor answered a call with what was asked for
  charged,  \* history: successes reported on a key
  missed,   \* history: a refresh of the lease failed
  lapsed,   \* history: the lease ran out under a call
  slow      \* history: a call took what a lease lasts, but for a pause

reqHistory == <<fault, answered, charged, missed, lapsed, slow>>
reqVars    == <<req, pc, hop, attempt, errs, lease, left, row, answer, page, reqHistory>>

-----------------------------------------------------------------------------
(* The dispatch.                                                            *)

Providers == {"unset", "tavily", "exa", "firecrawl", "unknown"}
Formats   == {"unset", "page", "question", "highlights", "unknown"}

\* "page" is markdown or text; urls: the list is left out, empty, or more than
\* TAVILY_EXTRACT_MAX_URLS ("many"); fields: any of prompt, schema and
\* output_schema; a "private" url is one that validate_extract_url refuses.
\* backend: a research request that names the Tavily backend.
ExtractRequests ==
  [urls : {"none", "empty", "some", "many"}, url : {"blank", "private", "public"},
   format : Formats, question : Texts, fields : BOOLEAN, provider : Providers,
   backend : {FALSE}]

BackendRequest ==
  [urls |-> "none", url |-> "blank", format |-> "unset", question |-> "none",
   fields |-> FALSE, provider |-> "unset", backend |-> TRUE]

IsBatch(r) == r.urls \in {"some", "many"}

\* What the boundary of REST lets in, and that of MCP.
RestAdmits(r) == (r.url # "blank" \/ IsBatch(r)) /\ r.provider # "unknown"

McpAdmits(r) ==
  /\ r.url # "blank" \/ IsBatch(r)
  /\ r.provider # "unknown" /\ r.format # "unknown"
  /\ r.question # "blank" /\ r.urls # "empty"

Admits(surface, r) ==
  r.backend \/ (IF surface = "rest" THEN RestAdmits(r) ELSE McpAdmits(r))

Modes == {"refused", "batch", "question", "highlights", "structured", "plain", "research"}

Only(r, v) == r.provider \in {"unset", v} /\ r.url = "public"

\* The gates of the paths.
BatchGate(r) ==
  r.format \notin {"question", "highlights"} /\ r.provider # "firecrawl"

QuestionGate(r) == Only(r, "firecrawl") /\ HasText(r.question)

HighlightsGate(r) == Only(r, "exa")

StructuredGate(r) == Only(r, "firecrawl")

PlainGate(r) == r.url = "public" /\ r.provider # "unknown"

\* The path a request takes, "refused" where one of its gates stops it.
Mode(r) ==
  LET path(gate, name) == IF gate THEN name ELSE "refused"
  IN CASE r.backend -> "research"
       [] ~r.backend /\ IsBatch(r) -> path(BatchGate(r), "batch")
       [] ~r.backend /\ ~IsBatch(r) /\ (r.url = "blank" \/ r.format = "unknown") -> "refused"
       [] OTHER ->
            CASE r.format = "question" -> path(QuestionGate(r), "question")
              [] r.format = "highlights" -> path(HighlightsGate(r), "highlights")
              [] r.format \in {"unset", "page"} /\ r.fields ->
                   path(StructuredGate(r), "structured")
              [] OTHER -> path(PlainGate(r), "plain")

mode == Mode(req)

\* The vendors asked, in order.
PlainChain(p) ==
  CASE p = "tavily" -> <<"tavily", "firecrawl">>
    [] p = "exa"    -> <<"exa", "firecrawl", "tavily">>
    [] OTHER        -> <<"firecrawl", "tavily">>

Chain ==
  CASE mode = "plain"      -> PlainChain(req.provider)
    [] mode = "batch"      -> <<IF req.provider = "exa" THEN "exa" ELSE "tavily">>
    [] mode = "highlights" -> <<"exa">>
    [] mode = "research"   -> <<"tavily">>
    [] OTHER               -> <<"firecrawl">>

Polled == mode \in {"structured", "question", "research"}

-----------------------------------------------------------------------------
(* How calls end.                                                           *)

\* "late" is an upstream 408.
Faults == {"refused", "failed", "late", "exhausted", "paid", "auth", "banned",
           "retryable"}

\* The report a fault makes on the key.  Only the plain path takes a ban at its
\* word: the bodies of the others may quote the page.
Verdict(f) ==
  CASE f = "banned" /\ mode # "plain" -> "auth"
    [] f \in {"refused", "late"} -> "failed"
    [] OTHER -> f

\* The class the caller would be given for it, by path.
PlainClass(f) ==
  CASE f = "paid" -> "drained" [] f = "refused" -> "refused" [] OTHER -> "outage"

BatchClass(f) ==
  CASE f = "refused" -> "refused" [] f = "paid" -> "drained" [] OTHER -> "outage"

JobClass(f) == IF f = "paid" THEN "drained" ELSE "outage"

\* A 408 of the vendor is the same to the caller as our own deadline.
BackendClass(f) ==
  CASE f = "late" -> "timeout" [] f = "paid" -> "drained" [] OTHER -> "outage"

Class(f) ==
  CASE mode = "plain"    -> PlainClass(f)
    [] mode = "batch"    -> BatchClass(f)
    [] mode = "research" -> BackendClass(f)
    [] OTHER             -> JobClass(f)

Classes == {"refused", "drained", "outage", "timeout"}

\* Mutant: the last provider-side failure wins, as in the search chain once.
SurfacedLast(es) ==
  CASE "outage" \in es -> "outage"
    [] "outage" \notin es /\ "drained" \in es -> "drained"
    [] es \cap {"drained", "outage"} = {} /\ "timeout" \in es -> "timeout"
    [] OTHER            -> "refused"

\* The error of a chain that is exhausted.
Surfaced(es) ==
  CASE "drained" \in es -> "drained"
    [] "drained" \notin es /\ "outage" \in es -> "outage"
    [] es \cap {"drained", "outage"} = {} /\ "timeout" \in es -> "timeout"
    [] OTHER            -> "refused"

Stages == {"received", "dispatch", "acquire", "call", "status", "put", "stored", "done"}
Answers == {"none", "served"} \cup Classes \cup {"cut"}

ExtractTypeOK ==
  /\ req \in ExtractRequests \cup {BackendRequest}
  /\ pc \in Stages
  /\ hop \in 1..3 /\ attempt \in 1..MaxAttempts
  /\ pc \notin {"received", "dispatch", "done"} => hop <= Len(Chain)
  /\ errs \subseteq Classes
  /\ lease \in 0..TTL /\ left \in 0..Window
  /\ row \in BOOLEAN
  /\ answer \in Answers /\ page \in Texts
  /\ fault \in [1..3 -> Classes \cup {"none"}]
  /\ answered \in BOOLEAN /\ charged \in Nat
  /\ {missed, lapsed, slow} \subseteq BOOLEAN

ExtractStart(requests) ==
  /\ req \in requests
  /\ pc = "received"
  /\ hop = 1 /\ attempt = 1 /\ errs = {}
  /\ lease = 0 /\ left = 0
  /\ row \in BOOLEAN /\ (Mode(req) = "refused" => ~row)
  /\ answer = "none" /\ page = "none"
  /\ fault = [i \in 1..3 |-> "none"]
  /\ answered = FALSE /\ charged = 0 /\ missed = FALSE /\ lapsed = FALSE
  /\ slow = FALSE

-----------------------------------------------------------------------------
(* The steps.                                                               *)

\* The boundary of the surface the request came in by.
Receive ==
  /\ answer = "none" /\ pc = "received"
  /\ \E surface \in {"rest", "mcp"} :
       \/ /\ Admits(surface, req)
          /\ pc' = "dispatch" /\ UNCHANGED answer
       \/ /\ ~Admits(surface, req)
          /\ answer' = "refused" /\ pc' = "done"
  /\ UNCHANGED <<req, hop, attempt, errs, lease, left, row, page, reqHistory>>

\* The gates, then the cache: a row answers without a lease or a call.
Dispatch ==
  /\ answer = "none" /\ pc = "dispatch"
  /\ \/ /\ mode = "refused"
        /\ answer' = "refused" /\ pc' = "done"
     \/ /\ mode # "refused" /\ row
        /\ answer' = "served" /\ pc' = "done"
     \/ /\ mode # "refused" /\ ~row
        /\ pc' = "acquire" /\ UNCHANGED answer
  /\ UNCHANGED <<req, hop, attempt, errs, lease, left, row, page, reqHistory>>

\* A key, and a node where one is needed.
Granted ==
  /\ answer = "none" /\ pc = "acquire"
  /\ pc' = "call" /\ lease' = TTL
  /\ UNCHANGED <<req, hop, attempt, errs, left, row, answer, page, reqHistory>>

\* The request leaves its vendor with an error of this class: the next vendor of
\* the chain, or the answer.
Leave(class) ==
  /\ errs' = errs \cup {class}
  /\ fault' = [fault EXCEPT ![hop] = class]
  /\ \/ /\ hop < Len(Chain)
        /\ pc' = "acquire" /\ hop' = hop + 1 /\ attempt' = 1
        /\ UNCHANGED answer
     \/ /\ hop = Len(Chain)
        /\ pc' = "done" /\ answer' = Surfaced(errs')
        /\ UNCHANGED <<hop, attempt>>

NotGranted ==
  /\ answer = "none" /\ pc = "acquire"
  /\ Leave("outage")
  /\ UNCHANGED <<req, lease, left, row, page, answered, charged, missed, lapsed, slow>>

\* d units pass under a call.
Spend(t, d) == IF d < t THEN t - d ELSE 0

\* The lease after the call, and after the refresh that follows it; a refresh is
\* best effort, and one of a lapsed lease comes too late.
Refreshed(d, works) ==
  IF works /\ d < lease THEN TTL ELSE Spend(lease, d)

\* A call of d units ends under the lease, or after it has run out.
Ran(d) ==
  /\ lapsed' = (lapsed \/ d >= lease)
  /\ slow' = (slow \/ d + 1 >= TTL)

\* The call that is running has failed for good or is tried again.
Failed(f, d) ==
  /\ Ran(d)
  /\ lease' = 0
  /\ \/ /\ mode = "plain" /\ f \in {"retryable", "banned", "auth"}
        /\ attempt < MaxAttempts
        /\ attempt' = attempt + 1 /\ pc' = "acquire"
        /\ UNCHANGED <<hop, errs, fault, answer>>
     \/ /\ ~(/\ mode = "plain" /\ f \in {"retryable", "banned", "auth"}
             /\ attempt < MaxAttempts)
        /\ Leave(Class(f))
  /\ UNCHANGED <<req, left, row, page, answered, charged, missed>>

vendor == Chain[hop]

\* The client refuses a list that is too long, and a format it does not know,
\* before anything is sent.
ClientRefuses ==
  mode = "batch" /\ vendor = "tavily" /\ (req.urls = "many" \/ req.format = "unknown")

CallRefused ==
  /\ answer = "none" /\ pc = "call" /\ ClientRefuses
  /\ Failed("refused", 0)

CallFails ==
  /\ answer = "none" /\ pc \in {"call", "status"} /\ ~ClientRefuses
  /\ \E f \in Faults \ {"refused"}, d \in 1..Http : Failed(f, d)

\* What is in a reply to a call that is not polled.
TextIn(rows) ==
  CASE mode = "plain"      -> PageText(vendor, rows)
    [] mode = "highlights" -> Highlights(rows)
    [] mode = "batch"      -> BatchText(vendor, rows)

\* The vendor answers, and has no text for the page: Unextractable.
CallEmpty ==
  /\ answer = "none" /\ pc = "call" /\ mode \in {"plain", "highlights"}
  /\ \E rows \in PageReplies : ~HasText(TextIn(rows))
  /\ \E d \in 1..Http : Failed("failed", d)

\* A vendor that is not polled answers, or the job it was asked for is there: the
\* key is charged, except that the research path stores its answer first.
Delivered(d, text) ==
  /\ Ran(d)
  /\ lease' = Spend(lease, d)
  /\ answered' = TRUE /\ page' = text
  /\ pc' = "put"
  /\ charged' = IF mode = "research" THEN charged ELSE charged + 1
  /\ UNCHANGED <<req, hop, attempt, errs, left, row, answer, fault, missed>>

\* A batch is an answer even if none of its rows has text.
CallAnswers ==
  /\ answer = "none" /\ pc = "call" /\ ~Polled /\ ~ClientRefuses
  /\ \E d \in 1..Http :
       \E rows \in IF mode = "batch" THEN BatchReplies ELSE PageReplies :
         /\ mode # "batch" => HasText(TextIn(rows))
         /\ Delivered(d, TextIn(rows))

\* Whether there is a job, from the id in the reply.
Starts(id) == IF mode = "research" THEN ResearchStarts(id) ELSE StructuredStarts(id)

\* A 2xx without a job is an upstream error to the ladder.
NoJob ==
  /\ answer = "none" /\ pc = "call" /\ Polled
  /\ \E id \in Texts, d \in 1..Http : ~Starts(id) /\ Failed("failed", d)

\* Mutant: nothing between the start of the job and its first status call.
JobStartsUnrefreshed ==
  /\ answer = "none" /\ pc = "call" /\ Polled
  /\ \E d \in 1..Http :
       /\ Ran(d)
       /\ lease' = Spend(lease, d)
  /\ pc' = "status" /\ left' = Window
  /\ UNCHANGED <<req, hop, attempt, errs, row, answer, page, fault, answered, charged, missed>>

\* The job is started, the holds are refreshed and the window opens.
JobStarts ==
  /\ answer = "none" /\ pc = "call" /\ Polled
  /\ \E id \in Texts : Starts(id)
  /\ \E d \in 1..Http, works \in BOOLEAN :
       /\ Ran(d)
       /\ lease' = Refreshed(d, works)
       /\ missed' = (missed \/ ~works)
  /\ pc' = "status" /\ left' = Window
  /\ UNCHANGED <<req, hop, attempt, errs, row, answer, page, fault, answered, charged>>

\* Where the job stands, as its client reads a reply.
Standings ==
  {IF mode = "research" THEN ResearchStatus(r) ELSE StructuredStatus(r) :
     r \in StatusReplies}

\* Only a question needs something in the answer.
Satisfies(st) == st.completed /\ (mode = "question" => st.body # "none")

JobCompletes ==
  /\ answer = "none" /\ pc = "status"
  /\ \E st \in Standings, d \in 1..Http : Satisfies(st) /\ Delivered(d, st.body)

\* Mutant: a failed job of the structured path is stored like a completed one.
JobFailsStored ==
  /\ answer = "none" /\ pc = "status"
  /\ IF mode = "structured"
     THEN /\ pc' = "put" /\ charged' = charged + 1
          /\ UNCHANGED <<hop, attempt, errs, fault, answer>>
     ELSE Leave("outage") /\ UNCHANGED charged
  /\ \E d \in 1..Http : Ran(d)
  /\ lease' = 0
  /\ UNCHANGED <<req, left, row, page, answered, missed>>

\* The vendor says that the job failed (or, for a question, that it is completed
\* with no data).  To the structured path that is a call that worked: the key is
\* charged.
JobFails ==
  /\ answer = "none" /\ pc = "status"
  /\ \E st \in Standings : ~Satisfies(st) /\ (st.completed \/ st.failed)
  /\ charged' = IF mode = "structured" THEN charged + 1 ELSE charged
  /\ Leave("outage")
  /\ \E d \in 1..Http : Ran(d)
  /\ lease' = 0
  /\ UNCHANGED <<req, left, row, page, answered, missed>>

\* Mutant: the window opens anew with every poll.
LeftReopened(d) == Spend(Window, d)

\* What a status call leaves of the window.
LeftAfter(d) == Spend(left, d)

\* Still processing: the holds are refreshed, then the window has closed or the
\* poll pauses for one unit.  Our own deadline, too, charges the structured path.
JobRuns ==
  /\ answer = "none" /\ pc = "status"
  /\ \E st \in Standings : ~st.completed /\ ~st.failed
  /\ \E d \in 1..Http, works \in BOOLEAN :
       /\ missed' = (missed \/ ~works)
       /\ \/ /\ LeftAfter(d) > 0
             /\ lease' = Spend(Refreshed(d, works), 1)
             /\ left' = Spend(LeftAfter(d), 1)
             /\ lapsed' = (lapsed \/ lease' = 0)
             /\ slow' = (slow \/ d + 1 >= TTL)
             /\ UNCHANGED <<pc, hop, attempt, errs, fault, answer, charged>>
          \/ /\ LeftAfter(d) = 0
             /\ Ran(d)
             /\ lease' = 0 /\ left' = 0
             /\ charged' = IF mode = "structured" THEN charged + 1 ELSE charged
             /\ Leave("timeout")
  /\ UNCHANGED <<req, row, page, answered>>

\* The answer is stored, where the cache takes it.
Put ==
  /\ answer = "none" /\ pc = "put"
  /\ \E works \in BOOLEAN : row' = (row \/ works)
  /\ pc' = "stored"
  /\ UNCHANGED <<req, hop, attempt, errs, lease, left, answer, page, reqHistory>>

Serve ==
  /\ answer = "none" /\ pc = "stored"
  /\ charged' = IF mode = "research" THEN charged + 1 ELSE charged
  /\ pc' = "done" /\ answer' = "served" /\ lease' = 0
  /\ UNCHANGED <<req, hop, attempt, errs, left, row, page, fault, answered, missed, lapsed, slow>>

\* The deadline of the handler, or a client that goes away, drops the request.
Cut ==
  /\ answer = "none"
  /\ answer' = "cut" /\ pc' = "done" /\ lease' = 0
  /\ UNCHANGED <<req, hop, attempt, errs, left, row, page, reqHistory>>

ExtractStep ==
  \/ Receive
  \/ Dispatch
  \/ Granted
  \/ NotGranted
  \/ CallRefused
  \/ CallFails
  \/ CallEmpty
  \/ CallAnswers
  \/ NoJob
  \/ JobStarts
  \/ JobCompletes
  \/ JobFails
  \/ JobRuns
  \/ Put
  \/ Serve

ExtractSpec ==
  /\ ExtractStart(ExtractRequests \cup {BackendRequest})
  /\ [][ExtractStep \/ Cut]_reqVars

-----------------------------------------------------------------------------
(* Properties.                                                              *)

\* However often a job is polled, no call of it outlives the lease it runs on,
\* unless a refresh of the lease failed or one call took, with the pause before it,
\* as long as a lease lasts, which a small KEY_HOLD_TTL_SECS makes possible: the
\* sweeper would give the key away, and the job's late report would meet a newer
\* holder's lease.
LeaseOutlivesJob == lapsed => missed \/ slow

\* The key is charged once for an answer and never for a stored one, and a
\* request that was told of a failure has charged no key, save the structured
\* path, whose job the vendor did run.  Nothing but an answer is ever stored.
ChargedForAnswers ==
  /\ answer = "served" => charged = (IF answered THEN 1 ELSE 0) /\ (answered \/ row)
  /\ answer \in Classes => charged <= (IF mode = "structured" THEN 1 ELSE 0)
  /\ pc \in {"put", "stored"} => answered

\* The same precedence as in a search: a drained vendor is never hidden behind
\* another vendor's failure, and the caller is told that the request is wrong only
\* when a gate stopped it or every vendor asked refused it.
FailureIsFair ==
  answer \in Classes =>
    /\ answer = "drained" <=> \E i \in 1..3 : fault[i] = "drained"
    /\ answer = "refused" =>
         \/ mode = "refused" \/ ~Admits("mcp", req)
         \/ \A i \in 1..Len(Chain) : fault[i] = "refused"

\* No blank page is served as one, nor stored for those who ask next: the vendor
\* that had none has been left for the next one.  A question's answer is what the
\* job carried.  (A batch, a structured job and a research may come back with
\* nothing, and are stored so.)
NoBlankIsStored ==
  page # "text" /\ pc \in {"put", "stored"} =>
    mode \in {"batch", "structured", "research"} \/ (mode = "question" /\ page = "blank")

\* What the outcome of an extraction says is fair to the caller and to the
\* account: charges follow answers that have something in them, and blame follows
\* the vendors' verdicts.
OutcomeIsFair == ChargedForAnswers /\ FailureIsFair /\ NoBlankIsStored
=============================================================================
