# Serpotter in TLA+

Serpotter is a gateway in front of four search vendors (tavily, firecrawl, exa,
xai). A request is turned into *legs*; every leg leases one API key from a pool
that all requests share, usually leases an outbound proxy node as well, calls the
vendor, and ends both leases with a verdict that may disable, cool down, drain or
delete the key. All shared state is in one SQLite database and in a few
process-local maps. This directory holds the specifications of that state, the
TLC configurations that check them and the proofs TLAPS checks.

## Inventory

| Component | State it keeps | Operations | Talks to | Correct when |
|---|---|---|---|---|
| key rows (`serpotter-db/src/keys`) | `api_keys`: active, consecutive_fails, credits_remaining, disabled_reason, cooldown_until | five health verdicts, admin writes, re-enable cron | key pool, admin, cron, probe | a row in rotation carries no reason and is below the threshold; a vendor suspension survives everything but the operator |
| key leases (`acquire_report.rs`) | `api_key_leases` by token, `api_keys.inflight` | acquire, release, report, refresh, reclaim, zero at boot, delete with the row | key pool | the counter equals the lease rows, no key exceeds the cap, a late finish harms nobody |
| key pool (`serpotter-keypool`) | a mutex, a `Notify`, tunables | acquire with a deadline, release, report\_\*, refresh, revoke | leases, lease ladder | no lost wakeup, no wrong timeout, one transition counted once |
| hold guards (`hold.rs`) | `disarmed` | finish\_\*, drop spawns a release | pools | every lease is ended, at most once with effect |
| node pool (`serpotter-outbound`, `nodes.rs`) | `nodes`, `node_leases` | acquire least-inflight, success, failure, release, refresh | ladder, probe, cron | the same for nodes; a disabled node stays out for its window and comes back |
| lease ladder (`lease.rs`) | two holds of one attempt | `with_key_proxy` | both pools, providers, meta | both holds end on every path; no leg dials bare; blame lands on the right party |
| search execution (`search/`) | plan, legs, attempt number, errors so far | attempts, fallback chain, hybrid and blend legs, the reading of a vendor's text | ladder, meta, deadline | a drain outranks an outage outranks a refusal; a key is given up only for a text about its account; every request is answered |
| attempt meta (`meta.rs`) | one `ExecMeta` per vendor's run, one snapshot slot per request | note, absorb, observe | ladder, legs, deadline, usage events | every call counted once, billed to a key that answered |
| extract and research (`extract/`) | the job being polled, scraped pages, the synthesis | plain, batch, question, highlights, structured; standard and deep research | ladder, cache, search | a job's lease outlives its polls; the class of a failure is fair; a refinement leaves an answer where there was one |
| routing and ranking (`serpotter-core`) | none | the routing table, rank fusion, near-copy suppression | search | the client's knobs are honoured; a fused answer neither doubles nor loses an item |
| request validation and types (`validation.rs`, `types.rs`, `params.rs`) | none | refusals and the canonical form | both surfaces, cache, routing | what is accepted means what was asked |
| provider clients (`serpotter-providers`) | one HTTP client per proxy | one dialect per vendor | ladder | what a vendor is sent is what the client meant; a knob it cannot say is refused, or is one of a known list that is left out |
| query cache (`cache.rs`) | `query_cache` | get, put, purge | search, extract, research | a row is served only to a request that means the same, and no later than its TTL allows |
| request events and usage (`events.rs`, `metrics.rs`) | ring, error window, usage channel | emit, drain, alert | all handlers | each delta is stored or counted as dropped; the alert sees the recent minutes |
| MCP surface (`mcp/`) | permit buckets, session bindings | admit, bind, forget, race of deadline and cancel | product, events | the cap per token; one end per call |
| admin sessions (`admin/session.rs`, `admin_auth.rs`) | failure window, users, sessions | bootstrap, login, logout, change of password, revoke | admin pages | a change of password ends the old sessions; a lockout ends only by age or success |
| key maintenance (`cron.rs`, `credit_sync.rs`, `probe.rs`, `admin/keys.rs`) | snapshots of rows | probe, sync, toggle, re-enable | rows, node pool | one probe a day per account; no key starves in the sync |
| HTTP handlers and admin pages | none of their own | parse, validate, deadline, event | product | covered with the parts they drive |
| boot and shutdown (`main.rs`) | none | zero the holds, abort the loops, stop the writer | pools, events | restarts leak nothing |
| settings, statistics and database plumbing; web console | none | set-up and reads | | not modelled |

What is hard here: legs of different requests overlap on one key; leases expire
under calls that are still running; requests are cancelled at any await and the
guards release in the background; the process restarts with leases in the table;
operators and cron jobs write the same rows by id from what they read earlier;
waiting is a hand-made protocol of a mutex, a notification and a deadline; the end
of a request is a race; a request changes its spelling four times before a vendor
sees it. `PROJECT.json` lists each hazard at its line.

## Modules

An arrow reads "is extended by".

| Module | Models |
|---|---|
| `KeyRows` -> `KeyLeases` | one row of `api_keys` as a record and every statement that writes it, as pure operators; the two tables, the calls that hold leases, expiry, cancellation, restart, operator and cron |
| `KeySlots` | abstract: tickets on keys, issued once, at most `Cap` per key, never moved; `KeyLeases` implements it |
| `KeyAcquire` | `KeyPool::acquire`: the mutex, the `Notify`, the deadline, the final recheck |
| `NodePool` -> `LeaseLadder` | the tables `nodes` and `node_leases`, the operator, the cron, boot and the clock; over them `with_key_proxy`, one attempt with cancellation at every await, which implements `PoolSpec` |
| `VendorReply` -> `SearchRun` | what the code makes of a vendor's status and text; `search_inner` from its plan on: the legs, chains, attempts, the class of the answer, the execution meta and its snapshot, the deadline |
| `SearchRequest` -> `SearchRoute` -> `VendorRequest` -> `AnswerFusion` -> `QueryCache` | a request as it is spelled, its refusals and canonical form; the routing table and the plan; the legs and each client's dialect; rank fusion; and over them the requests in flight with the response cache and the clock |
| `PageReply` -> `ExtractRun` -> `ResearchRun` | what the clients make of a reply to a call that extracts; one extract request or polled job; a research request over those |
| `RequestEvents` -> `McpAdmission` -> `RequestLife` | the ring, the error window and the usage writer; the permits of the MCP tools; the life of a request from the transport to its event, and shutdown |
| `Picks` -> `ResearchRun`, `AdminAccess`, `RequestEvents`, `SearchRequest`, `AnswerFusion` | what `filter` and `retain` leave of a list, what its numbers sum up to, and what `flat_map` makes of lists, without a recursive operator |
| `AdminAccess` | the failure window, users and sessions, statement by statement |
| `KeyMaintenance` | probe, credit sync, toggle, re-enable pass and operator between each other's steps |
| `MCKeyLeases`, `MCLeaseLadder`, `MCSearchRun`, `MCQueryCache`, `MCResearchRun`, `MCRequestLife`, `MCAdminAccess` | the constants and symmetry sets of the runs |
| `KeyPool_proofs`, `LeaseLadder_proofs`, `SearchRun_proofs`, `ResearchRun_proofs`, `QueryCache_proofs`, `RequestLife_proofs`, `AdminPlane_proofs`, `Picks_proofs` | the theorems |

How they fit: `LeaseLadder` is what happens inside one `Granted`/`CallAnswers` or
`CallFails` of `SearchRun` and one attempt of `ExtractRun`; a search of
`ResearchRun` is one run of `SearchRun`, and a dial of `QueryCache` another;
`RequestLife` has the whole product call as one step that gets ready. The
`LegReports` of `KeyMaintenance` are the `Report`s of `KeyLeases`.

### KeyRows and KeyLeases against the code

`present`, `row`, `inflight` are `api_keys`; `lease` and `nextToken` are
`api_key_leases` with its AUTOINCREMENT token; `call` is what a `KeyHold` carries
(token, key id, the secret it was given) with `pc` "using" while armed and
"dropped" once `Drop` has spawned the release. `counted` is the transition counter
of the metrics. One action is one SQLite transaction; all of them begin with a
write, so SQLite serialises them.

`Acquire` / `AcquireRefused` are `acquire_api_key_shared` whole: reclaim, reconcile,
pick by the ORDER BY (`Tier`, `Score`, `Precedes`), take the slot, insert the
lease. `AcquireAbandoned` is the same transaction with the caller cancelled before
it got the lease. `Release`, `Report`, `Ban`, `Refresh` are the finishes; each may
end disarmed or, cancelled after its transaction, "dropped" (`Settle`), and
`DropRelease` is the spawned release, which may fail. `Tick` moves
`datetime('now')` for all leases. `Restart` is boot, with `zero_all_key_inflight`
done or failed. `InsertKey` gives out max(id)+1, which is how SQLite numbers a
table without AUTOINCREMENT, so ids of deleted rows come back; a second secret is what the row that gets one holds.

Abstracted: `last_used_at` is NULL or not (`used`), so the order among used rows of
equal score is left open; `cooldown_until` is a Boolean that may end at any time;
the age test of the cron is left open; secrets are numbers that are never entered
twice (so a rotation to the same secret and the re-entry of an old one are left
out); `lease_until` on `api_keys`, `credits_limit`, `usage_synced_at`,
`last_probe_at` and fingerprints are left out; a bulk insert is several inserts.
A token is not reissued after its bound, `MaxToken`, which only stops acquires.

### KeyAcquire against the code

A caller goes through the awaits of `acquire`: "enabled" (future registered),
"trying" (mutex held, transaction), "counting" (`count_active_keys`), "unlocked",
"asleep" (the select), and "final..." for `try_acquire_once`. Between any two of
them other callers run. A finish is two steps, the transaction (`FinishTx`,
`BanTx`) and the bell (`Announce`). `Abort` cancels a waiting call or fails its
statement; the mutex guard is dropped with it. Expiry, enabling and disabling ring
nobody, as in the code. `Notify` is external and modelled by tokio's promise: an
enabled future is completed by every later `notify_waiters` and by no earlier one.
One service is enough: the mutex and the `Notify` are shared by all services, and
a bell rung for another service only adds spurious wakeups, which `Toggle` and
repeated finishes give as well. `excused` and `sawFull` are history variables.

### NodePool against the code

`present`, `node` and `inflight` are `nodes`; `lease` and `nextToken` are
`node_leases`. `Health` keeps enabled, consecutive_fails, whether last_error is
set, and the age of disabled_at up to the re-enable window; that stamp is a column
of its own, and nothing but the statements ties it to `enabled`. `quiet` is no
column: it remembers how long ago a failure was last reported. `PickTx` and
`NonePicked` are the two outcomes of `acquire_outbound_node_with_ttl`, one
transaction each; `EndTx` is `release_node_token` with its three kinds of health
note; `RefreshTx` stamps a lease that is still in the table, expired or not.
`Tick` ages leases and stamps together: they share `datetime('now')`.
`SetEnabled` is the UPDATE of `toggle_node`, with either value, since the value is
read in an earlier statement. Initially the tables are empty, as on a new
database; a node that was disabled before migration 14 added disabled_at has no
stamp and is outside the model.

### LeaseLadder against the code

A leg's `pc` names where `with_key_proxy` is: "keyless" and "nodeless" the two
acquires, "build" the client, "calling" the vendor, "endKey", "endNode" the two
finishes, "note" the rest, "bail" the release before an early return. `key` and
`node` are the armed holds. `end` is the `ReportMode` of the call, with a tunnel
error told apart from the other retryable ones, because only it blames the node;
"unbuilt" is a client that cannot be built. `Cancel` drops the future at any
await; the "...Abandoned" and "...Cut" actions drop it between the commit of a
statement and its return, where the caller knows nothing of it. `drops` are the
releases that dropped guards have spawned, `orphans` the leases that nobody but
their expiry ends. On the key side only the tokens of the table are kept: what a
verdict does to the row is in `KeyLeases`. A restart clears `drops`, since spawned
tasks die with the process, and zeroes the tables or fails to.

### VendorReply and SearchRun against the code

`plan` is what `execution_plan` returned; Verify, which the code keeps in the
strategy, is a plan kind of its own. Legs 1 to 3 are the futures that
`execute_hybrid` and `execute_blend` join; a single or deep plan has one. A leg's
`hop` is its place in the chain of `run_chain`, `attempt` the loop variable of
`run_provider`, `own` the `ExecMeta` of that vendor's run, `kept` what has been
absorbed from the vendors left behind. An attempt is two steps: `Granted`, which
ends where the snapshot is published before the call (`sink`), and `CallAnswers` or
`CallFails`, which end where `with_key_proxy` publishes the finished attempt. What
happens inside them is `LeaseLadder`. `NotGranted` is every way an acquire fails:
no key, all busy, no node, a database error; none of them is tried again. `Leave` is
the error arm of `run_chain`, and for the legs that are a bare `run_provider`, or
the deep call, a chain of one. `Answer` joins the legs, absorbs their metas in
order and chooses the class as `leg_aggregate_err` does. `Deadline` is the Elapsed
arm of `run_with_deadline`. A plan of one leg serves an empty result, a merged plan
needs items from one of its legs.

Which key is granted is left open: any key of the vendor that this request has not
seen disabled, and none at any time. This covers what other requests do to the
pool. `keyState` is only this request's own view, what its reports did: "spend",
"zeroed" by a 402 or a 429, "out" by an authentication failure, "banned". `cause` is
what the vendor meant by the reply that did it.

`VendorReply` renders a reply of 401 or 403 as a sequence of classified words
(subject, state, filler, negation, other) from a clause whose meaning is known by
construction; the matchers of `banned.rs` run over the words, so that `AccountsKept`
compares what the code decided with what the vendor meant. The misreadings that
the matcher makes by its design (`Misread`: suppositions, a denial behind the
state, the vendor's own wording behind a denial) are part of the statement.

Of the error classes those that the code treats alike when it combines legs
(`Provider`, `NoHealthyKey`, `KeyBusy`, `NoHealthyNode`, `Db`) are one, "outage", so
which of several outages is named is not modelled, nor are messages, progress
events, the pause between attempts, usage sums and leg_errors.

### SearchRequest to QueryCache against the code

A knob is `[how, word]`: absent, blank, exact, in other case or separators
("folded"), or with its separators lost ("joined"); a list entry is `[how, names]`.
`SearchRequest` has the verdict of the boundary on every knob and what
`SearchQuery::canonicalize` and `research_inner` leave of it. `SearchRoute` is
`route_search` with its gates numbered as in the source. `VendorRequest` is the legs
of a plan and, per client, what it refuses before any connection and what its
request says. `AnswerFusion` is `reciprocal_rank_fusion`, the near-copy suppression
with texts reduced to classes, the cut, and the choice of the answer text. A spot
`<<list, place>>` is an ordinal of the code, and an entry of its map is the first
spot of a key with the sum of the shares and the richest item. Shares are exact:
`Places` bounds the rows of a list and `Scale` is a common multiple of the
denominators up to there, both arbitrary in the proofs. The code's are doubles, so
that two entries whose shares are equal may come in the other order there.

`QueryCache` runs requests through these. A call comes in over one of two
boundaries, "rest" or "mcp" (which refuses `chunks_per_source` zero); its `ask` is
`[surface, of]` with surface "search", "web" (the web leg of a research) or
"research". `Start` is the canonical form and the lookup, `Hit` serves a row,
`Miss` dials; `DialAnswers` and `DialFails` end the search, `Store` is `cache_put`,
`LegDone` lets a research go on from its web leg, `Refine` is the second pass of
deep research, which has no row of its own. `Drop` cuts a call anywhere, statements
of the cache may fail, `Purge` and `Tick` move the table and the clock. A row is
keyed by the canonical text; that the digest of it is injective is assumed.

### PageReply, ExtractRun and ResearchRun against the code

`ExtractRun` is one request of a mode ("plain", "batch", "question", "highlights",
"structured", or "research" for the Tavily backend). Time is in units of a poll's
pause: `lease` and `left` count down what remains of the lease and of the poll
window. `JobStarts`, `JobRuns`, `JobFails` and `JobCompletes` are the submission and
the three readings of a status; `Refreshed` re-stamps key and node between polls. The
order of charging and storing is the code's: a research job is charged before its
row is stored. `lapsed`, `missed` and `slow` are history: the lease ran out under a
call, a refresh failed, one call took, with the pause before it, all that a lease
lasts. The last can happen because KEY_HOLD_TTL_SECS may be as small as a second.

`ResearchRun` is a research request: `FromCache`, `Search`, the scrapes
(`ScrapeStarts`, `ScrapeEnds`, and `ScrapeYields` for the ordered buffer), the
social leg beside them, `Gathered`; in the deep pipeline `DeepScrape`,
`Synthesize1` with the second search running beside it (`SecondEnds`, `Join`),
`Synthesized2`, `DeepAnswers`. Of the clock the code asks whether there is time to
refine and to scrape, so it reads "ample", "short" or "late". A page that was
scraped may come back under another url. `Parsed` is `synthesis_from_text`: under the
client's own schema (`schema`) a completion is the answer as it stands; under the
program's it may be an object whose `answer` is blank.

### RequestEvents, McpAdmission and RequestLife against the code

`RequestLife` takes a REST request or a tool call from `Arrive` (rejected token,
bad body, health, product call) over `Find` and `Try` (the bucket is cloned under
the map's lock, the permit is tried after it), `Prepare`, `Frame` and `Deliver` (a
progress frame is queued and taken by the transport), `Poll` (the biased select:
the ready answer, then the cancellation, then the deadline), `Flushed`, to `Emit*`:
the ring, the error window and the usage channel are three critical sections, and
the minute is read after the first; from there on a request is known by its
status alone. `Disconnect` drops a REST handler at an await. `Shutdown` stops the writer after the server has drained or the drain
cap has passed; `WriterTakes` to `WriterGone` are the writer's loop and its final
drain with `try_recv`. `Alert` reads the error window, which prunes it, and `Tick` moves the
clock. `newest` and `ahead` are history: the newest minute counted so far, and what
it was when a request was counted. A behaviour has as many calls, short requests
(refused at the door, or health), minutes and shutdowns as its script (`Scripts`).

### AdminAccess against the code

`window` and `order` are the two collections of `FailureWindow`, with `Prune`,
`SweepExpired`, `EvictIfFull`, `RecordFailure` and `Forget` as operators.
`request` goes statement by statement through bootstrap (count, create), login
(read, verify, stamp, insert, clear), the change of a password (list, update,
revoke), the revocation and the logout; `Drop` cuts it between any two. A session
remembers the password it was opened with, and "excused" when the two-statement
change by design lets it through: a login that had read the row when the
revocation came, and the sessions of a change cut before its revocation.

### KeyMaintenance against the code

`row` keeps the secret and the rotation flag of the rows of one service. `probe` is
the pass over its snapshot: `ProbeStarts` lists the due rows, `ProbeAsks` sends
with a node or directly, `ProbeUnleased` goes on without one; the answer is heard
and written by row id in `ProbeApplies`, `ProbeStamps` records the day, and
`ProbeWriteFails` is either statement failing. Which rows are cooling when the probe
looks is left open. `sync` is `SyncStarts`, which lists the rows least recently
synced first and cuts at the cap, then per row `SyncWrites` (the fetch and the write
that stamps) or `SyncFails` (either fails, and nothing is stamped). `Unreadable` are
the secrets whose usage no fetch ever brings. `ToggleReads` and `ToggleWrites` are the
two statements of `toggle_key`. The operator creates, rotates and deletes, a leg of
the traffic reports, the day ends, the process restarts, each between any two of
these steps.

## Runs

| Run | Instance | Shows |
|---|---|---|
| `key_holds` | 3 calls, 1 row id, 2 secrets, cap 2, TTL 1, 3 tokens, 2 services, one of them deleting on ban | exact counter and ownership of leases (`LeasesAreExact`), the cap (`CapHolds`), one count per transition (`CountedOnce`), no foreign release and no late verdict (`LateEndIsHarmless`), refinement of `KeySlots` (`SlotSpec`) |
| `key_choice` | 2 calls, 2 row ids of one service, 3 secrets, cap 2, 2 tokens | clean rows in rotation (`ActiveRowIsClean`), refusal only at the cap and the first of all eligible keys in the code's order (`BestKeyServes`), suspensions that stick and balances that only fall (`VerdictsStick`) |
| `ban_reuse` | as `key_holds` | the finding below |
| `acquire` | 2 callers, 1 key, cap 1, no deadline assumed to pass | no lost wakeup, honest timeouts (`WaitIsSound`), an acquire past its deadline returns (`AcquireEnds`), a sleeper is woken for a slot a finish freed (`FreedSlotWakes`) |
| `node_pool` | 2 node ids, 4 tokens, 2 failures to disable, TTL 1, a window of 2 ticks | exact counts, clean enabled nodes, the window of a disabled node and its return |
| `lease_ladder` | 2 legs, 2 key tokens, 2 node tokens, 1 node id, proxy required | every lease has one party that ends it, no bare leg, refinement of `NodePool` |
| `search_answers` | one plan of each kind, 5 keys (two of tavily), 2 attempts per vendor, every clause at a 401 and a 403 and one ban text at each other status | precedence of errors over legs and chains, an exact meta, keys lost only for texts about their account, every request is answered |
| `requests` | 2 slots, 3 requests, TTL 1, deadline 1, 4 instants; 5 near requests in any sequence of three, 648 searches and 7 odd requests each alone, over either boundary | rows served only to requests of their meaning (`RowsKeepMeaning`) and age (`AnswerAge`), requests to vendors that say what was meant, are refused, or leave out what is listed (`AskIsHonoured`), fused answers (`AnswerIsFused`) |
| `extract_research` | every mode, http 3, lease 4, window 5, 3 attempts, with and without a schema, replies of at most 2 rows; 4 urls naming 3 pages, 2 scrapes at once | the lease outlives the job, fair outcomes, exact research meta, safe refinement, every request ends |
| `request_life` | 3 requests, 1 token, 2 buckets, ring, channel, permits and frames of 1, a window of 1 (two minutes), an alarm from 2; scripts of 2 calls, 2 minutes and a stop, of a call and a short request with the same, and of 3 short requests and 2 minutes | the token's cap, one end per request, an alert that counts its minutes and what was recorded behind them, deltas accounted, calls end and permits return |
| `access` | 5 requests, two at a time, 3 addresses of which 2 are tracked, 2 names, 2 passwords, limit 2, window 2, session TTL 2 | revocation reaches every session it could have met; no flood of clients opens a lockout |
| `key_maintenance` | 3 row ids, 3 secrets of which 1 is unreadable, 1 operator, two keys per sync | one probe a day per account; the cap of the sync starves no readable key |

Bounds. Each property is paired with a mutant of the code that breaks it inside the
same bounds.

* Keys. One row id suffices for lease mix-ups because the id is reused, with the
  second secret: three
  tokens give an expired lease, a newer holder and a bystander on it at once, and a
  cap of two lets holders overlap below the cap. A TTL of one tick separates
  "running", "expired, still in the table" and "reclaimed". Two failures to disable
  and one credit reach the flip and the zeroing with overlapping holders.
* `acquire`. A holder and a waiter, of which either may come back at once and take
  the slot the other was woken for, is enough to lose a wakeup and to wake in vain.
* Nodes and ladder. Four tokens let two leases overlap on each of two nodes, or one
  expire, be reclaimed and be ended late while newer ones are counted; two ticks of
  window tell "just disabled", "waiting" and "due" apart. Two legs with two tokens
  of each kind meet in every pair of stages; one failure disables the only node, so
  that one leg takes it away from the other.
* `search_answers`. Two attempts reach "tried again" and "out of attempts"; the
  third of the code repeats the second. Chains of three vendors and plans of three
  legs are the code's own sizes. A second key of one vendor lets a retry hold
  another key than the first attempt; plans that differ from the chosen ones only in
  their primary walk the same chains in another order. The gaps 0, 2, 7 and 8 of
  fillers are both sides of `STATE_GAP`.
* `requests`. Sequences of three, over two slots, have a writer, a reader and a
  slower second writer. The lone searches take every mode, source list, provider and
  heuristic with one of 13 sets of vendor knobs. A request that comes with others
  finds nothing, since what is found is no part of a row's meaning. Lists of at most
  three rows disagree on an order, repeat a page and hide one behind a near copy. `domains` stands
  for the include list; there is one date; texts are near copies or not by class.
* `extract_research`. A call of one or two ticks and a pause fit a lease of four if it
  was refreshed, a call of three does not; two spellings of one page and a redirect make the novelty of a
  refinement hard.
* `request_life`. Two requests overlap in each critical section and on one permit;
  buckets of one make every push evict and every second send overflow. Three short
  requests over three minutes reach the window [1, 0] and [2, 0], a minute recorded
  behind a newer one, that a check sums while it is in the window and beyond it. All
  mixtures of longer scripts are left to the proofs, which cover any number of
  requests and tokens and any script.
* `access`. Three addresses over two places force an eviction. One clock stands for
  the window's and the database's; `ADMIN_SECRET` is configured; password lengths
  are not checked. The proof covers any number of requests and users.
* `key_maintenance`. With a cap of two, three rows and one unreadable secret, one key
  of the readable two is always deferred once, while the unreadable one takes a place in
  every pass. Two syncs never run at once here; `usage_synced_at` is compared by second in
  the code and by order here.

`CallSymmetry`, `LegSymmetry` and the `Sym` sets permute interchangeable values
only, and runs with liveness use no symmetry. `CHECK_DEADLOCK FALSE` stands where a
finished request or a stopped process is an end: `search_answers`,
`extract_research`, `request_life`, and `key_maintenance`, where the rows may all
be gone.

Fairness.

* `KeyAcquire`, `Polled`: the runtime polls a woken task, statements return and a
  finish that has committed rings (weak fairness on those steps); tokio's mutex
  queues in order, so a call that keeps asking gets it (strong fairness on `Lock`).
  Nothing is assumed of deadlines, finishes, expiry, operators or cancellation: a
  holder may keep its key for ever. `AcquireEnds` therefore speaks of calls whose
  deadline has passed, and `FreedSlotWakes` cannot hold merely because every sleep
  ends.
* `NodePool`: time passes (weak fairness on `Tick`) and the maintenance loop runs
  (weak fairness on `ReenableStale`, a pass every fifteen minutes). `OffNodeReturns`
  says that a node which stays disabled is one that is disabled again and again.
* `SearchRun`: a leg that can step does (weak fairness per leg and on `Answer`): an
  acquire returns by its timeout, a vendor call by its HTTP client's, and `join!`
  polls every leg. `Deadline` has no fairness, so `SearchEnds` is not owed to it.
* `ResearchRun`: weak fairness on the steps of the request in each of its three
  kinds, none on the clock or the deadline.
* `RequestLife`: weak fairness on each request's steps (the timer of a running call
  fires), on the transport that takes frames and on the writer; no client has to
  call, cancel or hang up, and nobody has to stop the server.
* `KeyMaintenance`: the sync loop ticks on (weak fairness), and a key whose usage its
  vendor does tell is not refused it every time it is asked for, nor its write
  (strong fairness on `SyncWrites`, which no unreadable key ever enables). Nothing is
  assumed of the unreadable ones. As many of them as the cap, in rotation, do starve
  the rest, see below: `SyncReachesAll` names that case (`Clogged`).

## Proofs

Checked by TLAPS for every value of the constants, from the named assumptions
`RowAssumption`, `LeaseAssumption`, `AcquireAssumption`, `NodeAssumption`,
`LadderAssumption`, `RunAssumption`, `ExtractAssumption`, `ResearchAssumption`,
`MaintenanceAssumption`, `FunnelAssumption`, `AdmissionAssumption`,
`LifeAssumption`, `AccessAssumption`, `CacheAssumption`, `FusionAssumption` and `NamesAssumption` (constants are natural numbers, caps,
TTLs, thresholds and windows are positive, null values are no members, finitely
many callers, legs and requests, every key has a vendor, the plans are some that
routing can produce, the replies some that a vendor or a local failure can
produce, a lease lasts at least one unit, a request is a body
that its type can hold, shares of the rows that a vendor may bring are whole, and a
text that is no host name or handle in one request is none in another). TLC
evaluates all of them.

* `KeyPool_proofs`, the tables: the inductive invariant
  `IInv == TableInv /\ CallInv`. `CapHolds` is not inductive alone: an acquire looks
  at the column, so `InflightCountsLeases` is needed to turn "inflight < cap" into
  "fewer than cap lease rows"; that one needs `LeasesHaveRows`, since a count stays
  exact under a reclaim and a deletion only if no lease points at a row that is not
  there and no token is issued twice. From it: `TypeCorrect`, `CapIsRespected`,
  `LeaseTableIsExact`; the refinement `LeasesImplementSlots`, in which an acquire is
  `Issue` and every other step `End` or a stutter; and `LateEndsAreHarmless`: a
  finish takes its own token only, and a token has one owner.
* `KeyPool_proofs`, the rows: `RowSteps` says what a step can do to one row:
  nothing, a verdict, an admin or a cron write. `ActiveRowsAreClean` follows from
  that, and `TransitionsCountOnce` with the strengthening that an active row has
  counted no departure, and a row with a balance no zeroing. `VerdictsAlwaysStick`
  needs that an active row carries no reason: a suspended row is then out of
  rotation, every report keeps it so, and the cron passes it by. `BestKeysServe`
  rests on `Picks` being minimal under `Precedes`, and on the fresh token having had
  no lease, so that the holders of the other keys are those the acquire saw. Its
  statement names the order itself, tier by tier, and leaves open only what the
  model does, the order among used rows of equal score.
* `KeyPool_proofs`, the waiting: `AcquireWakes` from `NothingMissed`: from the failed try
  on, through the count and the unlock, a call that no bell has reached has nothing
  to learn. `AcquireTimesOut` from `LastTryIsLate`; `AcquireCap` from
  `RowsWithinCap`, which counts expired rows too, because a refresh may revive one.
* `LeaseLadder_proofs`, the pool: `TableInv` is types, `HoldsAreExact` and that no token is used
  before it is issued; as for keys, the exact count needs that every lease row is on
  an existing node. `StepRows` lists what a step can do to one row, from which
  `PoolClean` follows once it is claimed of the rows that are absent too. No end of
  a lease enables a row (`EndsKeepOff`), and while a row is out with its failures at
  the threshold, the last of them is no younger than its stamp, because each one
  there stamps anew. Together they give `PoolBackoff`. A failure below the threshold
  does not stamp, so a node that was disabled by hand may fail late and still come
  back on time; `BackoffOver` says so.
* `LeaseLadder_proofs`, the ladder: `RowOK` says which holds a leg has armed in which stage;
  `LadderNeverBare` needs it from the acquire on, not only on the wire. Every step
  is a step of the pool or leaves it alone (`StepPool`), so that `TableInv` carries
  over and `LadderImplementsPool` follows. `LadderAccounts` needs that whatever is
  armed or about to be released was issued before (`Accounts`): otherwise a new
  lease could be one of them.
* `SearchRun_proofs`: no property of the answer is inductive, since the answer looks
  only at the classes a leg has collected, not at its vendors.
  `IInv == TypeOK /\ Collected /\ Combines`: a leg has collected exactly the classes
  of the vendors it has left, which for a failed leg are all of its chain
  (`Collected`), and an answer was combined from legs that no longer move
  (`Combines`). From it `SearchRefusals`, `SearchDrains` and `SearchPrecedence`.
  `SearchMeta` needs `MetaInv`, which speaks of the metas under way: the counts that
  the legs keep add up to the calls made, the union of their transitions is what
  the request changed, and where a leg answered its meta says so.
* `QueryCache_proofs`: `AnswersAreFresh`. `AnswerAge` speaks of answered calls only;
  `AgeInv` says where their age comes from: how long after its vendor answer a row
  may live (`RowOK`), and, of a running call, that it is in its deadline and holds
  what it heard since it was started or, as a standard research, took from a row
  that was live then (`CallOK`). A row that a search stored must not be found by a
  research, whose bound is twice as long, nor the other way round
  (`KeysTellSurfaces`); the bounds compose because a store adds one lifetime and a
  call at most its deadline.
* `QueryCache_proofs`, the meaning: `MeaningIsKept`. The property compares what two
  clients meant, read off the bodies they sent; the code compares canonical texts.
  The bridge is one equivalence per field, `A = B` of the folded texts if and only
  if `A = B` of what they mean, for knobs (`SenseTells`), dates, windows, filter lists
  (`NamesTell`) and source lists (`SourcesTell`); it needs that both bodies were let
  in, since a knob that is refused is never folded. `SearchKeysTell` and
  `ResearchKeysTell` join the fields, `WebOfCanonical` carries the fold through the
  search a research asks for, which is built from folded fields and folded again,
  and `KeysTell` has all surfaces. What is left is `MeanInv`: rows and calls stem
  from asks that were let in, a row that was served has the key of an ask of the
  call it was served to, and no two rows have one key.
* `QueryCache_proofs`, the asks: `AsksAreHonoured`, which needs no invariant but that
  a running call was let in (`MeanInv`); the rest is about the functions that lead
  from a body to the wire, one lemma per stage. The statement is an equation for each
  knob, so that what a vendor is not told is named with it, and nothing else may be
  left out. The canonical form says of each knob
  what the client wanted of it (`StandsFor`, `KnobsTell`, `SourcesTellNames`). The
  first gate that holds decides (`GateIs`), in the route table the rule the client
  named outbids every other and some rule always matches (`NamedRuleWins`,
  `SomeRuleMatches`), so the route leads where it named (`GoesRight`,
  `WebLegGoesRight`). A call is then a client of a leg's chain (`DialIs`), is handed no
  more than its leg may ask (`HandsOver`) and sends what its vendor can be told
  (`SendsIs`). Since a social leg is handed no knob that xai refuses (`SocialIsTaken`),
  a hybrid never loses it to a knob of the web leg.
* `QueryCache_proofs`, the fusion: `AnswersAreFused`. `FoundInv` says that what a call
  stores is what the legs of its own ask brought, so that the rest is about any
  lists of rows, of any length. Two keys are equal if and only if they are one page
  or one text (`KeyTells`); a key's first spot stands for it, once (`FirstIs`); the
  entries have a strict order, so that the result holds each of them once and by
  score (`FusedIs`); and what suppression and the cut leave out has a copy that is
  shown, or the answer is full (`CutShows`). For the order, shares are exact
  (`ContributionIs`) and fall with the rank (`UnitFalls`), so a page before another
  in every leg that has the other, and no worse there, has the greater sum
  (`BetterScore`); and two good places among the first twenty of two legs, weighted
  0.7 or 1, outweigh any one place, since 56 of the least of these shares is more
  than 40 of the greatest (`TwoAreMore`, `AgreedScore`). Beyond the 24th place that
  is not so. A vendor is asked for at most twenty rows; xAI's client does not cut
  its citations.
* `AdminPlane_proofs`, the probe: `ProbesOnceADay` needs what the snapshot still holds: a
  row it has yet to ask for holds a secret not asked today (`StillToAsk`), and a
  secret that was asked is stamped or is the one in hand (`AskedIsStamped`). Both
  are about secrets, not ids, which are reused.
* `RequestLife_proofs`: `TokenCapHolds` from `AdmissionInv`: whoever refers to a
  bucket refers to the one the map has for its token, so that a dropped bucket has
  no permit out. `DeltasAreAccounted` from `FunnelInv`: a delta is in one place,
  the writer's stages come in order, and nothing sent before the stop is lost.
  `EndsOnceHolds` from `EndsInv`. `AlertsSeeRecent` from `WindowInv`: for every
  minute m that the loop may yet prune from, the buckets that are not in front of
  all those of m or later hold exactly the requests and errors that were counted
  from m on or behind such a minute. It speaks of every m because the clock moves
  on before the loop looks again, and because pruning goes by position, not by age.
  A request that is counted late joins the bucket in the back; that the bucket of the
  newest minute is there as long as the loop looks at it (`NewestThere`) tells
  whether it stands behind a minute of its own.
* `AdminPlane_proofs`, the sessions: `RevocationsReach`. A session, and a login that has read its
  user, has the current password, is excused, or a change stands between its two
  statements (`SessionsAreFresh`, `HandlersAreSound`); that last case is what makes
  the invariant inductive.
* `AdminPlane_proofs`, the throttle: `ThrottleIsSound`. `StoreInv` says that `order`
  names every tracked client once, that the ages of a client's failures never rise
  along its list, and that the ceiling holds (`Tracks`). The ages matter because the
  code pops lapsed failures from the front only: in a list that is not ordered the
  count would be wrong. What an operation of the window owes is one
  relation, `Follows`: the store is whole again and whoever was locked out still
  is. It composes, and prune, sweep, eviction and record each satisfy it, so that
  a lockout ends by `Tick` or `Clears` only.
* `Picks_proofs`: every finite set of places can be put in order, so `Picked` returns
  its elements in their order and each place once (`PickedIs`). The throttle, the
  research and the fusion rest on it. A list of numbers has a sum (`TotalIs`), which grows
  with each element; that the table of the sums exists is shown by the least length
  that has none.
* `ResearchRun_proofs`, the extract: `ExtractInv` has a part per concern. `LeaseOK`:
  a call starts on a whole lease, and so does a poll, but for the pause before it,
  unless a refresh failed or a call outran the lease. This makes `LeaseOutlivesJob`
  inductive for every TTL the configuration accepts. `ChargeOK`: a success is on the key's
  account from the answer on, on the research path only when it is served.
  `FaultsOK`: the classes collected are those of the vendors that were left. From it
  `LeasesOutliveJobs` and `OutcomesAreFair`.
* `ResearchRun_proofs`, the research: `SumOK` splits the calls made over the metas
  that hold them: the main one, the one of the running leg, the social leg's, the
  scrapes that ended but have not been yielded (`Noted`), and the second search
  beside the first synthesis (`Beside`). `PhaseOK` says which of these are empty in
  which step, so that a step that stops absorbing one loses nothing. `NovelOK`
  carries the choice of the refinement's pages to the step that scrapes them. From
  these `ResearchMetasAreExact` and `RefinementsAreSafe`, whose answer part is a
  statement about single steps of the second synthesis and its parse.
* `SearchRun_proofs`, the accounts: `AccountsAreKept` is about one report at a time,
  but about every text that a reply may have. A text is a lead, the clause and a
  last word (`TextShape`), so the nearest subject before the state and what stands
  between the two are known by position for any length of filler; what the matchers
  decide of such a text is worked out phrase by phrase, and compared with what its
  clause means.

Proving found one mistake in a model: two guards of the class that surfaces from an
extract (`Surfaced`) overlapped, so that TLC took the first where the definition
left the choice open. They are disjoint now. And it found three spellings for
which the statement of `RowsKeepMeaning` was too coarse, because the fold leaves
them as they came, each with a row of its own: a blank date, a source list of
blanks, a `backend` or `format` whose separators do not match. The bounds of the run
had no second request to compare them with; the meanings tell them apart now. And
one clause of `AnswerIsFused` was false: an item without an address has no page, so
"placed higher by every leg that has the page" held of it vacuously. No find of
the run had such an item before a page; one has now, and TLC refutes the old
clause. The order is stated of pages.

Only model-checked: liveness (`AcquireEnds`, `FreedSlotWakes`, `OffNodeReturns`, `SearchEnds`,
`RequestEnds`, `CallsEnd`, `SyncReachesAll`), which TLAPS does not reach under
fairness. Every invariant and every other action property that a passing run
checks is a theorem. Induction over data is out of reach as well where the library's
theorems take an operator, and with it what a fold computes for every input; that is
why lists are filtered, summed and joined by the operators of `Picks`.

## Finding

`ban_reuse`: `revoke_key_row` deletes by row id. After a rotation, or a deletion
and an insert that reuses the id, a late ban of the old secret archives and
deletes the new key, although archive.rs speaks of "a proven-dead key". TLC finds it
in a few steps.

## Other divergences met while modelling

These were read in the source while the modules were written. The models follow the
code in each case; no run is devoted to them.

Keys and pools.
* A transition is noted after the node's finish was awaited (lease.rs:351); a
  deadline in between leaves it out of the metric of docs/ops/api.md.
* `report_suspended` (keypool lib.rs:438-441) argues that its gate "loses no
  legitimate transition"; a row disabled between the lease and the report is
  suspended and not counted.
* A 402 ends its vendor at the first attempt, so the request may answer
  `CreditsExhausted`, not retryable, while keys with a balance were never asked;
  errors.rs:21-24, run_provider.rs:43-46 and docs/ops/api.md:75 say otherwise.
* A timeout bills the last snapshot any leg published, which may be the key in
  flight although another leg has answered (run_provider.rs:129, meta.rs:439-442).
* A retry acquires anew, where run_provider.rs speaks of "the SAME account".
* admin_crud.rs:105-106 calls a fresh secret "a clean slate"; late failures of the
  old one count on. The credit sync and `update_key` write a balance that was
  fetched for the secret or service before.
* `reclaim_expired_*_holds`, `note_node_health_*` have no callers but tests.
* Migration 14 does not stamp rows disabled before it.

Sync. A key whose usage cannot be had is neither stamped nor taken out, so it stays
first. As many of them as the cap use up every pass and starve the rest, where
credit_sync.rs:92-93 says that "the cap defers work rather than starving a fixed
subset". `SyncReachesAll` excuses this case only (`Clogged`).

What a vendor says.
* The matcher takes suppositions and some denials for bans (`Misread`). The comment
  on `STATE_GAP` counts one token to spare; the walk allows exactly seven fillers.
* A 2xx whose body does not parse is a transport error, which is tried again on
  another, billed, call.

Requests.
* Some vendors refuse what they cannot say, others leave it out without a word:
  a place at Exa and xAI; handles at everyone but a search of X; a depth at everyone
  but Tavily and Exa's deep call, which take their own; raw content at everyone but
  Tavily and an xAI outside a hybrid, which refuses it; domains and content on the
  social half of a hybrid; a range beside a date. types.rs:198-200 calls blank knobs
  unset, yet a blank date swallows the range too. Firecrawl leaves a date out that it
  cannot read, and says the range. `SaysWhatIsMeant` lists exactly these.
* A blank-only `sources` list is left in place, against the comment on
  `fold_sources`; blank dates make a row of their own and win over a range.
* The MCP surface refuses a blank `question`, empty `urls` and `chunks_per_source` 0;
  REST does not. A batch of an unknown format reaches Tavily's client over REST.
* `backend` unset and "serpotter" are two rows; "tav_ily" is accepted and runs the
  default backend.
* `provider=social` without sources dials xAI's web search. The X leg of a hybrid goes
  without domains, against docs/ops/api.md. Firecrawl reads `country`, which the
  comments call Tavily's.
* A partial answer, with leg_errors, is cached although only "successful responses"
  are meant to be. pipeline.rs speaks of items without url from xAI and Exa; both
  clients drop them.

Extract and research.
* A batch without any text, a structured job completed without data and a Tavily
  research without a report are served, charged and cached.
* A blank `raw_content` or `markdown` hides the field behind it; citations are numbered
  anew by a refinement (dto.rs, `Synthesis::citations`).
* A second synthesis whose text is JSON with a blank `answer` replaces the first
  answer, against research.rs:743-744 ("must NOT discard the first pass's grounded
  answer"). `RefinementIsSafe` names that reply, and no other may do it.
* Firecrawl's empty job id is accepted, Tavily's "cancelled" is polled to the end of
  the window, and "completed" wins over `success: false`.
* "never re-scrape" (research.rs:707) holds up to the urls the vendors gave back.

Events, MCP and admin.
* Deltas sent between the last `try_recv` and the drop of the receiver are neither
  written nor counted. Connection tasks run on after the drain cap.
* `ErrorWindow::counts` includes older buckets that stand behind a newer one, against
  events.rs:453 ("pruning old buckets"); `AlertSeesRecent` says exactly which.
* The flush of progress frames is not under the deadline (mcp/mod.rs:833). A
  dropped REST connection leaves no event. A database error of the token lookup is
  answered 500 and logged as 401.
* A live session may lose its binding at the ceiling; a reused token id inherits the
  bindings of the old one.
* Two bootstraps of different names may both succeed; concurrent logins may exceed
  the limit by their number; a login that had verified the old password may insert
  its session after the revocation; a change cut between its statements leaves the
  old sessions.

## Not modelled

The bindings of MCP sessions to tokens (`admission.rs:95-160`, `mcp/auth.rs`):
process-local and answered by a new initialize when lost. Settings, statistics,
connection set-up and migrations; the web console; read-only admin pages; the HTTP
exchange itself and the client cache; command-line and environment parsing;
progress messages, prompts and texts. Three hazards have no property: the lost
transition (lease.rs:351), the drained pool (run_provider.rs:263) and the evicted
binding (admission.rs:116); each has a note in `PROJECT.json`.

## Next

1. The session bindings over `McpAdmission`: one owner per session, the ceiling.
2. `KeyMaintenance` over the full rows of `KeyRows`, with two syncs at once.
