------------------------------ MODULE KeyLeases ------------------------------
(***************************************************************************)
(* The leases of the key pool: the tables api_keys and api_key_leases, the *)
(* transactions of the database layer on them, the calls that hold leases, *)
(* and everything that happens to a row while they do: cancellation,       *)
(* expiry, a restart of the process, the operator and the re-enable cron.  *)
(*                                                                         *)
(* Every action is one SQLite transaction (they begin with a write, so     *)
(* they are serialised) or one step of a call that touches no table.       *)
(* Waiting for a slot is in KeyAcquire; nodes are in NodePool.             *)
(***************************************************************************)
EXTENDS KeyRows, FiniteSets

CONSTANTS
  Calls,         \* the legs that lease keys, reused for one lease after another
  MaxKeyId,      \* bound: the largest row id
  Cap,           \* max_inflight
  TTL,           \* KEY_HOLD_TTL_SECS, in clock ticks
  MaxToken,      \* bound: how many leases a behaviour creates
  UnknownWeight, \* KEY_UNKNOWN_CREDIT_WEIGHT: an untracked balance counts as this
  DeleteOnBan    \* the vendors whose proven ban deletes the row (firecrawl)

ASSUME LeaseAssumption ==
  /\ MaxKeyId \in Nat /\ MaxToken \in Nat
  /\ Cap \in Nat \ {0}
  /\ TTL \in Nat \ {0}
  /\ UnknownWeight \in Nat \ {0}
  /\ DeleteOnBan \subseteq Services

VARIABLES
  present,    \* ids of the rows in api_keys
  row,        \* row[k]: the columns of row k; blank where k is not present
  inflight,   \* the stored column api_keys.inflight
  lease,      \* api_key_leases by token: the key and the ticks left, or NoLease
  nextToken,  \* AUTOINCREMENT: the next token, never reissued
  nextSecret, \* the next secret the operator enters, distinct from all others
  call,       \* what each call holds
  counted     \* transitions reported to the metrics, since the row was last
              \* active (left) and since its balance was last not 0 (zeroed)

vars == <<present, row, inflight, lease, nextToken, nextSecret, call, counted>>

KeyIds  == 1..MaxKeyId
Tokens  == 1..MaxToken

SomeService == CHOOSE s \in Services : TRUE
BlankRow    == FreshRow(SomeService, 0)
NoLease     == [key |-> 0, left |-> 0]
Idle        == [pc |-> "idle", key |-> 0, token |-> 0,
                service |-> SomeService, secret |-> 0]
NoCount     == [left |-> 0, zeroed |-> 0]
Scale       == 1000   \* KEY_CREDIT_SCORE_SCALE

TableTypes ==
  /\ present \subseteq KeyIds
  /\ row \in [KeyIds -> Row]
  /\ inflight \in [KeyIds -> Nat]
  /\ lease \in [Tokens -> [key : KeyIds \cup {0}, left : 0..TTL]]
  /\ nextToken \in 1..(MaxToken + 1)
  /\ nextSecret \in 1..(MaxSecret + 1)
  /\ counted \in [KeyIds -> [left : Nat, zeroed : Nat]]

CallTypes ==
  call \in [Calls -> [pc : {"idle", "refused", "using", "dropped"},
                      key : KeyIds \cup {0}, token : Tokens \cup {0},
                      service : Services, secret : 0..MaxSecret]]

\* Every variable keeps its type; a balance never falls below 0 nor becomes
\* unknown by a report (the Balance of Row).
TypeOK == TableTypes /\ CallTypes

Init ==
  /\ present = {}
  /\ row = [k \in KeyIds |-> BlankRow]
  /\ inflight = [k \in KeyIds |-> 0]
  /\ lease = [t \in Tokens |-> NoLease]
  /\ nextToken = 1
  /\ nextSecret = 1
  /\ call = [c \in Calls |-> Idle]
  /\ counted = [k \in KeyIds |-> NoCount]

-----------------------------------------------------------------------------
(* The lease table.                                                         *)

Holders(L, k) == {t \in Tokens : L[t].key = k}

Counts(L) == [k \in KeyIds |-> Cardinality(Holders(L, k))]

\* DELETE FROM api_key_leases WHERE lease_until <= now
Unexpired == [t \in Tokens |-> IF lease[t].left > 0 THEN lease[t] ELSE NoLease]

\* Mutant: a finish frees every hold of the key.
WithoutTokensOfKey(t) ==
  [u \in Tokens |-> IF lease[u].key = lease[t].key THEN NoLease ELSE lease[u]]

WithoutToken(t) == [lease EXCEPT ![t] = NoLease]

WithoutKey(k) == [t \in Tokens |-> IF lease[t].key = k THEN NoLease ELSE lease[t]]

\* The transition t that a report on row k returned is handed to the metrics.
Recount(rows, k, t) ==
  [j \in KeyIds |->
     [left   |-> IF rows[j].active THEN 0
                 ELSE IF j = k /\ t \in {"disabled", "suspended"}
                      THEN counted[j].left + 1 ELSE counted[j].left,
      zeroed |-> IF rows[j].credits # 0 THEN 0
                 ELSE IF j = k /\ t = "credits_zeroed"
                      THEN counted[j].zeroed + 1 ELSE counted[j].zeroed]]

\* A write to the rows that reports nothing.
WriteRows(rows) == row' = rows /\ counted' = Recount(rows, 0, "none")

-----------------------------------------------------------------------------
(* Acquire.  The ORDER BY of acquire_api_key_shared, over reconciled counts *)
(* n: cooling rows last, then rows with a balance of 0, then the credit     *)
(* score per prospective holder, then never-used rows by id.  Which of the  *)
(* used rows is the least recently used is left open.                       *)

\* Mutant: the cap is off by one.
EligibleOffByOne(s, n) ==
  {k \in present : row[k].service = s /\ row[k].active /\ n[k] <= Cap}

\* Mutant: cooling rows are filtered out.
EligibleNotCooling(s, n) ==
  {k \in present :
     row[k].service = s /\ row[k].active /\ ~row[k].cooling /\ n[k] < Cap}

Eligible(s, n) ==
  {k \in present : row[k].service = s /\ row[k].active /\ n[k] < Cap}

\* Mutant: a cooling row is not demoted.
TierOfBalance(k) == IF row[k].credits = 0 THEN 1 ELSE 0

Tier(k) == (IF row[k].cooling THEN 2 ELSE 0) + (IF row[k].credits = 0 THEN 1 ELSE 0)

\* Mutant: the score is the whole balance, however many share it.
ScoreOfBalance(k, n) ==
  (IF row[k].credits = Unknown THEN UnknownWeight ELSE row[k].credits) * Scale

Score(k, n) ==
  ((IF row[k].credits = Unknown THEN UnknownWeight ELSE row[k].credits) * Scale)
    \div (n[k] + 1)

\* Mutant: ties go to the row used before (last_used_at sorts its NULLs last).
PrecedesUsedFirst(j, k, n) ==
  \/ Tier(j) < Tier(k)
  \/ /\ Tier(j) = Tier(k)
     /\ \/ Score(j, n) > Score(k, n)
        \/ /\ Score(j, n) = Score(k, n)
           /\ row[j].used /\ ~row[k].used

Precedes(j, k, n) ==
  \/ Tier(j) < Tier(k)
  \/ /\ Tier(j) = Tier(k)
     /\ \/ Score(j, n) > Score(k, n)
        \/ /\ Score(j, n) = Score(k, n)
           /\ ~row[j].used
           /\ row[k].used \/ j < k

Picks(s, n) ==
  {k \in Eligible(s, n) : \A j \in Eligible(s, n) : ~Precedes(j, k, n)}

\* Mutant: the expired leases are deleted but the column is not reconciled.
GrantTxUnreconciled(s, k) ==
  /\ nextToken <= MaxToken
  /\ k \in Picks(s, Counts(Unexpired))
  /\ inflight' = [inflight EXCEPT ![k] = @ + 1]
  /\ lease' = [Unexpired EXCEPT ![nextToken] = [key |-> k, left |-> TTL]]
  /\ nextToken' = nextToken + 1
  /\ WriteRows([row EXCEPT ![k].used = TRUE])
  /\ UNCHANGED <<present, nextSecret>>

\* Mutant: a token is reissued once the last lease is gone (no AUTOINCREMENT).
GrantTxReissued(s, k) ==
  /\ nextToken <= MaxToken
  /\ k \in Picks(s, Counts(Unexpired))
  /\ inflight' = [Counts(Unexpired) EXCEPT ![k] = @ + 1]
  /\ lease' = [Unexpired EXCEPT ![nextToken] = [key |-> k, left |-> TTL]]
  /\ nextToken' = IF \A t \in Tokens : Unexpired[t] = NoLease
                  THEN nextToken ELSE nextToken + 1
  /\ WriteRows([row EXCEPT ![k].used = TRUE])
  /\ UNCHANGED <<present, nextSecret>>

\* One transaction: reclaim, reconcile, pick k, take a slot, insert the lease.
GrantTx(s, k) ==
  /\ nextToken <= MaxToken
  /\ k \in Picks(s, Counts(Unexpired))
  /\ inflight' = [Counts(Unexpired) EXCEPT ![k] = @ + 1]
  /\ lease' = [Unexpired EXCEPT ![nextToken] = [key |-> k, left |-> TTL]]
  /\ nextToken' = nextToken + 1
  /\ WriteRows([row EXCEPT ![k].used = TRUE])
  /\ UNCHANGED <<present, nextSecret>>

Acquire(c, s) ==
  \E k \in KeyIds :
    /\ call[c].pc = "idle"
    /\ GrantTx(s, k)
    /\ call' = [call EXCEPT ![c] =
         [pc |-> "using", key |-> k, token |-> nextToken,
          service |-> s, secret |-> row[k].secret]]

\* The caller is cancelled after the commit and before it has the lease: the
\* row stays without a holder until it expires.
AcquireAbandoned(s) ==
  \E k \in KeyIds : GrantTx(s, k) /\ UNCHANGED call

\* No row to pick: the transaction still reclaims and reconciles.
AcquireRefused(c, s) ==
  /\ call[c].pc = "idle"
  /\ Eligible(s, Counts(Unexpired)) = {}
  /\ inflight' = Counts(Unexpired)
  /\ lease' = Unexpired
  /\ call' = [call EXCEPT ![c].pc = "refused"]
  /\ UNCHANGED <<present, row, nextToken, nextSecret, counted>>

\* The refused call tries again or gives up: either way it holds nothing.
Forget(c) ==
  /\ call[c].pc = "refused"
  /\ call' = [call EXCEPT ![c] = Idle]
  /\ UNCHANGED <<present, row, inflight, lease, nextToken, nextSecret, counted>>

-----------------------------------------------------------------------------
(* The holder's own end of the lease.                                       *)

\* After its transaction a hold is disarmed, or its call is cancelled before
\* that and the armed guard will still spawn a release.
Settle(c) ==
  \/ call' = [call EXCEPT ![c] = Idle]
  \/ call' = [call EXCEPT ![c].pc = "dropped"]

\* Delete the lease row and recompute the column of its key, if it is there.
TakeToken(t) ==
  LET k == lease[t].key IN
  /\ lease' = WithoutToken(t)
  /\ inflight' = IF k = 0 THEN inflight
                 ELSE [inflight EXCEPT ![k] = Cardinality(Holders(WithoutToken(t), k))]

\* release_api_key_lease: free the slot, no health write.
Release(c) ==
  /\ call[c].pc = "using"
  /\ TakeToken(call[c].token)
  /\ Settle(c)
  /\ UNCHANGED <<present, row, nextToken, nextSecret, counted>>

\* Mutant: the verdict goes to the call's key id, lease or no lease.
ReportByKeyId(c, v) ==
  LET k == call[c].key
  IN /\ call[c].pc = "using"
     /\ v = "suspended" => call[c].service \notin DeleteOnBan
     /\ TakeToken(call[c].token)
     /\ \/ k \notin present /\ UNCHANGED <<row, counted>>
        \/ /\ k \in present
           /\ \E post \in HealthWrites(v, row[k]) :
                /\ row' = [row EXCEPT ![k] = post]
                /\ counted' = Recount(row', k, Transition(v, row[k], post))
     /\ Settle(c)
     /\ UNCHANGED <<present, nextToken, nextSecret>>

\* report_key_token: nothing is written once the lease is gone.  A ban suspends
\* the row at the vendors where it does not delete it.
Report(c, v) ==
  LET t == call[c].token
      k == lease[t].key
  IN /\ call[c].pc = "using"
     /\ v = "suspended" => call[c].service \notin DeleteOnBan
     /\ TakeToken(t)
     /\ \/ /\ k = 0
           /\ UNCHANGED <<row, counted>>
        \/ /\ k # 0
           /\ \E post \in HealthWrites(v, row[k]) :
                /\ row' = [row EXCEPT ![k] = post]
                /\ counted' = Recount(row', k, Transition(v, row[k], post))
     /\ Settle(c)
     /\ UNCHANGED <<present, nextToken, nextSecret>>

\* Rows and their leases go in one transaction.
DeleteRow(k) ==
  /\ present' = present \ {k}
  /\ lease' = WithoutKey(k)
  /\ inflight' = [inflight EXCEPT ![k] = 0]
  /\ WriteRows([row EXCEPT ![k] = BlankRow])

\* finish_banned, revoke_key_row: archive and delete by row id.
Ban(c) ==
  /\ call[c].pc = "using"
  /\ call[c].service \in DeleteOnBan
  /\ \/ /\ call[c].key \in present
        /\ DeleteRow(call[c].key)
     \/ /\ call[c].key \notin present
        /\ UNCHANGED <<present, lease, inflight, row, counted>>
  /\ Settle(c)
  /\ UNCHANGED <<nextToken, nextSecret>>

\* Cancelled, or the finish failed: the guard is dropped armed.
Drop(c) ==
  /\ call[c].pc = "using"
  /\ call' = [call EXCEPT ![c].pc = "dropped"]
  /\ UNCHANGED <<present, row, inflight, lease, nextToken, nextSecret, counted>>

\* The release that Drop spawned; it is lost when its transaction fails.
DropRelease(c) ==
  /\ call[c].pc = "dropped"
  /\ TakeToken(call[c].token) \/ UNCHANGED <<lease, inflight>>
  /\ call' = [call EXCEPT ![c] = Idle]
  /\ UNCHANGED <<present, row, nextToken, nextSecret, counted>>

\* Mutant: the refresh re-inserts a lease that was reclaimed.
RefreshUpsert(c) ==
  /\ call[c].pc = "using"
  /\ call[c].key \in present
  /\ lease' = [lease EXCEPT ![call[c].token] = [key |-> call[c].key, left |-> TTL]]
  /\ UNCHANGED <<present, row, inflight, nextToken, nextSecret, call, counted>>

\* A long call re-stamps its lease, expired or not, if the row is there.
Refresh(c) ==
  /\ call[c].pc = "using"
  /\ lease[call[c].token].key # 0
  /\ lease' = [lease EXCEPT ![call[c].token].left = TTL]
  /\ UNCHANGED <<present, row, inflight, nextToken, nextSecret, call, counted>>

-----------------------------------------------------------------------------
(* Time, the process, the operator and the cron.                            *)

\* datetime('now') moves on for every lease at once.
Tick ==
  /\ lease' = [t \in Tokens |->
                 [lease[t] EXCEPT !.left = IF @ = 0 THEN 0 ELSE @ - 1]]
  /\ UNCHANGED <<present, row, inflight, nextToken, nextSecret, call, counted>>

CooldownEnds(k) ==
  /\ row[k].cooling
  /\ WriteRows([row EXCEPT ![k].cooling = FALSE])
  /\ UNCHANGED <<present, inflight, lease, nextToken, nextSecret, call>>

\* The process stops with its calls and comes back: zero_all_key_inflight, or
\* only a warning when that fails.
Restart ==
  /\ call' = [c \in Calls |-> Idle]
  /\ \/ /\ lease' = [t \in Tokens |-> NoLease]
        /\ inflight' = [k \in KeyIds |-> 0]
     \/ UNCHANGED <<lease, inflight>>
  /\ UNCHANGED <<present, row, nextToken, nextSecret, counted>>

\* insert_api_key: the id is one more than the largest in the table, so the
\* id of a deleted last row is given out again. A bulk insert is several of these.
InsertKey(s) ==
  \E k \in KeyIds :
    /\ nextSecret <= MaxSecret
    /\ \A j \in present : j < k
    /\ k = 1 \/ k - 1 \in present
    /\ present' = present \cup {k}
    /\ WriteRows([row EXCEPT ![k] = FreshRow(s, nextSecret)])
    /\ nextSecret' = nextSecret + 1
    /\ UNCHANGED <<inflight, lease, nextToken, call>>

DeleteKey(k) ==
  /\ k \in present
  /\ DeleteRow(k)
  /\ UNCHANGED <<nextToken, nextSecret, call>>

SetActive(k, on) ==
  /\ k \in present
  /\ WriteRows([row EXCEPT ![k] = ToggledRow(@, on)])
  /\ UNCHANGED <<present, inflight, lease, nextToken, nextSecret, call>>

RotateKey(k) ==
  /\ k \in present
  /\ nextSecret <= MaxSecret
  /\ WriteRows([row EXCEPT ![k] = RotatedRow(@, nextSecret)])
  /\ nextSecret' = nextSecret + 1
  /\ UNCHANGED <<present, inflight, lease, nextToken, call>>

MoveKey(k, s) ==
  /\ k \in present
  /\ WriteRows([row EXCEPT ![k] = MovedRow(@, s)])
  /\ UNCHANGED <<present, inflight, lease, nextToken, nextSecret, call>>

\* One update_api_key with both fields.
ReplaceKey(k, s) ==
  /\ k \in present
  /\ nextSecret <= MaxSecret
  /\ WriteRows([row EXCEPT ![k] = MovedRow(RotatedRow(@, nextSecret), s)])
  /\ nextSecret' = nextSecret + 1
  /\ UNCHANGED <<present, inflight, lease, nextToken, call>>

SyncCredits(k, balance) ==
  /\ k \in present
  /\ WriteRows([row EXCEPT ![k] = SyncedRow(@, balance)])
  /\ UNCHANGED <<present, inflight, lease, nextToken, nextSecret, call>>

\* One UPDATE over every revivable row old enough; which are is left open.
ReenableStale ==
  \E stale \in SUBSET {k \in present : Revivable(row[k])} :
    /\ WriteRows([k \in KeyIds |-> IF k \in stale THEN RevivedRow(row[k]) ELSE row[k]])
    /\ UNCHANGED <<present, inflight, lease, nextToken, nextSecret, call>>

-----------------------------------------------------------------------------
CallNext(c) ==
  \/ \E s \in Services : Acquire(c, s) \/ AcquireRefused(c, s)
  \/ Forget(c)
  \/ Release(c)
  \/ \E v \in Verdicts : Report(c, v)
  \/ Ban(c)
  \/ Drop(c)
  \/ DropRelease(c)
  \/ Refresh(c)

EnvironmentNext ==
  \/ \E s \in Services : AcquireAbandoned(s)
  \/ Tick
  \/ \E k \in KeyIds : CooldownEnds(k)
  \/ Restart
  \/ ReenableStale

OperatorNext ==
  \/ \E s \in Services : InsertKey(s)
  \/ \E k \in KeyIds :
       \/ DeleteKey(k)
       \/ \E on \in BOOLEAN : SetActive(k, on)
       \/ RotateKey(k)
       \/ \E s \in Services : MoveKey(k, s) \/ ReplaceKey(k, s)
       \/ \E b \in 0..MaxCredits : SyncCredits(k, b)

Next == (\E c \in Calls : CallNext(c)) \/ EnvironmentNext \/ OperatorNext

Spec == Init /\ [][Next]_vars
-----------------------------------------------------------------------------
(* Safety.                                                                  *)

\* The stored column never drifts from the lease table, whichever of the
\* acquire, finish, reclaim, delete and boot transactions wrote last.
InflightCountsLeases == inflight = Counts(lease)

\* max_inflight: no interleaving of acquires, late finishes, refreshes and
\* reclaims gives a key more lease rows than the cap.
CapHolds == \A k \in KeyIds : Cardinality(Holders(lease, k)) <= Cap

LeasesHaveRows ==
  \A t \in Tokens : lease[t].key # 0 => lease[t].key \in present /\ t < nextToken

CallsOwnTokens ==
  \A c \in Calls :
    /\ call[c].token # 0 <=> call[c].pc \in {"using", "dropped"}
    /\ call[c].token # 0 =>
         /\ call[c].token < nextToken
         /\ lease[call[c].token].key \in {0, call[c].key}
         /\ \A d \in Calls : call[d].token = call[c].token => c = d

\* The stored count never drifts from the lease table, and a lease row belongs to
\* a row that exists and to at most one call, which leased that very key: row ids
\* are reused, tokens are not.
LeasesAreExact == InflightCountsLeases /\ LeasesHaveRows /\ CallsOwnTokens

\* A row in rotation carries no disable reason and is below the threshold, so
\* neither the cron nor a late report can leave a half-disabled row behind.
ActiveRowIsClean ==
  \A k \in present : row[k].active => row[k].reason = "none" /\ row[k].fails < MaxFails

\* Overlapping legs report one row leaving rotation, or one balance running
\* out, at most once until the row is active again or has a balance again.
CountedOnce == \A k \in KeyIds : counted[k].left <= 1 /\ counted[k].zeroed <= 1

(* Action properties.                                                       *)

\* A lease row that has not expired ends only by its own holder's finish or
\* spawned release, with its key row, or at boot: a late finish whose lease
\* was reclaimed never frees the slot of a newer holder of the same key.
OnlyOwnLeaseEnds ==
  \A t \in Tokens :
    lease[t].left > 0 /\ lease'[t].key = 0 =>
      \/ \E c \in Calls : call[c].token = t /\ call'[c].pc # "using"
      \/ lease[t].key \notin present'
      \/ Restart

\* A verdict lands on the row whose lease the call held, or nowhere: a call
\* whose lease was reclaimed writes nothing.
NoLateVerdict ==
  \A k \in present : \A c \in Calls :
    call[c].pc = "using" /\ call'[c].pc # "using" /\ call'[c] # call[c]
      /\ k \in present' /\ row'[k] # row[k] =>
    lease[call[c].token].key = k

\* What a call does after its lease was given away touches neither the slot nor
\* the row of anyone else.
LateEndIsHarmless == [][OnlyOwnLeaseEnds /\ NoLateVerdict]_vars

\* The holds of key k that an acquire counts: those that have not expired.
LiveHolds(k) == Cardinality({t \in Tokens : lease[t].key = k /\ lease[t].left > 0})

\* An acquire is refused only when every active key of the service is at the
\* cap with holds that have not expired: cooling and empty keys are demoted,
\* never filtered, and an expired hold never costs a slot.
RefusedOnlyAtCap ==
  \A c \in Calls, s \in Services :
    call[c].pc = "idle" /\ call'[c].pc = "refused" /\ AcquireRefused(c, s) =>
      \A k \in present : row[k].service = s /\ row[k].active => LiveHolds(k) >= Cap

\* What a balance counts for, and what each of the holds would share of it with
\* one more: key j offers more than key k by at least one point of the score.
Worth(k) == IF row[k].credits = Unknown THEN UnknownWeight ELSE row[k].credits

OffersMore(j, k) ==
  Worth(j) * Scale * (LiveHolds(k) + 1) >=
    Worth(k) * Scale * (LiveHolds(j) + 1) + (LiveHolds(j) + 1) * (LiveHolds(k) + 1)

OffersTheSame(j, k) == Worth(j) * (LiveHolds(k) + 1) = Worth(k) * (LiveHolds(j) + 1)

\* The key an acquire hands out is the best there is.  Any other active key of the
\* service that has a free slot is no better: a key that cools down is given only
\* when all of them do; among those in the same state of cooling, one that has
\* run out only when all have; and then none offers more of its balance to one
\* more hold.  Of two that offer exactly the same, one never used comes before
\* one in use, and the lower id first among the never used.
BestIsPicked ==
  \A c \in Calls :
    call[c].pc = "idle" /\ call'[c].pc = "using" =>
      LET k == call'[c].key IN
      \A j \in present :
        row[j].service = row[k].service /\ row[j].active /\ LiveHolds(j) < Cap =>
          /\ row[k].cooling => row[j].cooling
          /\ row[j].cooling = row[k].cooling =>
               /\ row[k].credits = 0 => row[j].credits = 0
               /\ ~OffersMore(j, k)
               /\ OffersTheSame(j, k) /\ ~row[j].used => ~row[k].used /\ k <= j

\* An acquire gets a key whenever one is to be had, and the best there is.
BestKeyServes == [][RefusedOnlyAtCap /\ BestIsPicked]_vars

\* Once the vendor has suspended a row, nothing brings it back or relabels it
\* but the operator: enabling it, or giving the row another identity.
SuspensionSticks ==
  \A k \in present \cap present' :
    row[k].reason = "vendor_suspended" =>
      \/ row'[k].reason = "vendor_suspended" /\ ~row'[k].active
      \/ SetActive(k, TRUE)
      \/ RotateKey(k)
      \/ \E s \in Services : MoveKey(k, s) \/ ReplaceKey(k, s)

\* A balance only falls, stops at 0, and is never mistaken for one that is not
\* tracked, nor the other way round except by the 402 that empties it: only the
\* sync, or another identity of the row, gives it more or forgets it.
BalanceOnlyFalls ==
  \A k \in present \cap present' :
    \/ row'[k].credits = row[k].credits
    \/ row'[k].credits \in 0..(row[k].credits - 1)
    \/ row'[k].credits = 0 /\ row[k].credits = Unknown
    \/ \E b \in 0..MaxCredits : SyncCredits(k, b)
    \/ \E s \in Services : MoveKey(k, s) \/ ReplaceKey(k, s)

\* What a vendor said of a key, that its account is closed or how much it has
\* left, outlives every late report, manual disable and pass of the cron.
VerdictsStick == [][SuspensionSticks /\ BalanceOnlyFalls]_vars

(* Refinement.                                                              *)

Slots == INSTANCE KeySlots WITH
  SlotKeys <- KeyIds,
  holders  <- [k \in KeyIds |-> Holders(lease, k)],
  issued   <- nextToken - 1

SlotSpec == Slots!SlotSpec

-----------------------------------------------------------------------------
(* What comments of the code say and the code does not do.                  *)

\* A ban archives and deletes the key that was proven dead.
BanDeletesTheBannedKey ==
  [][\A c \in Calls :
       Ban(c) /\ call[c].key \in present /\ call[c].key \notin present' =>
         row[call[c].key].secret = call[c].secret]_vars

=============================================================================
