--------------------------- MODULE KeyPool_proofs ---------------------------
(***************************************************************************)
(* Proofs about the key pool, for every number of keys, calls and leases   *)
(* and every cap.                                                          *)
(*                                                                         *)
(* KeyLeases: first the lease tables, what a late end may touch and which  *)
(* key serves, then the rows, what one looks like in rotation, how often   *)
(* its transitions are reported, and what ends a suspension.               *)
(*                                                                         *)
(* KeyAcquire, at the end: no wakeup is lost, AcquireTimeout is honest, the *)
(* cap holds.  NoLostWakeup speaks of sleepers only.  What is inductive is *)
(* NothingMissed: from the moment a try has failed, through the count, the *)
(* unlock and the sleep, a call that no bell reached has nothing to learn. *)
(***************************************************************************)
EXTENDS KeyLeases, KeyAcquire, FiniteSetTheorems, TLAPS

\* The part of the invariant about the tables, and the part about the calls.
TableInv == TableTypes /\ InflightCountsLeases /\ CapHolds /\ LeasesHaveRows
CallInv  == CallTypes /\ CallsOwnTokens
IInv     == TableInv /\ CallInv

-----------------------------------------------------------------------------
(* Rows.                                                                    *)

LEMMA SomeServiceType == SomeService \in Services
BY RowAssumption DEF SomeService

\* A new row and the blank row are rows.
LEMMA FreshRowType ==
  ASSUME NEW s \in Services, NEW x \in 0..MaxSecret
  PROVE  FreshRow(s, x) \in Row
BY DEF FreshRow, Row, Balance, Unknown, Reasons

LEMMA BlankRowType == BlankRow \in Row
BY SomeServiceType, FreshRowType, RowAssumption DEF BlankRow

LEMMA SuccessRowType ==
  ASSUME NEW r \in Row
  PROVE  SuccessRow(r) \in Row
<1>1. \A b \in Balance : [r EXCEPT !.fails = 0, !.used = TRUE, !.credits = b] \in Row
  BY DEF Row
<1>2. (IF r.credits <= 0 THEN r.credits ELSE r.credits - 1) \in Balance
  BY RowAssumption DEF Row, Balance, Unknown
<1>3. SuccessRow(r) = [r EXCEPT !.fails = 0, !.used = TRUE,
                         !.credits = IF r.credits <= 0 THEN r.credits ELSE r.credits - 1]
  BY DEF SuccessRow, Row
<1> QED BY <1>1, <1>2, <1>3

LEMMA FailureRowType ==
  ASSUME NEW r \in Row
  PROVE  FailureRow(r) \in Row
<1> DEFINE reached == r.fails + 1 >= MaxFails
           serves  == r.active /\ ~reached
           reason  == IF r.reason = "none" /\ reached THEN "auth_fail" ELSE r.reason
<1>1. serves \in BOOLEAN
  OBVIOUS
<1>2. reason \in Reasons
  BY DEF Row, Reasons
<1>3. r.fails + 1 \in Nat
  BY DEF Row
<1>4. FailureRow(r) = [r EXCEPT !.fails = @ + 1, !.used = TRUE,
                                !.active = serves, !.reason = reason]
  BY DEF FailureRow, Row
<1> HIDE DEF serves, reason
<1> QED BY <1>1, <1>2, <1>3, <1>4 DEF Row

\* Whatever a report writes is a row: the balance stays in its range.
LEMMA HealthWritesType ==
  ASSUME NEW v \in Verdicts, NEW r \in Row, NEW post \in HealthWrites(v, r)
  PROVE  post \in Row
<1>1. 0 \in Balance /\ Unknown \in Balance /\ "vendor_suspended" \in Reasons
  BY RowAssumption DEF Balance, Reasons
<1>2. SuccessRow(r) \in Row
  BY SuccessRowType
<1>3. FailureRow(r) \in Row
  BY FailureRowType
<1>4. \A cools \in BOOLEAN : ExhaustedRow(r, cools) \in Row
  BY <1>1 DEF ExhaustedRow, Row
<1>5. PaymentRequiredRow(r) \in Row /\ SuspendedRow(r) \in Row
  BY <1>1 DEF PaymentRequiredRow, SuspendedRow, Row
<1> QED
  BY <1>2, <1>3, <1>4, <1>5 DEF HealthWrites, Verdicts

\* So is whatever the operator or the cron writes.
LEMMA AdminWritesType ==
  ASSUME NEW r \in Row
  PROVE  /\ \A on \in BOOLEAN : ToggledRow(r, on) \in Row
         /\ \A x \in 0..MaxSecret : RotatedRow(r, x) \in Row
         /\ \A s \in Services : MovedRow(r, s) \in Row
         /\ \A b \in 0..MaxCredits : SyncedRow(r, b) \in Row
         /\ RevivedRow(r) \in Row
BY DEF ToggledRow, RotatedRow, MovedRow, SyncedRow, RevivedRow, Row, Reasons,
       Balance, Unknown

\* The metrics' counts are numbers, whatever is written.
LEMMA RecountType ==
  ASSUME NEW rows, NEW k, NEW t, counted \in [KeyIds -> [left : Nat, zeroed : Nat]]
  PROVE  Recount(rows, k, t) \in [KeyIds -> [left : Nat, zeroed : Nat]]
BY DEF Recount

-----------------------------------------------------------------------------
(* Holders of a key.                                                        *)

LEMMA HoldersFinite ==
  ASSUME NEW L, NEW k
  PROVE  /\ IsFiniteSet(Holders(L, k))
         /\ Cardinality(Holders(L, k)) \in Nat
<1>1. IsFiniteSet(Tokens)
  BY FS_Interval, LeaseAssumption DEF Tokens
<1>2. Holders(L, k) \subseteq Tokens
  BY DEF Holders
<1> QED BY <1>1, <1>2, FS_Subset, FS_CardinalityType

\* The counts depend on the keys of the leases alone.
LEMMA SameKeys ==
  ASSUME NEW L, NEW M, \A t \in Tokens : L[t].key = M[t].key
  PROVE  /\ \A k : Holders(L, k) = Holders(M, k)
         /\ Counts(L) = Counts(M)
<1>1. \A k : Holders(L, k) = Holders(M, k)
  BY DEF Holders
<1> QED BY <1>1 DEF Counts

\* Ending leases never gives a key more holders.
LEMMA FewerHolders ==
  ASSUME NEW L, NEW M, \A t \in Tokens : M[t].key \in {0, L[t].key},
         NEW k \in KeyIds
  PROVE  Cardinality(Holders(M, k)) <= Cardinality(Holders(L, k))
<1>1. 0 \notin KeyIds
  BY DEF KeyIds
<1>2. Holders(M, k) \subseteq Holders(L, k)
  BY <1>1 DEF Holders
<1> QED BY <1>2, HoldersFinite, FS_Subset
\* So no transaction that only ends leases exceeds the cap.
LEMMA CapKept ==
  ASSUME CapHolds, \A t \in Tokens : lease'[t].key \in {0, lease[t].key}
  PROVE  CapHolds'
<1> SUFFICES ASSUME NEW k \in KeyIds
             PROVE  Cardinality(Holders(lease', k)) <= Cap
  BY DEF CapHolds
<1>1. Cardinality(Holders(lease', k)) <= Cardinality(Holders(lease, k))
  BY FewerHolders
<1>2. Cardinality(Holders(lease, k)) <= Cap
  BY DEF CapHolds
<1> QED BY <1>1, <1>2, HoldersFinite, LeaseAssumption

-----------------------------------------------------------------------------
(* The transactions on the tables.                                          *)

\* Acquire's transaction: one new lease under a fresh token, others end.
LEMMA GrantTables ==
  ASSUME TableInv, NEW s \in Services, NEW k \in KeyIds, GrantTx(s, k)
  PROVE  /\ TableInv'
         /\ nextToken \in Tokens /\ nextToken' = nextToken + 1
         /\ \A t \in Tokens \ {nextToken} : lease'[t].key \in {0, lease[t].key}
         /\ lease'[nextToken].key = k
         /\ k \in present /\ Cardinality(Holders(lease', k)) <= Cap
<1> DEFINE U == Unexpired
<1>1. /\ nextToken \in Tokens /\ nextToken' = nextToken + 1
      /\ nextToken' \in 1..(MaxToken + 1)
  BY LeaseAssumption DEF GrantTx, TableInv, TableTypes, Tokens
<1>2. /\ k \in present
      /\ Counts(U)[k] < Cap
  BY DEF GrantTx, Picks, Eligible
<1>3. /\ U \in [Tokens -> [key : KeyIds \cup {0}, left : 0..TTL]]
      /\ \A t \in Tokens : U[t].key \in {0, lease[t].key}
  BY LeaseAssumption DEF Unexpired, NoLease, TableInv, TableTypes
<1>4. lease' = [U EXCEPT ![nextToken] = [key |-> k, left |-> TTL]]
  BY DEF GrantTx
<1> HIDE DEF U
<1>5. lease' \in [Tokens -> [key : KeyIds \cup {0}, left : 0..TTL]]
  BY <1>1, <1>3, <1>4, LeaseAssumption
<1>6. /\ \A t \in Tokens \ {nextToken} : lease'[t] = U[t]
      /\ lease'[nextToken].key = k
  BY <1>1, <1>3, <1>4
<1>7. k # 0 /\ 0 \notin KeyIds
  BY DEF KeyIds
<1>8. U[nextToken].key = 0
  BY <1>1, <1>3 DEF TableInv, LeasesHaveRows, TableTypes
<1>9. /\ Holders(lease', k) = Holders(U, k) \cup {nextToken}
      /\ nextToken \notin Holders(U, k)
      /\ \A j \in KeyIds \ {k} : Holders(lease', j) = Holders(U, j)
  BY <1>1, <1>6, <1>7, <1>8 DEF Holders
<1>10. Cardinality(Holders(lease', k)) = Cardinality(Holders(U, k)) + 1
  BY <1>9, HoldersFinite, FS_AddElement
<1>11. \A j \in KeyIds : Counts(U)[j] = Cardinality(Holders(U, j))
  BY DEF Counts
<1>12. inflight' = [Counts(U) EXCEPT ![k] = @ + 1]
  BY DEF GrantTx, U
<1>13. InflightCountsLeases'
  BY <1>9, <1>10, <1>12 DEF InflightCountsLeases, Counts
<1>14. Cardinality(Holders(lease', k)) <= Cap
  BY <1>2, <1>10, <1>11, HoldersFinite, LeaseAssumption
<1>15. CapHolds'
  <2> SUFFICES ASSUME NEW j \in KeyIds
               PROVE  Cardinality(Holders(lease', j)) <= Cap
    BY DEF CapHolds
  <2>1. Cardinality(Holders(U, j)) <= Cardinality(Holders(lease, j))
    BY <1>3, FewerHolders
  <2>2. Cardinality(Holders(lease, j)) <= Cap
    BY DEF TableInv, CapHolds
  <2> QED BY <1>9, <1>14, <2>1, <2>2, HoldersFinite, LeaseAssumption
<1>16. LeasesHaveRows'
  BY <1>1, <1>2, <1>3, <1>6, <1>7 DEF LeasesHaveRows, TableInv, TableTypes, GrantTx, Tokens
<1>17. TableTypes'
  <2>1. inflight' \in [KeyIds -> Nat]
    BY <1>13, HoldersFinite DEF InflightCountsLeases, Counts
  <2>2. row' \in [KeyIds -> Row]
    BY DEF GrantTx, WriteRows, TableInv, TableTypes, Row
  <2>3. counted' \in [KeyIds -> [left : Nat, zeroed : Nat]]
    BY RecountType DEF GrantTx, WriteRows, TableInv, TableTypes
  <2> QED
    BY <1>1, <1>5, <2>1, <2>2, <2>3 DEF TableTypes, TableInv, GrantTx
<1> QED
  BY <1>1, <1>2, <1>3, <1>6, <1>13, <1>14, <1>15, <1>16, <1>17 DEF TableInv

\* Transactions that only end leases, and write the counts they leave.
LEMMA EndTables ==
  ASSUME TableInv,
         lease' \in [Tokens -> [key : KeyIds \cup {0}, left : 0..TTL]],
         \A t \in Tokens : lease'[t].key \in {0, lease[t].key},
         inflight' = Counts(lease'),
         present' = present, nextToken' = nextToken,
         row' \in [KeyIds -> Row], nextSecret' \in 1..(MaxSecret + 1),
         counted' \in [KeyIds -> [left : Nat, zeroed : Nat]]
  PROVE  TableInv'
<1>1. TableTypes'
  <2>1. inflight' \in [KeyIds -> Nat]
    BY HoldersFinite DEF Counts
  <2> QED BY <2>1 DEF TableInv, TableTypes
<1>2. CapHolds'
  BY CapKept DEF TableInv
<1>3. LeasesHaveRows'
  BY DEF LeasesHaveRows, TableInv
<1> QED BY <1>1, <1>2, <1>3 DEF TableInv, InflightCountsLeases

\* Taking a token out of the lease table.
LEMMA TakeTokenEnds ==
  ASSUME TableInv, NEW t \in Tokens, TakeToken(t)
  PROVE  /\ lease' \in [Tokens -> [key : KeyIds \cup {0}, left : 0..TTL]]
         /\ \A u \in Tokens : lease'[u].key \in {0, lease[u].key}
         /\ inflight' = Counts(lease')
<1> DEFINE k == lease[t].key
<1>1. lease' = [lease EXCEPT ![t] = NoLease]
  BY DEF TakeToken, WithoutToken
<1>2. /\ lease' \in [Tokens -> [key : KeyIds \cup {0}, left : 0..TTL]]
      /\ lease'[t].key = 0
      /\ \A u \in Tokens \ {t} : lease'[u] = lease[u]
  BY <1>1, LeaseAssumption DEF NoLease, TableInv, TableTypes
<1>3. k \in KeyIds \cup {0} /\ 0 \notin KeyIds
  BY DEF TableInv, TableTypes, KeyIds
<1>4. \A j \in KeyIds \ {k} : Holders(lease', j) = Holders(lease, j)
  BY <1>2, <1>3 DEF Holders
<1>5. inflight' = IF k = 0 THEN inflight
                  ELSE [inflight EXCEPT ![k] = Cardinality(Holders(lease', k))]
  BY DEF TakeToken
<1>6. inflight = [j \in KeyIds |-> Cardinality(Holders(lease, j))]
  BY DEF TableInv, InflightCountsLeases, Counts
<1> HIDE DEF k
<1>7. inflight' = Counts(lease')
  BY <1>3, <1>4, <1>5, <1>6 DEF Counts
<1> QED BY <1>2, <1>7

\* Deleting a row and its leases.
LEMMA DeleteRowTables ==
  ASSUME TableInv, NEW k \in KeyIds, DeleteRow(k), UNCHANGED <<nextToken, nextSecret>>
  PROVE  /\ TableInv'
         /\ \A t \in Tokens : lease'[t].key \in {0, lease[t].key}
<1>1. /\ lease' \in [Tokens -> [key : KeyIds \cup {0}, left : 0..TTL]]
      /\ \A t \in Tokens : lease'[t] = IF lease[t].key = k THEN NoLease ELSE lease[t]
  BY LeaseAssumption DEF DeleteRow, WithoutKey, NoLease, TableInv, TableTypes
<1>2. \A t \in Tokens : lease'[t].key = IF lease[t].key = k THEN 0 ELSE lease[t].key
  BY <1>1 DEF NoLease
<1>3. 0 \notin KeyIds
  BY DEF KeyIds
<1>4. /\ Holders(lease', k) = {}
      /\ \A j \in KeyIds \ {k} : Holders(lease', j) = Holders(lease, j)
  BY <1>2, <1>3 DEF Holders
<1>5. InflightCountsLeases'
  <2>1. inflight' = [inflight EXCEPT ![k] = 0]
    BY DEF DeleteRow
  <2>2. inflight = [j \in KeyIds |-> Cardinality(Holders(lease, j))]
    BY DEF TableInv, InflightCountsLeases, Counts
  <2>3. Cardinality(Holders(lease', k)) = 0
    BY <1>4, FS_EmptySet
  <2> QED BY <1>4, <2>1, <2>2, <2>3 DEF InflightCountsLeases, Counts
<1>6. CapHolds'
  BY <1>2, CapKept DEF TableInv
<1>7. LeasesHaveRows'
  BY <1>2 DEF LeasesHaveRows, TableInv, DeleteRow
<1>8. TableTypes'
  <2>1. inflight' \in [KeyIds -> Nat]
    BY <1>5, HoldersFinite DEF InflightCountsLeases, Counts
  <2>2. row' \in [KeyIds -> Row]
    BY BlankRowType DEF DeleteRow, WriteRows, TableInv, TableTypes
  <2>3. counted' \in [KeyIds -> [left : Nat, zeroed : Nat]]
    BY RecountType DEF DeleteRow, WriteRows, TableInv, TableTypes
  <2> QED BY <1>1, <2>1, <2>2, <2>3 DEF TableTypes, TableInv, DeleteRow
<1> QED BY <1>2, <1>5, <1>6, <1>7, <1>8 DEF TableInv
\* Statements that write rows and leave the leases alone.
LEMMA WriteTables ==
  ASSUME TableInv, NEW rows \in [KeyIds -> Row], WriteRows(rows),
         UNCHANGED <<present, inflight, lease, nextToken>>,
         nextSecret' \in 1..(MaxSecret + 1)
  PROVE  TableInv'
<1>1. counted' \in [KeyIds -> [left : Nat, zeroed : Nat]]
  BY RecountType DEF WriteRows, TableInv, TableTypes
<1>2. inflight' = Counts(lease')
  BY DEF TableInv, InflightCountsLeases
<1>3. /\ lease' \in [Tokens -> [key : KeyIds \cup {0}, left : 0..TTL]]
      /\ \A t \in Tokens : lease'[t].key \in {0, lease[t].key}
      /\ row' \in [KeyIds -> Row]
  BY DEF TableInv, TableTypes, WriteRows
<1> QED BY <1>1, <1>2, <1>3, EndTables

-----------------------------------------------------------------------------
(* The calls.                                                               *)

\* Call c keeps the lease it has, or has none.
LetsGo(c) ==
  \/ call'[c].token = 0 /\ call'[c].pc \in {"idle", "refused"}
  \/ /\ call[c].token # 0 /\ call'[c].token = call[c].token
     /\ call'[c].key = call[c].key /\ call'[c].pc \in {"using", "dropped"}

LEMMA CallsKept ==
  ASSUME CallInv, CallTypes', \A c \in Calls : LetsGo(c), nextToken' = nextToken,
         \A t \in Tokens : lease'[t].key \in {0, lease[t].key}
  PROVE  CallInv'
<1> SUFFICES ASSUME NEW c \in Calls
             PROVE  /\ call'[c].token # 0 <=> call'[c].pc \in {"using", "dropped"}
                    /\ call'[c].token # 0 =>
                         /\ call'[c].token < nextToken'
                         /\ lease'[call'[c].token].key \in {0, call'[c].key}
                         /\ \A d \in Calls : call'[d].token = call'[c].token => c = d
  BY DEF CallInv, CallsOwnTokens
<1>1. CASE call'[c].token = 0
  BY <1>1 DEF LetsGo
<1>2. CASE call'[c].token # 0
  <2>1. /\ call[c].token # 0 /\ call'[c].token = call[c].token
        /\ call'[c].key = call[c].key /\ call'[c].pc \in {"using", "dropped"}
    BY <1>2 DEF LetsGo
  <2>2. call[c].token \in Tokens
    BY <2>1 DEF CallInv, CallTypes
  <2>3. /\ call[c].token < nextToken
        /\ lease[call[c].token].key \in {0, call[c].key}
        /\ \A d \in Calls : call[d].token = call[c].token => c = d
    BY <2>1 DEF CallInv, CallsOwnTokens
  <2>4. \A d \in Calls : call'[d].token \in {0, call[d].token}
    BY DEF LetsGo
  <2> QED BY <1>2, <2>1, <2>2, <2>3, <2>4
<1> QED BY <1>1, <1>2

\* A call that goes idle or starts to drop keeps or forgets its lease.
LEMMA CallStep ==
  ASSUME CallInv, NEW c \in Calls,
         \/ call' = call
         \/ call' = [call EXCEPT ![c] = Idle]
         \/ call[c].token = 0 /\ call' = [call EXCEPT ![c].pc = "refused"]
         \/ call[c].token # 0 /\ call' = [call EXCEPT ![c].pc = "dropped"]
  PROVE  CallTypes' /\ \A d \in Calls : LetsGo(d)
<1>1. Idle \in [pc : {"idle", "refused", "using", "dropped"},
                key : KeyIds \cup {0}, token : Tokens \cup {0},
                service : Services, secret : 0..MaxSecret]
  BY SomeServiceType, RowAssumption DEF Idle
<1>2. CallTypes'
  BY <1>1 DEF CallInv, CallTypes
<1>3. ASSUME NEW d \in Calls
      PROVE  LetsGo(d)
  BY DEF LetsGo, CallInv, CallTypes, CallsOwnTokens, Idle
<1> QED BY <1>2, <1>3

LEMMA SettleStep ==
  ASSUME CallInv, NEW c \in Calls, call[c].pc = "using", Settle(c)
  PROVE  CallTypes' /\ \A d \in Calls : LetsGo(d)
<1>1. call[c].token # 0
  BY DEF CallInv, CallsOwnTokens
<1> QED BY <1>1, CallStep DEF Settle
-----------------------------------------------------------------------------
(* The invariant is inductive.                                              *)

LEMMA InitInv == Init => IInv
<1> SUFFICES ASSUME Init
             PROVE  IInv
  OBVIOUS
<1>1. TableTypes
  BY BlankRowType, LeaseAssumption, RowAssumption
  DEF Init, TableTypes, NoLease, NoCount, Tokens
<1>2. \A k \in KeyIds : Holders(lease, k) = {}
  BY DEF Init, Holders, NoLease, KeyIds
<1>3. InflightCountsLeases /\ CapHolds
  BY <1>2, FS_EmptySet, LeaseAssumption DEF Init, InflightCountsLeases, CapHolds, Counts
<1>4. LeasesHaveRows
  BY DEF Init, LeasesHaveRows, NoLease
<1>5. CallInv
  BY SomeServiceType, RowAssumption DEF Init, CallInv, CallTypes, CallsOwnTokens, Idle
<1> QED BY <1>1, <1>3, <1>4, <1>5 DEF IInv, TableInv

LEMMA AcquireInv ==
  ASSUME IInv, NEW c \in Calls, NEW s \in Services, Acquire(c, s)
  PROVE  IInv'
<1> PICK k \in KeyIds :
      /\ call[c].pc = "idle"
      /\ GrantTx(s, k)
      /\ call' = [call EXCEPT ![c] =
           [pc |-> "using", key |-> k, token |-> nextToken,
            service |-> s, secret |-> row[k].secret]]
  BY DEF Acquire
<1>1. /\ TableInv'
      /\ nextToken \in Tokens /\ nextToken' = nextToken + 1
      /\ \A t \in Tokens \ {nextToken} : lease'[t].key \in {0, lease[t].key}
      /\ lease'[nextToken].key = k
  BY GrantTables DEF IInv
<1>2. row[k].secret \in 0..MaxSecret
  BY DEF IInv, TableInv, TableTypes, Row
<1>3. CallTypes'
  BY <1>1, <1>2 DEF IInv, CallInv, CallTypes
<1>4. /\ \A d \in Calls \ {c} : call'[d] = call[d]
      /\ call'[c].token = nextToken /\ call'[c].key = k /\ call'[c].pc = "using"
  BY DEF IInv, CallInv, CallTypes
<1>5. \A d \in Calls : call[d].token # 0 => call[d].token \in Tokens /\ call[d].token < nextToken
  BY DEF IInv, CallInv, CallTypes, CallsOwnTokens
<1>6. nextToken # 0
  BY <1>1 DEF Tokens
<1>7. CallsOwnTokens'
  <2> SUFFICES ASSUME NEW d \in Calls
               PROVE  /\ call'[d].token # 0 <=> call'[d].pc \in {"using", "dropped"}
                      /\ call'[d].token # 0 =>
                           /\ call'[d].token < nextToken'
                           /\ lease'[call'[d].token].key \in {0, call'[d].key}
                           /\ \A e \in Calls : call'[e].token = call'[d].token => d = e
    BY DEF CallsOwnTokens
  <2>1. CASE d = c
    BY <1>1, <1>4, <1>5, <1>6, <2>1 DEF Tokens
  <2>2. CASE d # c
    <3>1. /\ call[d].token # 0 <=> call[d].pc \in {"using", "dropped"}
          /\ call[d].token # 0 =>
               /\ call[d].token < nextToken
               /\ lease[call[d].token].key \in {0, call[d].key}
               /\ \A e \in Calls : call[e].token = call[d].token => d = e
      BY DEF IInv, CallInv, CallsOwnTokens
    <3> QED BY <1>1, <1>4, <1>5, <2>2, <3>1 DEF Tokens
  <2> QED BY <2>1, <2>2
<1> QED BY <1>1, <1>3, <1>7 DEF IInv, CallInv

LEMMA AbandonedInv ==
  ASSUME IInv, NEW s \in Services, AcquireAbandoned(s)
  PROVE  IInv'
<1> PICK k \in KeyIds : GrantTx(s, k) /\ UNCHANGED call
  BY DEF AcquireAbandoned
<1>1. /\ TableInv'
      /\ nextToken \in Tokens /\ nextToken' = nextToken + 1
      /\ \A t \in Tokens \ {nextToken} : lease'[t].key \in {0, lease[t].key}
  BY GrantTables DEF IInv
<1>2. CallTypes'
  BY DEF IInv, CallInv, CallTypes
<1>3. CallsOwnTokens'
  <2>1. \A d \in Calls : call[d].token # 0 => call[d].token \in Tokens
    BY DEF IInv, CallInv, CallTypes
  <2> QED BY <1>1, <2>1 DEF IInv, CallInv, CallsOwnTokens, Tokens
<1> QED BY <1>1, <1>2, <1>3 DEF IInv, CallInv

LEMMA RefusedInv ==
  ASSUME IInv, NEW c \in Calls, NEW s \in Services, AcquireRefused(c, s)
  PROVE  IInv'
<1>1. /\ lease' \in [Tokens -> [key : KeyIds \cup {0}, left : 0..TTL]]
      /\ \A t \in Tokens : lease'[t].key \in {0, lease[t].key}
  BY LeaseAssumption DEF AcquireRefused, Unexpired, NoLease, IInv, TableInv, TableTypes
<1>2. TableInv'
  BY <1>1, EndTables DEF AcquireRefused, IInv, TableInv, TableTypes
<1>3. call[c].token = 0
  BY DEF AcquireRefused, IInv, CallInv, CallsOwnTokens
<1>4. CallInv'
  BY <1>1, <1>3, CallStep, CallsKept DEF AcquireRefused, IInv
<1> QED BY <1>2, <1>4 DEF IInv

\* The finishes that give a token back: release, report and the spawned
\* release of a dropped call.
LEMMA FinishInv ==
  ASSUME IInv, NEW c \in Calls, call[c].token # 0, TakeToken(call[c].token),
         UNCHANGED <<present, nextToken, nextSecret>>,
         row' \in [KeyIds -> Row],
         counted' \in [KeyIds -> [left : Nat, zeroed : Nat]],
         \/ call[c].pc = "using" /\ Settle(c)
         \/ call' = [call EXCEPT ![c] = Idle]
  PROVE  IInv'
<1>1. call[c].token \in Tokens
  BY DEF IInv, CallInv, CallTypes
<1>2. /\ lease' \in [Tokens -> [key : KeyIds \cup {0}, left : 0..TTL]]
      /\ \A u \in Tokens : lease'[u].key \in {0, lease[u].key}
      /\ inflight' = Counts(lease')
  BY <1>1, TakeTokenEnds DEF IInv
<1>3. TableInv'
  BY <1>2, EndTables DEF IInv, TableInv, TableTypes
<1>4. CallInv'
  BY <1>2, SettleStep, CallStep, CallsKept DEF IInv
<1> QED BY <1>3, <1>4 DEF IInv
LEMMA ReleaseInv ==
  ASSUME IInv, NEW c \in Calls, Release(c)
  PROVE  IInv'
<1>1. call[c].token # 0
  BY DEF Release, IInv, CallInv, CallsOwnTokens
<1> QED BY <1>1, FinishInv DEF Release, IInv, TableInv, TableTypes

LEMMA ReportInv ==
  ASSUME IInv, NEW c \in Calls, NEW v \in Verdicts, Report(c, v)
  PROVE  IInv'
<1> DEFINE t == call[c].token
           k == lease[t].key
<1>1. /\ call[c].pc = "using" /\ TakeToken(t) /\ Settle(c)
      /\ UNCHANGED <<present, nextToken, nextSecret>>
  BY DEF Report
<1>2. t # 0 /\ t \in Tokens
  BY <1>1 DEF IInv, CallInv, CallTypes, CallsOwnTokens
<1>3. /\ row' \in [KeyIds -> Row]
      /\ counted' \in [KeyIds -> [left : Nat, zeroed : Nat]]
  <2>1. CASE k = 0
    BY <2>1 DEF Report, IInv, TableInv, TableTypes
  <2>2. CASE k # 0
    <3>1. k \in KeyIds
      BY <1>2, <2>2 DEF IInv, TableInv, TableTypes
    <3>2. PICK post \in HealthWrites(v, row[k]) :
            /\ row' = [row EXCEPT ![k] = post]
            /\ counted' = Recount(row', k, Transition(v, row[k], post))
      BY <2>2 DEF Report
    <3>3. post \in Row
      BY <3>1, HealthWritesType DEF IInv, TableInv, TableTypes
    <3> QED
      BY <3>1, <3>2, <3>3, RecountType DEF IInv, TableInv, TableTypes
  <2> QED BY <2>1, <2>2
<1> QED BY <1>1, <1>2, <1>3, FinishInv

LEMMA BanInv ==
  ASSUME IInv, NEW c \in Calls, Ban(c)
  PROVE  IInv'
<1>1. /\ call[c].pc = "using" /\ Settle(c)
      /\ UNCHANGED <<nextToken, nextSecret>>
  BY DEF Ban
<1>2. /\ TableInv'
      /\ \A t \in Tokens : lease'[t].key \in {0, lease[t].key}
  <2>1. CASE call[c].key \in present /\ DeleteRow(call[c].key)
    <3>1. call[c].key \in KeyIds
      BY <2>1 DEF IInv, TableInv, TableTypes
    <3> QED BY <1>1, <2>1, <3>1, DeleteRowTables DEF IInv
  <2>2. CASE UNCHANGED <<present, lease, inflight, row, counted>>
    BY <1>1, <2>2, EndTables DEF IInv, TableInv, TableTypes, InflightCountsLeases
  <2> QED BY <2>1, <2>2 DEF Ban
<1>3. CallInv'
  BY <1>1, <1>2, SettleStep, CallsKept DEF IInv
<1> QED BY <1>2, <1>3 DEF IInv

LEMMA DropReleaseInv ==
  ASSUME IInv, NEW c \in Calls, DropRelease(c)
  PROVE  IInv'
<1>1. call[c].token # 0
  BY DEF DropRelease, IInv, CallInv, CallsOwnTokens
<1>2. CASE TakeToken(call[c].token)
  BY <1>1, <1>2, FinishInv DEF DropRelease, IInv, TableInv, TableTypes
<1>3. CASE UNCHANGED <<lease, inflight>>
  <2>1. TableInv'
    BY <1>3, EndTables DEF DropRelease, IInv, TableInv, TableTypes, InflightCountsLeases
  <2>2. CallInv'
    BY <1>3, CallStep, CallsKept DEF DropRelease, IInv
  <2> QED BY <2>1, <2>2 DEF IInv
<1> QED BY <1>2, <1>3 DEF DropRelease

\* Steps that keep the tables and only move one call.
LEMMA CallOnlyInv ==
  ASSUME IInv, NEW c \in Calls, Forget(c) \/ Drop(c)
  PROVE  IInv'
<1>1. UNCHANGED <<present, row, inflight, lease, nextToken, nextSecret, counted>>
  BY DEF Forget, Drop
<1>2. TableInv'
  BY <1>1, EndTables DEF IInv, TableInv, TableTypes, InflightCountsLeases
<1>3. CallTypes' /\ \A d \in Calls : LetsGo(d)
  <2>1. Drop(c) => call[c].token # 0
    BY DEF Drop, IInv, CallInv, CallsOwnTokens
  <2> QED BY <2>1, CallStep DEF Forget, Drop, IInv
<1>4. CallInv'
  BY <1>1, <1>3, CallsKept DEF IInv
<1> QED BY <1>2, <1>4 DEF IInv

\* A re-stamp and the clock move the deadlines and no lease to another key.
LEMMA DeadlinesInv ==
  ASSUME IInv, Tick \/ \E c \in Calls : Refresh(c)
  PROVE  IInv'
<1>1. UNCHANGED <<present, row, inflight, nextToken, nextSecret, call, counted>>
  BY DEF Tick, Refresh
<1>2. /\ lease' \in [Tokens -> [key : KeyIds \cup {0}, left : 0..TTL]]
      /\ \A t \in Tokens : lease'[t].key = lease[t].key
  <2>1. CASE Tick
    <3>1. lease' = [t \in Tokens |->
                     [lease[t] EXCEPT !.left = IF @ = 0 THEN 0 ELSE @ - 1]]
      BY <2>1 DEF Tick
    <3>2. ASSUME NEW t \in Tokens
          PROVE  /\ lease'[t] \in [key : KeyIds \cup {0}, left : 0..TTL]
                 /\ lease'[t].key = lease[t].key
      <4>1. lease[t] \in [key : KeyIds \cup {0}, left : 0..TTL]
        BY DEF IInv, TableInv, TableTypes
      <4>2. (IF lease[t].left = 0 THEN 0 ELSE lease[t].left - 1) \in 0..TTL
        BY <4>1, LeaseAssumption
      <4> QED BY <3>1, <4>1, <4>2
    <3> QED BY <3>1, <3>2
  <2>2. CASE \E c \in Calls : Refresh(c)
    <3> PICK c \in Calls : lease' = [lease EXCEPT ![call[c].token].left = TTL]
      BY <2>2 DEF Refresh
    <3>1. TTL \in 0..TTL
      BY LeaseAssumption
    <3> QED BY <3>1 DEF IInv, TableInv, TableTypes
  <2> QED BY <2>1, <2>2
<1>3. inflight' = Counts(lease')
  BY <1>1, <1>2, SameKeys DEF IInv, TableInv, InflightCountsLeases
<1>4. TableInv'
  BY <1>1, <1>2, <1>3, EndTables DEF IInv, TableInv, TableTypes
<1>5. CallInv'
  <2>1. CallTypes' /\ \A d \in Calls : LetsGo(d)
    BY <1>1 DEF IInv, CallInv, CallTypes, CallsOwnTokens, LetsGo
  <2> QED BY <1>1, <1>2, <2>1, CallsKept DEF IInv
<1> QED BY <1>4, <1>5 DEF IInv
LEMMA RestartInv ==
  ASSUME IInv, Restart
  PROVE  IInv'
<1>1. /\ lease' \in [Tokens -> [key : KeyIds \cup {0}, left : 0..TTL]]
      /\ \A t \in Tokens : lease'[t].key \in {0, lease[t].key}
  BY LeaseAssumption DEF Restart, NoLease, IInv, TableInv, TableTypes
<1>2. inflight' = Counts(lease')
  <2>1. CASE UNCHANGED <<lease, inflight>>
    BY <2>1 DEF IInv, TableInv, InflightCountsLeases
  <2>2. CASE /\ lease' = [t \in Tokens |-> NoLease]
             /\ inflight' = [k \in KeyIds |-> 0]
    <3>1. \A k \in KeyIds : Holders(lease', k) = {}
      BY <2>2 DEF Holders, NoLease, KeyIds
    <3> QED BY <2>2, <3>1, FS_EmptySet DEF Counts
  <2> QED BY <2>1, <2>2 DEF Restart
<1>3. TableInv'
  BY <1>1, <1>2, EndTables DEF Restart, IInv, TableInv, TableTypes
<1>4. CallTypes' /\ \A c \in Calls : LetsGo(c)
  BY SomeServiceType, RowAssumption DEF Restart, CallTypes, Idle, LetsGo
<1>5. CallInv'
  BY <1>1, <1>4, CallsKept DEF Restart, IInv
<1> QED BY <1>3, <1>5 DEF IInv

\* The calls do not notice what changes in the tables beside them.
LEMMA CallsUnmoved ==
  ASSUME IInv, UNCHANGED <<call, nextToken>>,
         \A t \in Tokens : lease'[t].key \in {0, lease[t].key}
  PROVE  CallInv'
<1>1. CallTypes' /\ \A c \in Calls : LetsGo(c)
  BY DEF IInv, CallInv, CallTypes, CallsOwnTokens, LetsGo
<1> QED BY <1>1, CallsKept DEF IInv

LEMMA InsertKeyInv ==
  ASSUME IInv, NEW s \in Services, InsertKey(s)
  PROVE  IInv'
<1> PICK k \in KeyIds :
      /\ nextSecret <= MaxSecret
      /\ present' = present \cup {k}
      /\ WriteRows([row EXCEPT ![k] = FreshRow(s, nextSecret)])
      /\ nextSecret' = nextSecret + 1
      /\ UNCHANGED <<inflight, lease, nextToken, call>>
  BY DEF InsertKey
<1>1. nextSecret \in 0..MaxSecret /\ nextSecret' \in 1..(MaxSecret + 1)
  BY RowAssumption DEF IInv, TableInv, TableTypes
<1>2. row' \in [KeyIds -> Row]
  BY <1>1, FreshRowType DEF WriteRows, IInv, TableInv, TableTypes
<1>3. counted' \in [KeyIds -> [left : Nat, zeroed : Nat]]
  BY RecountType DEF WriteRows, IInv, TableInv, TableTypes
<1>4. TableTypes'
  BY <1>1, <1>2, <1>3 DEF IInv, TableInv, TableTypes
<1>5. InflightCountsLeases' /\ CapHolds'
  BY DEF IInv, TableInv, InflightCountsLeases, CapHolds
<1>6. LeasesHaveRows'
  BY DEF IInv, TableInv, LeasesHaveRows
<1>7. CallInv'
  BY CallsUnmoved DEF IInv, TableInv, TableTypes
<1> QED BY <1>4, <1>5, <1>6, <1>7 DEF IInv, TableInv

LEMMA DeleteKeyInv ==
  ASSUME IInv, NEW k \in KeyIds, DeleteKey(k)
  PROVE  IInv'
<1>1. /\ TableInv'
      /\ \A t \in Tokens : lease'[t].key \in {0, lease[t].key}
  BY DeleteRowTables DEF DeleteKey, IInv
<1> QED BY <1>1, CallsUnmoved DEF DeleteKey, IInv

\* The operator's and the cron's writes to a row, and the end of a cooldown.
RowWrite(k) ==
  \/ CooldownEnds(k)
  \/ \E on \in BOOLEAN : SetActive(k, on)
  \/ RotateKey(k)
  \/ \E s \in Services : MoveKey(k, s) \/ ReplaceKey(k, s)
  \/ \E b \in 0..MaxCredits : SyncCredits(k, b)

LEMMA RowWriteInv ==
  ASSUME IInv, ReenableStale \/ \E k \in KeyIds : RowWrite(k)
  PROVE  IInv'
<1>1. /\ row \in [KeyIds -> Row]
      /\ nextSecret \in 1..(MaxSecret + 1)
  BY DEF IInv, TableInv, TableTypes
<1>2. \E rows \in [KeyIds -> Row] : WriteRows(rows)
  <2>1. CASE ReenableStale
    BY <1>1, <2>1, AdminWritesType DEF ReenableStale
  <2>2. ASSUME NEW k \in KeyIds, CooldownEnds(k)
        PROVE  \E rows \in [KeyIds -> Row] : WriteRows(rows)
    <3>1. [row EXCEPT ![k].cooling = FALSE] \in [KeyIds -> Row]
      BY <1>1 DEF Row
    <3> QED BY <2>2, <3>1 DEF CooldownEnds
  <2>3. ASSUME NEW k \in KeyIds, NEW on \in BOOLEAN, SetActive(k, on)
        PROVE  \E rows \in [KeyIds -> Row] : WriteRows(rows)
    BY <1>1, <2>3, AdminWritesType DEF SetActive
  <2>4. ASSUME NEW k \in KeyIds, RotateKey(k)
        PROVE  \E rows \in [KeyIds -> Row] : WriteRows(rows)
    <3>1. nextSecret \in 0..MaxSecret
      BY <1>1, <2>4, RowAssumption DEF RotateKey
    <3> QED BY <1>1, <2>4, <3>1, AdminWritesType DEF RotateKey
  <2>5. ASSUME NEW k \in KeyIds, NEW s \in Services, MoveKey(k, s)
        PROVE  \E rows \in [KeyIds -> Row] : WriteRows(rows)
    BY <1>1, <2>5, AdminWritesType DEF MoveKey
  <2>6. ASSUME NEW k \in KeyIds, NEW b \in 0..MaxCredits, SyncCredits(k, b)
        PROVE  \E rows \in [KeyIds -> Row] : WriteRows(rows)
    BY <1>1, <2>6, AdminWritesType DEF SyncCredits
  <2>7. ASSUME NEW k \in KeyIds, NEW s \in Services, ReplaceKey(k, s)
        PROVE  \E rows \in [KeyIds -> Row] : WriteRows(rows)
    <3>1. nextSecret \in 0..MaxSecret
      BY <1>1, <2>7, RowAssumption DEF ReplaceKey
    <3>2. MovedRow(RotatedRow(row[k], nextSecret), s) \in Row
      BY <1>1, <3>1, AdminWritesType
    <3> QED BY <1>1, <2>7, <3>2 DEF ReplaceKey
  <2> QED BY <2>1, <2>2, <2>3, <2>4, <2>5, <2>6, <2>7 DEF RowWrite
<1>3. /\ UNCHANGED <<present, inflight, lease, nextToken, call>>
      /\ nextSecret' \in 1..(MaxSecret + 1)
  <2>1. ASSUME NEW k \in KeyIds, RotateKey(k) \/ \E s \in Services : ReplaceKey(k, s)
        PROVE  /\ UNCHANGED <<present, inflight, lease, nextToken, call>>
               /\ nextSecret' \in 1..(MaxSecret + 1)
    <3>1. /\ UNCHANGED <<present, inflight, lease, nextToken, call>>
          /\ nextSecret <= MaxSecret /\ nextSecret' = nextSecret + 1
      BY <2>1 DEF RotateKey, ReplaceKey
    <3> QED BY <1>1, <3>1, RowAssumption
  <2>2. CASE ~ \E k \in KeyIds : RotateKey(k) \/ \E s \in Services : ReplaceKey(k, s)
    BY <1>1, <2>2 DEF ReenableStale, RowWrite, CooldownEnds, SetActive, MoveKey, SyncCredits
  <2> QED BY <2>1, <2>2
<1>4. TableInv'
  BY <1>2, <1>3, WriteTables DEF IInv
<1>5. CallInv'
  BY <1>3, CallsUnmoved DEF IInv, TableInv, TableTypes
<1> QED BY <1>4, <1>5 DEF IInv

LEMMA StutterInv ==
  ASSUME IInv, UNCHANGED vars
  PROVE  IInv'
BY DEF IInv, TableInv, TableTypes, InflightCountsLeases, Counts, CapHolds, Holders,
       LeasesHaveRows, CallInv, CallTypes, CallsOwnTokens, vars

\* Every step of the specification keeps the invariant.
LEMMA StepInv == IInv /\ [Next]_vars => IInv'
<1> SUFFICES ASSUME IInv, [Next]_vars
             PROVE  IInv'
  OBVIOUS
<1>1. ASSUME NEW c \in Calls, CallNext(c)
      PROVE  IInv'
  BY <1>1, AcquireInv, RefusedInv, CallOnlyInv, ReleaseInv, ReportInv, BanInv,
     DropReleaseInv, DeadlinesInv DEF CallNext
<1>2. CASE EnvironmentNext
  BY <1>2, AbandonedInv, DeadlinesInv, RowWriteInv, RestartInv
  DEF EnvironmentNext, RowWrite
<1>3. CASE OperatorNext
  <2>1. ASSUME NEW s \in Services, InsertKey(s)
        PROVE  IInv'
    BY <2>1, InsertKeyInv
  <2>2. ASSUME NEW k \in KeyIds, DeleteKey(k)
        PROVE  IInv'
    BY <2>2, DeleteKeyInv
  <2>3. ASSUME NEW k \in KeyIds, RowWrite(k)
        PROVE  IInv'
    BY <2>3, RowWriteInv
  <2> QED BY <1>3, <2>1, <2>2, <2>3 DEF OperatorNext, RowWrite
<1>4. CASE UNCHANGED vars
  BY <1>4, StutterInv
<1> QED BY <1>1, <1>2, <1>3, <1>4 DEF Next

LEMMA SpecInv == Spec => []IInv
BY InitInv, StepInv, PTL DEF Spec
-----------------------------------------------------------------------------
(* Theorems about leases.                                                   *)

\* Every variable keeps its type; in particular no report drives a balance
\* below 0 and no report on a lost lease touches a row outside the table.
THEOREM TypeCorrect == Spec => []TypeOK
<1>1. IInv => TypeOK
  BY DEF IInv, TableInv, CallInv, TypeOK
<1> QED BY <1>1, SpecInv, PTL

\* No key ever has more lease rows than max_inflight, for any cap, any number
\* of calls and any interleaving with expiry, deletion and restarts.
THEOREM CapIsRespected == Spec => []CapHolds
<1>1. IInv => CapHolds
  BY DEF IInv, TableInv
<1> QED BY <1>1, SpecInv, PTL

\* The stored column api_keys.inflight equals the number of lease rows in every
\* reachable state, whichever of the reconcile, release, report, delete and boot
\* statements wrote last, and a lease belongs to an existing row and to one call
\* at most, although row ids are reused: what makes report and release by token
\* safe.
THEOREM LeaseTableIsExact == Spec => []LeasesAreExact
<1>1. IInv => LeasesAreExact
  BY DEF IInv, TableInv, CallInv, LeasesAreExact
<1> QED BY <1>1, SpecInv, PTL

-----------------------------------------------------------------------------
(* The lease tables implement the slots of KeySlots.                        *)

Ends ==
  /\ nextToken' = nextToken
  /\ \A t \in Tokens : lease'[t].key \in {0, lease[t].key}

\* Every step issues one lease or only ends leases.
LEMMA LeaseSteps ==
  ASSUME IInv, [Next]_vars
  PROVE  Ends \/ \E s \in Services, k \in KeyIds : GrantTx(s, k)
<1>1. /\ lease \in [Tokens -> [key : KeyIds \cup {0}, left : 0..TTL]]
      /\ \A c \in Calls : call[c].pc \in {"using", "dropped"} => call[c].token \in Tokens
  BY DEF IInv, TableInv, TableTypes, CallInv, CallTypes, CallsOwnTokens
<1>2. ASSUME NEW t \in Tokens, TakeToken(t), nextToken' = nextToken
      PROVE  Ends
  BY <1>2, TakeTokenEnds DEF IInv, Ends
<1>3. ASSUME NEW c \in Calls, CallNext(c)
      PROVE  Ends \/ \E s \in Services, k \in KeyIds : GrantTx(s, k)
  <2>1. CASE \E s \in Services : Acquire(c, s)
    BY <2>1 DEF Acquire
  <2>2. CASE \E s \in Services : AcquireRefused(c, s)
    BY <1>1, <2>2 DEF AcquireRefused, Unexpired, NoLease, Ends
  <2>3. CASE Forget(c) \/ Drop(c)
    BY <2>3 DEF Forget, Drop, Ends
  <2>4. CASE Release(c) \/ \E v \in Verdicts : Report(c, v)
    BY <1>1, <1>2, <2>4 DEF Release, Report
  <2>5. CASE Ban(c)
    BY <1>1, <2>5 DEF Ban, DeleteRow, WithoutKey, NoLease, Ends
  <2>6. CASE DropRelease(c)
    BY <1>1, <1>2, <2>6 DEF DropRelease, Ends
  <2>7. CASE Refresh(c)
    BY <1>1, <2>7 DEF Refresh, Ends
  <2> QED BY <1>3, <2>1, <2>2, <2>3, <2>4, <2>5, <2>6, <2>7 DEF CallNext
<1>4. CASE EnvironmentNext
  <2>1. CASE \E s \in Services : AcquireAbandoned(s)
    BY <2>1 DEF AcquireAbandoned
  <2>2. CASE Tick
    BY <1>1, <2>2 DEF Tick, Ends
  <2>3. CASE (\E k \in KeyIds : CooldownEnds(k)) \/ ReenableStale
    BY <2>3 DEF CooldownEnds, ReenableStale, Ends
  <2>4. CASE Restart
    BY <2>4 DEF Restart, NoLease, Ends
  <2> QED BY <1>4, <2>1, <2>2, <2>3, <2>4 DEF EnvironmentNext
<1>5. CASE OperatorNext
  <2>1. ASSUME NEW k \in KeyIds, DeleteKey(k)
        PROVE  Ends
    BY <1>1, <2>1 DEF DeleteKey, DeleteRow, WithoutKey, NoLease, Ends
  <2>2. ASSUME UNCHANGED <<lease, nextToken>>
        PROVE  Ends
    BY <2>2 DEF Ends
  <2> QED
    BY <1>5, <2>1, <2>2
    DEF OperatorNext, InsertKey, SetActive, RotateKey, MoveKey, ReplaceKey, SyncCredits
<1>6. CASE UNCHANGED vars
  BY <1>6 DEF vars, Ends
<1> QED BY <1>3, <1>4, <1>5, <1>6 DEF Next

\* The instance counts as this module does.
LEMMA SlotCardinality ==
  ASSUME NEW S
  PROVE  Slots!Cardinality(S) = Cardinality(S)
BY DEF Slots!Cardinality, Cardinality

\* The leases of key k are its holders and the tokens are the tickets: the
\* detailed lease tables implement the abstract slots.
THEOREM LeasesImplementSlots == Spec => SlotSpec
<1> DEFINE H == [k \in KeyIds |-> Holders(lease, k)]
<1>1. Init => Slots!SlotInit
  BY DEF Init, Slots!SlotInit, Holders, NoLease, KeyIds
<1>2. IInv /\ IInv' /\ [Next]_vars => [Slots!SlotNext]_(Slots!slotVars)
  <2> SUFFICES ASSUME IInv, IInv', [Next]_vars
               PROVE  Slots!SlotNext
    OBVIOUS
  <2>1. nextToken \in Nat /\ nextToken' \in Nat
    BY LeaseAssumption DEF IInv, TableInv, TableTypes
  <2>2. H' \in [KeyIds -> SUBSET (1..(nextToken' - 1))]
    BY <2>1 DEF IInv, TableInv, LeasesHaveRows, Holders, KeyIds, Tokens
  <2>3. CASE Ends
    <3>1. \A k \in KeyIds : H'[k] \subseteq H[k]
      BY <2>3 DEF Ends, Holders, KeyIds
    <3> QED BY <2>2, <2>3, <3>1 DEF Slots!SlotNext, Slots!End, Ends
  <2>4. ASSUME NEW s \in Services, NEW k \in KeyIds, GrantTx(s, k)
        PROVE  Slots!Issue(k)
    <3>1. /\ nextToken \in Tokens /\ nextToken' = nextToken + 1
          /\ \A t \in Tokens \ {nextToken} : lease'[t].key \in {0, lease[t].key}
          /\ lease'[nextToken].key = k
          /\ Cardinality(Holders(lease', k)) <= Cap
      BY <2>4, GrantTables DEF IInv
    <3>2. nextToken' - 1 = (nextToken - 1) + 1 /\ nextToken' - 1 = nextToken
      BY <2>1, <3>1
    <3>3. \A j \in KeyIds : H'[j] \ {nextToken} \subseteq H[j]
      BY <3>1 DEF Holders, KeyIds
    <3>4. \A j \in KeyIds : nextToken \in H'[j] <=> j = k
      BY <3>1 DEF Holders
    <3>5. Slots!Cardinality(H'[k]) <= Cap
      BY <3>1, SlotCardinality
    <3> QED BY <2>2, <3>2, <3>3, <3>4, <3>5 DEF Slots!Issue
  <2> QED BY <2>3, <2>4, LeaseSteps DEF Slots!SlotNext
<1> QED BY <1>1, <1>2, SpecInv, PTL DEF Spec, SlotSpec, Slots!SlotSpec
-----------------------------------------------------------------------------
(* What a step may do to the leases and rows of others.                     *)

\* A lease that has not expired goes by its own call, with its row or at boot.
LEMMA OwnLeaseStep ==
  ASSUME IInv, present' \subseteq KeyIds, [Next]_vars
  PROVE  OnlyOwnLeaseEnds
<1> SUFFICES ASSUME NEW t \in Tokens, lease[t].left > 0, lease'[t].key = 0, lease[t].key # 0
             PROVE  \/ \E c \in Calls : call[c].token = t /\ call'[c].pc # "using"
                    \/ lease[t].key \notin present'
                    \/ Restart
  BY DEF OnlyOwnLeaseEnds, KeyIds
<1>1. /\ lease \in [Tokens -> [key : KeyIds \cup {0}, left : 0..TTL]]
      /\ call \in [Calls -> [pc : {"idle", "refused", "using", "dropped"},
                             key : KeyIds \cup {0}, token : Tokens \cup {0},
                             service : Services, secret : 0..MaxSecret]]
  BY DEF IInv, TableInv, TableTypes, CallInv, CallTypes
<1>2. ASSUME NEW s \in Services, NEW k \in KeyIds, GrantTx(s, k)
      PROVE  FALSE
  BY <1>1, <1>2 DEF GrantTx, Unexpired, KeyIds
<1>3. ASSUME NEW k, DeleteRow(k)
      PROVE  lease[t].key \notin present'
  BY <1>1, <1>3 DEF DeleteRow, WithoutKey
<1>4. ASSUME NEW u, TakeToken(u)
      PROVE  t = u
  BY <1>1, <1>4 DEF TakeToken, WithoutToken
<1>5. ASSUME lease' = lease
      PROVE  FALSE
  BY <1>5
<1>6. ASSUME NEW c \in Calls, CallNext(c)
      PROVE  \/ call[c].token = t /\ call'[c].pc # "using"
             \/ lease[t].key \notin present'
  <2>1. CASE \E s \in Services : Acquire(c, s)
    BY <1>2, <2>1 DEF Acquire
  <2>2. CASE \E s \in Services : AcquireRefused(c, s)
    BY <1>1, <2>2 DEF AcquireRefused, Unexpired
  <2>3. CASE Forget(c) \/ Drop(c)
    BY <1>5, <2>3 DEF Forget, Drop
  <2>4. CASE Release(c) \/ \E v \in Verdicts : Report(c, v)
    BY <1>1, <1>4, <2>4 DEF Release, Report, Settle, Idle
  <2>5. CASE Ban(c)
    BY <1>3, <1>5, <2>5 DEF Ban
  <2>6. CASE DropRelease(c)
    BY <1>1, <1>4, <1>5, <2>6 DEF DropRelease, Idle
  <2>7. CASE Refresh(c)
    BY <1>1, <2>7 DEF Refresh
  <2> QED BY <1>6, <2>1, <2>2, <2>3, <2>4, <2>5, <2>6, <2>7 DEF CallNext
<1>7. CASE EnvironmentNext
  <2>1. CASE \E s \in Services : AcquireAbandoned(s)
    BY <1>2, <2>1 DEF AcquireAbandoned
  <2>2. CASE Tick
    BY <1>1, <2>2 DEF Tick
  <2>3. CASE (\E k \in KeyIds : CooldownEnds(k)) \/ ReenableStale
    BY <1>5, <2>3 DEF CooldownEnds, ReenableStale
  <2> QED BY <1>7, <2>1, <2>2, <2>3 DEF EnvironmentNext
<1>8. CASE OperatorNext
  <2>1. CASE \E k \in KeyIds : DeleteKey(k)
    BY <1>3, <2>1 DEF DeleteKey
  <2> QED
    BY <1>5, <1>8, <2>1
    DEF OperatorNext, InsertKey, SetActive, RotateKey, MoveKey, ReplaceKey, SyncCredits
<1>9. CASE UNCHANGED vars
  BY <1>5, <1>9 DEF vars
<1> QED BY <1>6, <1>7, <1>8, <1>9 DEF Next

\* The step in which a call finishes writes the row of its lease or none.
LEMMA OwnRowStep ==
  ASSUME IInv, [Next]_vars
  PROVE  NoLateVerdict
<1> SUFFICES ASSUME NEW k \in present, NEW c \in Calls,
                    call[c].pc = "using", call'[c].pc # "using", call'[c] # call[c],
                    k \in present', row'[k] # row[k]
             PROVE  lease[call[c].token].key = k
  BY DEF NoLateVerdict
<1>1. /\ row \in [KeyIds -> Row] /\ k \in KeyIds
      /\ call \in [Calls -> [pc : {"idle", "refused", "using", "dropped"},
                             key : KeyIds \cup {0}, token : Tokens \cup {0},
                             service : Services, secret : 0..MaxSecret]]
  BY DEF IInv, TableInv, TableTypes, CallInv, CallTypes
<1>2. row' # row /\ call' # call
  OBVIOUS
<1>3. ASSUME NEW j, DeleteRow(j)
      PROVE  FALSE
  BY <1>1, <1>3 DEF DeleteRow, WriteRows
<1>4. ASSUME NEW d \in Calls, CallNext(d)
      PROVE  lease[call[c].token].key = k
  <2>1. CASE \E s \in Services : Acquire(d, s)
    BY <1>1, <2>1 DEF Acquire
  <2>2. CASE Ban(d)
    BY <1>2, <1>3, <2>2 DEF Ban
  <2>3. ASSUME NEW v \in Verdicts, Report(d, v)
        PROVE  lease[call[c].token].key = k
    <3>1. d = c
      BY <1>1, <2>3 DEF Report, Settle
    <3>2. lease[call[d].token].key = k
      BY <1>1, <2>3 DEF Report
    <3> QED BY <3>1, <3>2
  <2> QED
    BY <1>2, <1>4, <2>1, <2>2, <2>3
    DEF CallNext, AcquireRefused, Forget, Release, Drop, DropRelease, Refresh
<1>5. CASE EnvironmentNext
  BY <1>2, <1>5
  DEF EnvironmentNext, AcquireAbandoned, Tick, CooldownEnds, Restart, ReenableStale
<1>6. CASE OperatorNext
  BY <1>2, <1>6
  DEF OperatorNext, InsertKey, DeleteKey, SetActive, RotateKey, MoveKey, ReplaceKey, SyncCredits
<1>7. CASE UNCHANGED vars
  BY <1>2, <1>7 DEF vars
<1> QED BY <1>4, <1>5, <1>6, <1>7 DEF Next

\* However late a call ends, and whatever happened to its lease meanwhile, it
\* frees no slot but its own and writes no row but that of its lease.
THEOREM LateEndsAreHarmless == Spec => LateEndIsHarmless
<1>1. IInv /\ IInv' /\ [Next]_vars => OnlyOwnLeaseEnds /\ NoLateVerdict
  <2>1. IInv' => present' \subseteq KeyIds
    BY DEF IInv, TableInv, TableTypes
  <2> QED BY <2>1, OwnLeaseStep, OwnRowStep
<1> QED BY <1>1, SpecInv, PTL DEF Spec, LateEndIsHarmless

-----------------------------------------------------------------------------
(* Which key an acquire hands out.                                          *)

\* What is left of a key after the reclaim are its holds that have not expired.
LEMMA UnexpiredHolders ==
  ASSUME IInv, NEW k \in KeyIds
  PROVE  Holders(Unexpired, k) = {t \in Tokens : lease[t].key = k /\ lease[t].left > 0}
BY DEF IInv, TableInv, TableTypes, Holders, Unexpired, NoLease, KeyIds

\* A key that is not eligible although it is active has no free slot.
LEMMA NotEligible ==
  ASSUME NEW s, NEW k \in present, present \subseteq KeyIds,
         row[k].service = s, row[k].active, k \notin Eligible(s, Counts(Unexpired))
  PROVE  Cardinality(Holders(Unexpired, k)) >= Cap
BY HoldersFinite, LeaseAssumption DEF Eligible, Counts

LEMMA RefusedStep ==
  ASSUME IInv
  PROVE  RefusedOnlyAtCap
<1> SUFFICES ASSUME NEW c \in Calls, NEW s \in Services, AcquireRefused(c, s),
                    NEW k \in present, row[k].service = s, row[k].active
             PROVE  LiveHolds(k) >= Cap
  BY DEF RefusedOnlyAtCap
<1>1. present \subseteq KeyIds
  BY DEF IInv, TableInv, TableTypes
<1>2. k \notin Eligible(s, Counts(Unexpired))
  BY DEF AcquireRefused
<1> QED BY <1>1, <1>2, NotEligible, UnexpiredHolders DEF LiveHolds

\* A quotient rounded down is less than one from the exact one.
LEMMA Quotient ==
  ASSUME NEW a \in Nat, NEW b \in Nat, b > 0
  PROVE  /\ a \div b \in Nat
         /\ (a \div b) * b <= a
         /\ a < (a \div b) * b + b
OBVIOUS

LEMMA TimesMonotone ==
  ASSUME NEW x \in Nat, NEW y \in Nat, NEW m \in Nat, x <= y
  PROVE  x * m <= y * m
OBVIOUS

LEMMA TimesStrict ==
  ASSUME NEW x \in Nat, NEW y \in Nat, NEW m \in Nat, m > 0, x < y
  PROVE  x * m < y * m
OBVIOUS

LEMMA TimesSwap ==
  ASSUME NEW x \in Nat, NEW y \in Nat, NEW z \in Nat
  PROVE  x * y * z = x * z * y
OBVIOUS

\* Where the rounded shares are in order, the exact ones are, to within one.
LEMMA ShareOrder ==
  ASSUME NEW a \in Nat, NEW c \in Nat, NEW b \in Nat, NEW d \in Nat, b > 0, d > 0,
         a \div b <= c \div d
  PROVE  a * d < c * b + b * d
<1> DEFINE p == a \div b
           q == c \div d
<1>1. /\ p \in Nat /\ q \in Nat /\ p <= q
      /\ a < p * b + b /\ q * d <= c
  BY Quotient
<1> HIDE DEF p, q
<1>2. a * d < (p * b + b) * d
  BY <1>1, TimesStrict
<1>3. (p * b + b) * d = p * b * d + b * d
  BY <1>1
<1>4. p * b * d <= q * b * d
  <2>1. p * b <= q * b
    BY <1>1, TimesMonotone
  <2> QED BY <1>1, <2>1, TimesMonotone
<1>5. q * b * d = q * d * b
  BY <1>1, TimesSwap
<1>6. q * d * b <= c * b
  BY <1>1, TimesMonotone
<1>7. /\ a * d \in Nat /\ p * b * d \in Nat /\ q * b * d \in Nat
      /\ q * d * b \in Nat /\ c * b \in Nat /\ b * d \in Nat
  BY <1>1
<1> QED BY <1>2, <1>3, <1>4, <1>5, <1>6, <1>7

\* The quotient is the one number that brackets the dividend.
LEMMA QuotientIs ==
  ASSUME NEW c \in Nat, NEW d \in Nat, d > 0, NEW q \in Nat,
         q * d <= c, c < q * d + d
  PROVE  c \div d = q
OBVIOUS

LEMMA CancelLeq ==
  ASSUME NEW x \in Nat, NEW y \in Nat, NEW m \in Nat, m > 0, x * m <= y * m
  PROVE  x <= y
OBVIOUS

LEMMA CancelLess ==
  ASSUME NEW x \in Nat, NEW y \in Nat, NEW m \in Nat, x * m < y * m
  PROVE  x < y
OBVIOUS

\* Equal shares are rounded to the same score.
LEMMA SameShare ==
  ASSUME NEW a \in Nat, NEW c \in Nat, NEW b \in Nat, NEW d \in Nat, b > 0, d > 0,
         a * d = c * b
  PROVE  a \div b = c \div d
<1> DEFINE q == a \div b
<1>1. q \in Nat /\ q * b <= a /\ a < q * b + b
  BY Quotient
<1> HIDE DEF q
<1>2. q * d <= c
  <2>1. q * b * d <= a * d
    BY <1>1, TimesMonotone
  <2>2. q * b * d = q * d * b
    BY <1>1, TimesSwap
  <2>3. q * d * b <= c * b
    BY <2>1, <2>2
  <2> QED BY <1>1, <2>3, CancelLeq
<1>3. c < q * d + d
  <2>1. a * d < (q * b + b) * d
    BY <1>1, TimesStrict
  <2>2. (q * b + b) * d = (q * d + d) * b
    BY <1>1
  <2>3. c * b < (q * d + d) * b
    BY <2>1, <2>2
  <2> QED BY <1>1, <2>3, CancelLess
<1>4. c \div d = q
  BY <1>1, <1>2, <1>3, QuotientIs
<1> QED BY <1>4 DEF q

\* What a row is worth is a number, and nothing only where it has run out.
LEMMA WorthIs ==
  ASSUME NEW k, row[k] \in Row
  PROVE  Worth(k) \in Nat /\ (Worth(k) = 0 <=> row[k].credits = 0)
BY LeaseAssumption, RowAssumption DEF Worth, Row, Balance, Unknown

\* No key with a free slot is a better choice than the one picked, by the holds
\* n that the transaction counted.
LEMMA PickedIsBest ==
  ASSUME NEW n, NEW s, NEW k \in Picks(s, n), NEW j \in Eligible(s, n),
         row[k] \in Row, row[j] \in Row, k \in Nat, j \in Nat,
         n[k] \in Nat, n[j] \in Nat
  PROVE  /\ row[k].cooling => row[j].cooling
         /\ row[j].cooling = row[k].cooling =>
              /\ row[k].credits = 0 => row[j].credits = 0
              /\ ~(Worth(j) * Scale * (n[k] + 1) >=
                     Worth(k) * Scale * (n[j] + 1) + (n[j] + 1) * (n[k] + 1))
              /\ Worth(j) * (n[k] + 1) = Worth(k) * (n[j] + 1) /\ ~row[j].used =>
                   ~row[k].used /\ k <= j
<1>1. ~Precedes(j, k, n)
  BY DEF Picks
<1>2. /\ row[k].cooling \in BOOLEAN /\ row[j].cooling \in BOOLEAN
      /\ row[k].used \in BOOLEAN /\ row[j].used \in BOOLEAN
  BY DEF Row
<1>3. ~(Tier(j) < Tier(k))
  BY <1>1 DEF Precedes
<1>4. row[k].cooling => row[j].cooling
  BY <1>2, <1>3 DEF Tier
<1>5. ASSUME row[j].cooling = row[k].cooling
      PROVE  row[k].credits = 0 => row[j].credits = 0
  BY <1>2, <1>3, <1>5 DEF Tier
<1> DEFINE a == Worth(j) * Scale
           c == Worth(k) * Scale
           b == n[j] + 1
           d == n[k] + 1
<1>6. /\ Worth(j) \in Nat /\ Worth(k) \in Nat /\ Scale \in Nat
      /\ Worth(j) = 0 <=> row[j].credits = 0
      /\ Worth(k) = 0 <=> row[k].credits = 0
  BY WorthIs DEF Scale
<1>7. a \in Nat /\ c \in Nat /\ b \in Nat /\ d \in Nat /\ b > 0 /\ d > 0
  BY <1>6
<1>8. Score(j, n) = a \div b /\ Score(k, n) = c \div d
  BY DEF Score, Worth
<1>9. ASSUME row[j].cooling = row[k].cooling, row[j].credits = 0 <=> row[k].credits = 0
      PROVE  Tier(j) = Tier(k)
  BY <1>9 DEF Tier
<1>10. ASSUME row[j].cooling = row[k].cooling
       PROVE  a * d < c * b + b * d
  <2>1. CASE row[j].credits = 0
    <3>1. a = 0
      BY <1>6, <2>1
    <3> HIDE DEF a, b, c, d
    <3>2. a * d = 0
      BY <1>7, <3>1
    <3>3. c * b \in Nat
      BY <1>7
    <3>4. b * d \in Nat /\ b * d > 0
      BY <1>7
    <3> DEFINE x == a * d
               y == c * b
               z == b * d
    <3>5. x = 0 /\ y \in Nat /\ z \in Nat /\ z > 0
      BY <3>2, <3>3, <3>4
    <3> HIDE DEF x, y, z
    <3>6. x < y + z
      BY <3>5
    <3> QED BY <3>6 DEF x, y, z
  <2>2. CASE row[j].credits # 0
    <3>1. Tier(j) = Tier(k)
      BY <1>5, <1>9, <1>10, <2>2
    <3>2. ~(Score(j, n) > Score(k, n))
      BY <1>1, <3>1 DEF Precedes
    <3> HIDE DEF a, b, c, d
    <3>3. a \div b \in Nat /\ c \div d \in Nat
      BY <1>7, Quotient
    <3>4. a \div b <= c \div d
      BY <1>8, <3>2, <3>3
    <3> QED BY <1>7, <3>4, ShareOrder
  <2> QED BY <2>1, <2>2
<1>11. ASSUME row[j].cooling = row[k].cooling,
              Worth(j) * (n[k] + 1) = Worth(k) * (n[j] + 1), ~row[j].used
       PROVE  ~row[k].used /\ k <= j
  <2>1. a * d = c * b
    <3> DEFINE wj == Worth(j)
               wk == Worth(k)
    <3>1. wj * d = wk * b
      BY <1>11
    <3>2. wj \in Nat /\ wk \in Nat
      BY <1>6
    <3> HIDE DEF wj, wk, b, d
    <3>3. wj * Scale * d = wj * d * Scale /\ wk * Scale * b = wk * b * Scale
      BY <1>6, <1>7, <3>2, TimesSwap
    <3>4. wj * Scale * d = wk * Scale * b
      BY <3>1, <3>3
    <3> QED BY <3>4 DEF wj, wk
  <2>2. row[j].credits = 0 <=> row[k].credits = 0
    <3> DEFINE wj == Worth(j)
               wk == Worth(k)
    <3>1. wj * d = wk * b
      BY <1>11
    <3>2. wj \in Nat /\ wk \in Nat /\ b \in Nat /\ d \in Nat /\ b > 0 /\ d > 0
      BY <1>6, <1>7
    <3> HIDE DEF wj, wk, b, d
    <3>3. wj = 0 => wk = 0
      BY <3>1, <3>2
    <3>4. wk = 0 => wj = 0
      BY <3>1, <3>2
    <3> QED BY <1>6, <3>3, <3>4 DEF wj, wk
  <2>3. Tier(j) = Tier(k)
    BY <1>9, <1>11, <2>2
  <2>4. Score(j, n) = Score(k, n)
    <3> HIDE DEF a, b, c, d
    <3> QED BY <1>7, <1>8, <2>1, SameShare
  <2>5. ~(row[k].used \/ j < k)
    BY <1>1, <1>11, <2>3, <2>4 DEF Precedes
  <2> QED BY <2>5
<1>12. ASSUME row[j].cooling = row[k].cooling
       PROVE  ~(Worth(j) * Scale * (n[k] + 1) >=
                  Worth(k) * Scale * (n[j] + 1) + (n[j] + 1) * (n[k] + 1))
  <2>1. a * d \in Nat /\ c * b + b * d \in Nat
    <3> HIDE DEF a, b, c, d
    <3> QED BY <1>7
  <2>2. a * d < c * b + b * d
    BY <1>10, <1>12
  <2>3. ~(a * d >= c * b + b * d)
    <3> DEFINE x == a * d
               y == c * b + b * d
    <3> HIDE DEF x, y
    <3>1. x \in Nat /\ y \in Nat /\ x < y
      BY <2>1, <2>2 DEF x, y
    <3>2. ~(x >= y)
      BY <3>1
    <3> QED BY <3>2 DEF x, y
  <2> QED BY <2>3
<1> QED BY <1>4, <1>5, <1>11, <1>12

LEMMA BestStep ==
  ASSUME IInv, [Next]_vars
  PROVE  BestIsPicked
<1> SUFFICES ASSUME NEW c \in Calls, call[c].pc = "idle", call'[c].pc = "using",
                    NEW j \in present, row[j].service = row[call'[c].key].service,
                    row[j].active, LiveHolds(j) < Cap
             PROVE  LET k == call'[c].key IN
                    /\ row[k].cooling => row[j].cooling
                    /\ row[j].cooling = row[k].cooling =>
                         /\ row[k].credits = 0 => row[j].credits = 0
                         /\ ~OffersMore(j, k)
                         /\ OffersTheSame(j, k) /\ ~row[j].used => ~row[k].used /\ k <= j
  BY DEF BestIsPicked
<1> DEFINE k == call'[c].key
<1>1. /\ present \subseteq KeyIds /\ j \in KeyIds
      /\ lease \in [Tokens -> [key : KeyIds \cup {0}, left : 0..TTL]]
      /\ nextToken \in 1..(MaxToken + 1)
      /\ call \in [Calls -> [pc : {"idle", "refused", "using", "dropped"},
                             key : KeyIds \cup {0}, token : Tokens \cup {0},
                             service : Services, secret : 0..MaxSecret]]
  BY DEF IInv, TableInv, TableTypes, CallInv, CallTypes
<1>2. \E s \in Services : Acquire(c, s)
  <2>1. ASSUME NEW d \in Calls, CallNext(d)
        PROVE  \E s \in Services : Acquire(c, s)
    <3>1. CASE \E s \in Services : Acquire(d, s)
      <4>1. d = c
        BY <1>1, <3>1 DEF Acquire
      <4> QED BY <3>1, <4>1
    <3>2. CASE (\E s \in Services : AcquireRefused(d, s)) \/ Forget(d)
      BY <1>1, <3>2 DEF AcquireRefused, Forget, Idle
    <3>3. CASE \/ Release(d) \/ Ban(d) \/ Drop(d) \/ DropRelease(d)
               \/ \E v \in Verdicts : Report(d, v)
      BY <1>1, <3>3 DEF Release, Report, Ban, Drop, DropRelease, Settle
    <3>4. CASE Refresh(d)
      BY <3>4 DEF Refresh
    <3>5. \/ \E s \in Services : Acquire(d, s)
          \/ (\E s \in Services : AcquireRefused(d, s)) \/ Forget(d)
          \/ \/ Release(d) \/ Ban(d) \/ Drop(d) \/ DropRelease(d)
             \/ \E v \in Verdicts : Report(d, v)
          \/ Refresh(d)
      BY <2>1 DEF CallNext
    <3> QED BY <3>1, <3>2, <3>3, <3>4, <3>5
  <2>2. CASE EnvironmentNext
    <3>1. CASE Restart
      BY <3>1 DEF Restart, Idle
    <3>2. call' = call \/ Restart
      BY <2>2 DEF EnvironmentNext, AcquireAbandoned, Tick, CooldownEnds, ReenableStale
    <3> QED BY <3>1, <3>2
  <2>3. CASE OperatorNext
    BY <2>3
    DEF OperatorNext, InsertKey, DeleteKey, SetActive, RotateKey, MoveKey, ReplaceKey, SyncCredits
  <2>4. CASE UNCHANGED vars
    BY <2>4 DEF vars
  <2> QED BY <2>1, <2>2, <2>3, <2>4 DEF Next
<1>3. PICK s \in Services, i \in KeyIds :
        GrantTx(s, i) /\ call'[c].key = i
  BY <1>1, <1>2 DEF Acquire
<1>4. /\ k \in Picks(s, Counts(Unexpired))
      /\ lease' = [Unexpired EXCEPT ![nextToken] = [key |-> k, left |-> TTL]]
      /\ nextToken <= MaxToken
  BY <1>3 DEF GrantTx
<1> DEFINE n == Counts(Unexpired)
<1>5. k \in Eligible(s, n) /\ row[k].service = s /\ k \in present
  BY <1>4 DEF Picks, Eligible
<1>6. /\ k \in KeyIds /\ row[k] \in Row /\ row[j] \in Row
      /\ k \in Nat /\ j \in Nat
  BY <1>1, <1>5 DEF IInv, TableInv, TableTypes, KeyIds
<1>7. n[k] = LiveHolds(k) /\ n[j] = LiveHolds(j)
  BY <1>1, <1>6, UnexpiredHolders DEF Counts, LiveHolds
<1>8. n[k] \in Nat /\ n[j] \in Nat
  BY <1>1, <1>6, HoldersFinite DEF Counts
<1>9. j \in Eligible(s, n)
  BY <1>5, <1>7 DEF Eligible
<1> HIDE DEF n, k
<1> QED BY <1>4, <1>6, <1>7, <1>8, <1>9, PickedIsBest DEF OffersMore, OffersTheSame, n, k

\* An acquire is refused only when every active key is at its cap, and gets the
\* best one there is: by cooling, by balance left, by its share, by its use.
THEOREM BestKeysServe == Spec => BestKeyServes
<1>1. IInv /\ [Next]_vars => RefusedOnlyAtCap /\ BestIsPicked
  BY RefusedStep, BestStep
<1> QED BY <1>1, SpecInv, PTL DEF Spec, BestKeyServes

-----------------------------------------------------------------------------
(* How one step may change the rows.                                        *)

\* Row r is written to p by a statement that is no report.
Written(r, p) ==
  \/ p \in {r, BlankRow, [r EXCEPT !.used = TRUE], [r EXCEPT !.cooling = FALSE]}
  \/ \E s \in Services, x \in 0..MaxSecret : p = FreshRow(s, x)
  \/ \E on \in BOOLEAN : p = ToggledRow(r, on)
  \/ \E x \in 0..MaxSecret :
       \/ p = RotatedRow(r, x)
       \/ \E s \in Services : p = MovedRow(RotatedRow(r, x), s)
  \/ \E s \in Services : p = MovedRow(r, s)
  \/ \E b \in 0..MaxCredits : p = SyncedRow(r, b)
  \/ Revivable(r) /\ p = RevivedRow(r)

RowsWritten == WriteRows(row') /\ \A k \in KeyIds : Written(row[k], row'[k])

\* A report that finds its lease.
Reported ==
  \E k \in KeyIds, v \in Verdicts : \E post \in HealthWrites(v, row[k]) :
    /\ row' = [row EXCEPT ![k] = post]
    /\ counted' = Recount(row', k, Transition(v, row[k], post))

RowsKept == UNCHANGED <<row, counted>>

LEMMA WrittenAt ==
  ASSUME row \in [KeyIds -> Row], NEW k \in KeyIds, NEW p, Written(row[k], p),
         WriteRows([row EXCEPT ![k] = p])
  PROVE  RowsWritten
BY DEF WriteRows, RowsWritten, Written

LEMMA RowSteps ==
  ASSUME IInv, [Next]_vars
  PROVE  RowsKept \/ Reported \/ RowsWritten
<1>1. /\ row \in [KeyIds -> Row]
      /\ present \subseteq KeyIds
      /\ nextSecret \in 1..(MaxSecret + 1)
  BY DEF IInv, TableInv, TableTypes
<1>2. ASSUME NEW s \in Services, NEW k \in KeyIds, GrantTx(s, k)
      PROVE  RowsWritten
  <2>1. WriteRows([row EXCEPT ![k] = [row[k] EXCEPT !.used = TRUE]])
    BY <1>1, <1>2 DEF GrantTx
  <2> QED BY <1>1, <2>1, WrittenAt DEF Written
<1>3. ASSUME NEW k \in KeyIds, DeleteRow(k)
      PROVE  RowsWritten
  BY <1>1, <1>3, WrittenAt DEF DeleteRow, Written
<1>4. ASSUME NEW c \in Calls, NEW v \in Verdicts, Report(c, v)
      PROVE  RowsKept \/ Reported
  <2> DEFINE k == lease[call[c].token].key
  <2>1. k \in KeyIds \cup {0}
    BY <1>4 DEF Report, IInv, CallInv, CallTypes, CallsOwnTokens, TableInv, TableTypes
  <2>2. CASE k = 0
    BY <1>4, <2>2 DEF Report, RowsKept
  <2>3. CASE k # 0
    BY <1>4, <2>1, <2>3 DEF Report, Reported
  <2> QED BY <2>2, <2>3
<1>5. ASSUME NEW c \in Calls, CallNext(c)
      PROVE  RowsKept \/ Reported \/ RowsWritten
  <2>1. CASE \E s \in Services : Acquire(c, s)
    BY <1>2, <2>1 DEF Acquire
  <2>2. CASE Ban(c)
    BY <1>1, <1>3, <2>2 DEF Ban, RowsKept
  <2>3. CASE \E v \in Verdicts : Report(c, v)
    BY <1>4, <2>3
  <2> QED
    BY <1>5, <2>1, <2>2, <2>3
    DEF CallNext, AcquireRefused, Forget, Release, Drop, DropRelease, Refresh, RowsKept
<1>6. CASE EnvironmentNext
  <2>1. CASE \E s \in Services : AcquireAbandoned(s)
    BY <1>2, <2>1 DEF AcquireAbandoned
  <2>2. ASSUME NEW k \in KeyIds, CooldownEnds(k)
        PROVE  RowsWritten
    <3>1. WriteRows([row EXCEPT ![k] = [row[k] EXCEPT !.cooling = FALSE]])
      BY <1>1, <2>2 DEF CooldownEnds
    <3> QED BY <1>1, <3>1, WrittenAt DEF Written
  <2>3. CASE ReenableStale
    BY <1>1, <2>3 DEF ReenableStale, RowsWritten, WriteRows, Written
  <2> QED
    BY <1>6, <2>1, <2>2, <2>3 DEF EnvironmentNext, Tick, Restart, RowsKept
<1>7. CASE OperatorNext
  <2>1. ASSUME NEW s \in Services, InsertKey(s)
        PROVE  RowsWritten
    <3> PICK k \in KeyIds : /\ nextSecret <= MaxSecret
                            /\ WriteRows([row EXCEPT ![k] = FreshRow(s, nextSecret)])
      BY <2>1 DEF InsertKey
    <3>1. nextSecret \in 0..MaxSecret
      BY <1>1, RowAssumption
    <3> QED BY <1>1, <3>1, WrittenAt DEF Written
  <2>2. ASSUME NEW k \in KeyIds, DeleteKey(k)
        PROVE  RowsWritten
    BY <1>3, <2>2 DEF DeleteKey
  <2>3. ASSUME NEW k \in KeyIds, NEW on \in BOOLEAN, SetActive(k, on)
        PROVE  RowsWritten
    BY <1>1, <2>3, WrittenAt DEF SetActive, Written
  <2>4. ASSUME NEW k \in KeyIds, RotateKey(k)
        PROVE  RowsWritten
    <3>1. nextSecret \in 0..MaxSecret
      BY <1>1, <2>4, RowAssumption DEF RotateKey
    <3> QED BY <1>1, <2>4, <3>1, WrittenAt DEF RotateKey, Written
  <2>5. ASSUME NEW k \in KeyIds, NEW s \in Services, MoveKey(k, s)
        PROVE  RowsWritten
    BY <1>1, <2>5, WrittenAt DEF MoveKey, Written
  <2>6. ASSUME NEW k \in KeyIds, NEW s \in Services, ReplaceKey(k, s)
        PROVE  RowsWritten
    <3>1. nextSecret \in 0..MaxSecret
      BY <1>1, <2>6, RowAssumption DEF ReplaceKey
    <3> QED BY <1>1, <2>6, <3>1, WrittenAt DEF ReplaceKey, Written
  <2>7. ASSUME NEW k \in KeyIds, NEW b \in 0..MaxCredits, SyncCredits(k, b)
        PROVE  RowsWritten
    BY <1>1, <2>7, WrittenAt DEF SyncCredits, Written
  <2> QED
    BY <1>7, <2>1, <2>2, <2>3, <2>4, <2>5, <2>6, <2>7 DEF OperatorNext
<1>8. CASE UNCHANGED vars
  BY <1>8 DEF vars, RowsKept
<1> QED BY <1>5, <1>6, <1>7, <1>8 DEF Next
-----------------------------------------------------------------------------
(* A row in rotation is clean.                                              *)

Clean(r) == r.active => r.reason = "none" /\ r.fails < MaxFails

CleanInv == \A k \in KeyIds : Clean(row[k])

\* No operator or cron write leaves an active row with a reason or with
\* failures at the threshold.
LEMMA WrittenClean ==
  ASSUME NEW r \in Row, Clean(r), NEW p, Written(r, p)
  PROVE  Clean(p)
<1>1. \A s, x : Clean(FreshRow(s, x))
  BY RowAssumption DEF Clean, FreshRow
<1>2. Clean([r EXCEPT !.used = TRUE]) /\ Clean([r EXCEPT !.cooling = FALSE]) /\ Clean(BlankRow)
  BY <1>1 DEF Clean, Row, BlankRow
<1>3. \A on \in BOOLEAN : Clean(ToggledRow(r, on))
  BY RowAssumption DEF Clean, ToggledRow, Row
<1>4. /\ \A x \in 0..MaxSecret : /\ Clean(RotatedRow(r, x))
                                /\ \A s \in Services : Clean(MovedRow(RotatedRow(r, x), s))
      /\ \A s \in Services : Clean(MovedRow(r, s))
  BY RowAssumption DEF Clean, RotatedRow, MovedRow, Row
<1>5. \A b \in 0..MaxCredits : Clean(SyncedRow(r, b))
  BY DEF Clean, SyncedRow, Row
<1>6. Clean(RevivedRow(r))
  BY RowAssumption DEF Clean, RevivedRow, Row
<1> QED BY <1>1, <1>2, <1>3, <1>4, <1>5, <1>6 DEF Written

\* Nor does a report: the failure that reaches the threshold takes the row out
\* of rotation in the same statement.
LEMMA ReportedClean ==
  ASSUME NEW r \in Row, Clean(r), NEW v \in Verdicts, NEW p \in HealthWrites(v, r)
  PROVE  Clean(p)
<1>1. Clean(SuccessRow(r))
  BY RowAssumption DEF Clean, SuccessRow, Row
<1>2. Clean(FailureRow(r))
  <2> DEFINE reached == r.fails + 1 >= MaxFails
             f == FailureRow(r)
  <2>1. /\ f.fails = r.fails + 1
        /\ f.active <=> r.active /\ ~reached
        /\ f.reason = IF r.reason = "none" /\ reached THEN "auth_fail" ELSE r.reason
    BY DEF FailureRow, Row
  <2>2. r.fails \in Nat
    BY DEF Row
  <2> HIDE DEF f
  <2>3. Clean(f)
    BY <2>1, <2>2, RowAssumption DEF Clean
  <2> QED BY <2>3 DEF f
<1>3. \A cools \in BOOLEAN : Clean(ExhaustedRow(r, cools))
  BY DEF Clean, ExhaustedRow, Row
<1>4. Clean(PaymentRequiredRow(r)) /\ Clean(SuspendedRow(r))
  BY DEF Clean, PaymentRequiredRow, SuspendedRow, Row
<1> QED BY <1>1, <1>2, <1>3, <1>4 DEF HealthWrites, Verdicts

LEMMA CleanStep == IInv /\ CleanInv /\ [Next]_vars => CleanInv'
<1> SUFFICES ASSUME IInv, CleanInv, [Next]_vars
             PROVE  CleanInv'
  OBVIOUS
<1>1. row \in [KeyIds -> Row]
  BY DEF IInv, TableInv, TableTypes
<1>2. CASE RowsKept
  BY <1>2 DEF RowsKept, CleanInv, Clean
<1>3. CASE Reported
  BY <1>1, <1>3, ReportedClean DEF Reported, CleanInv
<1>4. CASE RowsWritten
  BY <1>1, <1>4, WrittenClean DEF RowsWritten, CleanInv
<1> QED BY <1>2, <1>3, <1>4, RowSteps

\* No interleaving of reports, admin writes and cron passes leaves a row in
\* rotation that carries a disable reason or has used up its failures.
THEOREM ActiveRowsAreClean == Spec => []ActiveRowIsClean
<1>1. Init => CleanInv
  BY RowAssumption DEF Init, CleanInv, Clean, BlankRow, FreshRow
<1>2. IInv /\ CleanInv => ActiveRowIsClean
  BY DEF IInv, TableInv, TableTypes, CleanInv, Clean, ActiveRowIsClean
<1> QED BY <1>1, <1>2, CleanStep, SpecInv, PTL DEF Spec

-----------------------------------------------------------------------------
(* A transition is counted once.                                            *)

\* The count is back at 0 as soon as the row is active, or has a balance, again.
CountInv ==
  \A k \in KeyIds :
    /\ counted[k].left <= 1 /\ counted[k].zeroed <= 1
    /\ row[k].active => counted[k].left = 0
    /\ row[k].credits # 0 => counted[k].zeroed = 0

\* One more is at most 1 where the count was 0 before.
LEMMA OneMore ==
  ASSUME NEW n \in Nat, NEW m, NEW back, NEW reported, n <= 1, reported => n = 0,
         m = IF back THEN 0 ELSE IF reported THEN n + 1 ELSE n
  PROVE  m <= 1 /\ (back => m = 0)
<1>1. CASE back
  BY <1>1
<1>2. CASE ~back /\ reported
  BY <1>2
<1>3. CASE ~back /\ ~reported
  BY <1>3
<1> QED BY <1>1, <1>2, <1>3

LEMMA CountStep == IInv /\ CountInv /\ [Next]_vars => CountInv'
<1> SUFFICES ASSUME IInv, CountInv, [Next]_vars
             PROVE  CountInv'
  OBVIOUS
<1>1. /\ row \in [KeyIds -> Row]
      /\ counted \in [KeyIds -> [left : Nat, zeroed : Nat]]
  BY DEF IInv, TableInv, TableTypes
<1>2. CASE RowsKept
  BY <1>2 DEF RowsKept, CountInv
<1>3. CASE RowsWritten
  BY <1>1, <1>3 DEF RowsWritten, WriteRows, Recount, CountInv
<1>4. CASE Reported
  <2> PICK k \in KeyIds, v \in Verdicts : \E post \in HealthWrites(v, row[k]) :
             /\ row' = [row EXCEPT ![k] = post]
             /\ counted' = Recount(row', k, Transition(v, row[k], post))
    BY <1>4 DEF Reported
  <2> PICK post \in HealthWrites(v, row[k]) :
             /\ row' = [row EXCEPT ![k] = post]
             /\ counted' = Recount(row', k, Transition(v, row[k], post))
    OBVIOUS
  <2> DEFINE t == Transition(v, row[k], post)
  <2>1. /\ t \in {"disabled", "suspended"} => row[k].active
        /\ t = "credits_zeroed" => row[k].credits # 0
    BY DEF Transition
  <2>2. \A j \in KeyIds :
          /\ counted'[j].left = IF row'[j].active THEN 0
                                ELSE IF j = k /\ t \in {"disabled", "suspended"}
                                     THEN counted[j].left + 1 ELSE counted[j].left
          /\ counted'[j].zeroed = IF row'[j].credits # 0 THEN 0
                                  ELSE IF j = k /\ t = "credits_zeroed"
                                       THEN counted[j].zeroed + 1 ELSE counted[j].zeroed
    BY DEF Recount
  <2> HIDE DEF t
  <2>3. ASSUME NEW j \in KeyIds
        PROVE  /\ counted'[j].left <= 1 /\ counted'[j].zeroed <= 1
               /\ row'[j].active => counted'[j].left = 0
               /\ row'[j].credits # 0 => counted'[j].zeroed = 0
    <3>1. /\ counted[j].left \in Nat /\ counted[j].zeroed \in Nat
          /\ counted[j].left <= 1 /\ counted[j].zeroed <= 1
          /\ row[j].active => counted[j].left = 0
          /\ row[j].credits # 0 => counted[j].zeroed = 0
      BY <1>1 DEF CountInv
    <3>2. j = k /\ t \in {"disabled", "suspended"} => counted[j].left = 0
      BY <2>1, <3>1
    <3>3. j = k /\ t = "credits_zeroed" => counted[j].zeroed = 0
      BY <2>1, <3>1
    <3>4. counted'[j].left <= 1 /\ (row'[j].active => counted'[j].left = 0)
      BY <2>2, <3>1, <3>2, OneMore
    <3>5. counted'[j].zeroed <= 1 /\ (row'[j].credits # 0 => counted'[j].zeroed = 0)
      BY <2>2, <3>1, <3>3, OneMore
    <3> QED BY <3>4, <3>5
  <2> QED BY <2>3 DEF CountInv
<1> QED BY <1>2, <1>3, <1>4, RowSteps

\* However many legs overlap on a key, its leaving rotation and its balance
\* running out are each reported once until the row is back.
THEOREM TransitionsCountOnce == Spec => []CountedOnce
<1>1. Init => CountInv
  BY DEF Init, CountInv, NoCount
<1>2. CountInv => CountedOnce
  BY DEF CountInv, CountedOnce
<1> QED BY <1>1, <1>2, CountStep, SpecInv, PTL DEF Spec
-----------------------------------------------------------------------------
(* A suspension sticks.                                                     *)

Suspended(r) == r.reason = "vendor_suspended" /\ ~r.active

\* No report relabels or revives a suspended row.
LEMMA ReportedSuspended ==
  ASSUME NEW r \in Row, Suspended(r), NEW v \in Verdicts, NEW p \in HealthWrites(v, r)
  PROVE  Suspended(p)
<1>1. Suspended(SuccessRow(r))
  BY DEF Suspended, SuccessRow, Row
<1>2. Suspended(FailureRow(r))
  <2> DEFINE reached == r.fails + 1 >= MaxFails
             f == FailureRow(r)
  <2>1. /\ f.active <=> r.active /\ ~reached
        /\ f.reason = IF r.reason = "none" /\ reached THEN "auth_fail" ELSE r.reason
    BY DEF FailureRow, Row
  <2> HIDE DEF f
  <2>2. Suspended(f)
    BY <2>1 DEF Suspended
  <2> QED BY <2>2 DEF f
<1>3. \A cools \in BOOLEAN : Suspended(ExhaustedRow(r, cools))
  BY DEF Suspended, ExhaustedRow, Row
<1>4. Suspended(PaymentRequiredRow(r)) /\ Suspended(SuspendedRow(r))
  BY DEF Suspended, PaymentRequiredRow, SuspendedRow, Row
<1> QED BY <1>1, <1>2, <1>3, <1>4 DEF HealthWrites, Verdicts

\* Who may end the suspension of row k: the operator, who enables it or gives
\* the row another identity.
Pardon(k) ==
  \/ SetActive(k, TRUE)
  \/ RotateKey(k)
  \/ \E s \in Services : MoveKey(k, s) \/ ReplaceKey(k, s)

LEMMA SuspensionStep ==
  ASSUME IInv, [Next]_vars, NEW k \in present \cap present', Suspended(row[k])
  PROVE  Suspended(row'[k]) \/ Pardon(k)
<1>1. /\ row \in [KeyIds -> Row] /\ present \subseteq KeyIds
      /\ k \in KeyIds /\ row[k] \in Row
  BY DEF IInv, TableInv, TableTypes
<1>2. ASSUME NEW j \in KeyIds, NEW p, row' = [row EXCEPT ![j] = p], j = k => Suspended(p)
      PROVE  Suspended(row'[k])
  BY <1>1, <1>2
<1>3. ASSUME row' = row
      PROVE  Suspended(row'[k])
  BY <1>3
<1>4. ASSUME NEW s \in Services, NEW j \in KeyIds, GrantTx(s, j)
      PROVE  Suspended(row'[k])
  <2>1. row' = [row EXCEPT ![j] = [row[j] EXCEPT !.used = TRUE]]
    BY <1>1, <1>4 DEF GrantTx, WriteRows
  <2>2. Suspended([row[k] EXCEPT !.used = TRUE])
    BY <1>1 DEF Suspended, Row
  <2> QED BY <1>2, <2>1, <2>2
<1>5. ASSUME NEW j, DeleteRow(j)
      PROVE  Suspended(row'[k])
  BY <1>1, <1>5 DEF DeleteRow, WriteRows
<1>6. ASSUME Reported
      PROVE  Suspended(row'[k])
  BY <1>1, <1>2, <1>6, ReportedSuspended DEF Reported
<1>7. ASSUME NEW c \in Calls, CallNext(c)
      PROVE  Suspended(row'[k])
  <2>1. CASE \E s \in Services : Acquire(c, s)
    BY <1>4, <2>1 DEF Acquire
  <2>2. CASE Ban(c)
    BY <1>3, <1>5, <2>2 DEF Ban
  <2>3. CASE \E v \in Verdicts : Report(c, v)
    <3>1. PICK v \in Verdicts : Report(c, v)
      BY <2>3
    <3>2. lease[call[c].token].key \in KeyIds \cup {0}
      BY <3>1 DEF Report, IInv, CallInv, CallTypes, CallsOwnTokens, TableInv, TableTypes
    <3>3. row' = row \/ Reported
      BY <3>1, <3>2 DEF Report, Reported
    <3> QED BY <1>3, <1>6, <3>3
  <2> QED
    BY <1>3, <1>7, <2>1, <2>2, <2>3
    DEF CallNext, AcquireRefused, Forget, Release, Drop, DropRelease, Refresh
<1>8. CASE EnvironmentNext
  <2>1. CASE \E s \in Services : AcquireAbandoned(s)
    BY <1>4, <2>1 DEF AcquireAbandoned
  <2>2. ASSUME NEW j \in KeyIds, CooldownEnds(j)
        PROVE  Suspended(row'[k])
    <3>1. row' = [row EXCEPT ![j] = [row[j] EXCEPT !.cooling = FALSE]]
      BY <1>1, <2>2 DEF CooldownEnds, WriteRows
    <3>2. Suspended([row[k] EXCEPT !.cooling = FALSE])
      BY <1>1 DEF Suspended, Row
    <3> QED BY <1>2, <3>1, <3>2
  <2>3. CASE ReenableStale
    <3>1. ~Revivable(row[k])
      BY DEF Revivable, Suspended
    <3>2. row'[k] = row[k]
      BY <1>1, <2>3, <3>1 DEF ReenableStale, WriteRows
    <3> QED BY <3>2
  <2> QED
    BY <1>3, <1>8, <2>1, <2>2, <2>3 DEF EnvironmentNext, Tick, Restart
<1>9. CASE OperatorNext
  <2>1. ASSUME NEW s \in Services, InsertKey(s)
        PROVE  Suspended(row'[k])
    BY <1>1, <2>1 DEF InsertKey, WriteRows, KeyIds
  <2>2. ASSUME NEW j \in KeyIds, DeleteKey(j)
        PROVE  Suspended(row'[k])
    BY <1>5, <2>2 DEF DeleteKey
  <2>3. ASSUME NEW j \in KeyIds, SetActive(j, FALSE)
        PROVE  Suspended(row'[k])
    <3>1. Suspended(ToggledRow(row[k], FALSE))
      BY <1>1 DEF Suspended, ToggledRow, Row
    <3>2. row' = [row EXCEPT ![j] = ToggledRow(row[j], FALSE)]
      BY <1>1, <2>3 DEF SetActive, WriteRows
    <3> QED BY <1>2, <3>1, <3>2
  <2>4. ASSUME NEW j \in KeyIds, \/ SetActive(j, TRUE) \/ RotateKey(j)
                                 \/ \E s \in Services : MoveKey(j, s) \/ ReplaceKey(j, s)
        PROVE  Suspended(row'[k]) \/ Pardon(k)
    <3>1. CASE j = k
      BY <2>4, <3>1 DEF Pardon
    <3>2. CASE j # k
      BY <1>1, <2>4, <3>2 DEF SetActive, RotateKey, MoveKey, ReplaceKey, WriteRows
    <3> QED BY <3>1, <3>2
  <2>5. ASSUME NEW j \in KeyIds, NEW b \in 0..MaxCredits, SyncCredits(j, b)
        PROVE  Suspended(row'[k])
    <3>1. Suspended(SyncedRow(row[k], b))
      BY <1>1 DEF Suspended, SyncedRow, Row
    <3>2. row' = [row EXCEPT ![j] = SyncedRow(row[j], b)]
      BY <1>1, <2>5 DEF SyncCredits, WriteRows
    <3> QED BY <1>2, <3>1, <3>2
  <2> QED BY <1>9, <2>1, <2>2, <2>3, <2>4, <2>5 DEF OperatorNext
<1>10. CASE UNCHANGED vars
  BY <1>3, <1>10 DEF vars
<1> QED BY <1>7, <1>8, <1>9, <1>10 DEF Next

-----------------------------------------------------------------------------
(* A balance only falls.                                                    *)

\* Balance b becomes c: the same, less but not below 0, or sunk by a 402.
Fell(b, c) ==
  \/ c = b
  \/ c \in 0..(b - 1)
  \/ c = 0 /\ b = Unknown

LEMMA ReportedFell ==
  ASSUME NEW r \in Row, NEW v \in Verdicts, NEW p \in HealthWrites(v, r)
  PROVE  Fell(r.credits, p.credits)
<1>1. r.credits \in {Unknown} \cup 0..MaxCredits
  BY DEF Row, Balance
<1>2. Fell(r.credits, SuccessRow(r).credits)
  <2>1. SuccessRow(r).credits = IF r.credits <= 0 THEN r.credits ELSE r.credits - 1
    BY DEF SuccessRow, Row
  <2> QED BY <1>1, <2>1, RowAssumption DEF Fell, Unknown
<1>3. Fell(r.credits, FailureRow(r).credits)
  <2>1. FailureRow(r).credits = r.credits
    BY DEF FailureRow, Row
  <2> QED BY <2>1 DEF Fell
<1>4. \A cools \in BOOLEAN : Fell(r.credits, ExhaustedRow(r, cools).credits)
  <2>1. \A cools \in BOOLEAN : ExhaustedRow(r, cools).credits =
                                 IF r.credits = Unknown THEN Unknown ELSE 0
    BY DEF ExhaustedRow, Row
  <2> QED BY <1>1, <2>1, RowAssumption DEF Fell, Unknown
<1>5. Fell(r.credits, PaymentRequiredRow(r).credits)
  <2>1. PaymentRequiredRow(r).credits = 0
    BY DEF PaymentRequiredRow, Row
  <2> QED BY <1>1, <2>1, RowAssumption DEF Fell, Unknown
<1>6. Fell(r.credits, SuspendedRow(r).credits)
  <2>1. SuspendedRow(r).credits = r.credits
    BY DEF SuspendedRow, Row
  <2> QED BY <2>1 DEF Fell
<1> QED BY <1>2, <1>3, <1>4, <1>5, <1>6 DEF HealthWrites, Verdicts

\* Who may give row k another balance.
Refill(k) ==
  \/ \E b \in 0..MaxCredits : SyncCredits(k, b)
  \/ \E s \in Services : MoveKey(k, s) \/ ReplaceKey(k, s)

LEMMA BalanceStep ==
  ASSUME IInv, [Next]_vars, NEW k \in present \cap present'
  PROVE  Fell(row[k].credits, row'[k].credits) \/ Refill(k)
<1>1. /\ row \in [KeyIds -> Row] /\ present \subseteq KeyIds
      /\ k \in KeyIds /\ row[k] \in Row
  BY DEF IInv, TableInv, TableTypes
<1>2. ASSUME NEW j \in KeyIds, NEW p, row' = [row EXCEPT ![j] = p],
             j = k => Fell(row[k].credits, p.credits)
      PROVE  Fell(row[k].credits, row'[k].credits)
  BY <1>1, <1>2 DEF Fell
<1>3. ASSUME row' = row
      PROVE  Fell(row[k].credits, row'[k].credits)
  BY <1>3 DEF Fell
<1>4. ASSUME NEW s \in Services, NEW j \in KeyIds, GrantTx(s, j)
      PROVE  Fell(row[k].credits, row'[k].credits)
  <2>1. row' = [row EXCEPT ![j] = [row[j] EXCEPT !.used = TRUE]]
    BY <1>1, <1>4 DEF GrantTx, WriteRows
  <2>2. [row[k] EXCEPT !.used = TRUE].credits = row[k].credits
    BY <1>1 DEF Row
  <2> QED BY <1>2, <2>1, <2>2 DEF Fell
<1>5. ASSUME NEW j, DeleteRow(j)
      PROVE  Fell(row[k].credits, row'[k].credits)
  BY <1>1, <1>5 DEF DeleteRow, WriteRows, Fell
<1>6. ASSUME Reported
      PROVE  Fell(row[k].credits, row'[k].credits)
  BY <1>1, <1>2, <1>6, ReportedFell DEF Reported
<1>7. ASSUME NEW c \in Calls, CallNext(c)
      PROVE  Fell(row[k].credits, row'[k].credits)
  <2>1. CASE \E s \in Services : Acquire(c, s)
    BY <1>4, <2>1 DEF Acquire
  <2>2. CASE Ban(c)
    BY <1>3, <1>5, <2>2 DEF Ban
  <2>3. CASE \E v \in Verdicts : Report(c, v)
    <3>1. PICK v \in Verdicts : Report(c, v)
      BY <2>3
    <3>2. lease[call[c].token].key \in KeyIds \cup {0}
      BY <3>1 DEF Report, IInv, CallInv, CallTypes, CallsOwnTokens, TableInv, TableTypes
    <3>3. row' = row \/ Reported
      BY <3>1, <3>2 DEF Report, Reported
    <3> QED BY <1>3, <1>6, <3>3
  <2> QED
    BY <1>3, <1>7, <2>1, <2>2, <2>3
    DEF CallNext, AcquireRefused, Forget, Release, Drop, DropRelease, Refresh
<1>8. CASE EnvironmentNext
  <2>1. CASE \E s \in Services : AcquireAbandoned(s)
    BY <1>4, <2>1 DEF AcquireAbandoned
  <2>2. ASSUME NEW j \in KeyIds, CooldownEnds(j)
        PROVE  Fell(row[k].credits, row'[k].credits)
    <3>1. row' = [row EXCEPT ![j] = [row[j] EXCEPT !.cooling = FALSE]]
      BY <1>1, <2>2 DEF CooldownEnds, WriteRows
    <3>2. [row[k] EXCEPT !.cooling = FALSE].credits = row[k].credits
      BY <1>1 DEF Row
    <3> QED BY <1>2, <3>1, <3>2 DEF Fell
  <2>3. CASE ReenableStale
    <3>1. RevivedRow(row[k]).credits = row[k].credits
      BY <1>1 DEF RevivedRow, Row
    <3>2. row'[k].credits = row[k].credits
      BY <1>1, <2>3, <3>1 DEF ReenableStale, WriteRows
    <3> QED BY <3>2 DEF Fell
  <2> QED
    BY <1>3, <1>8, <2>1, <2>2, <2>3 DEF EnvironmentNext, Tick, Restart
<1>9. CASE OperatorNext
  <2>1. ASSUME NEW s \in Services, InsertKey(s)
        PROVE  Fell(row[k].credits, row'[k].credits)
    BY <1>1, <2>1 DEF InsertKey, WriteRows, KeyIds, Fell
  <2>2. ASSUME NEW j \in KeyIds, DeleteKey(j)
        PROVE  Fell(row[k].credits, row'[k].credits)
    BY <1>5, <2>2 DEF DeleteKey
  <2>3. ASSUME NEW j \in KeyIds, NEW on \in BOOLEAN, SetActive(j, on)
        PROVE  Fell(row[k].credits, row'[k].credits)
    <3>1. ToggledRow(row[k], on).credits = row[k].credits
      BY <1>1 DEF ToggledRow, Row
    <3>2. row' = [row EXCEPT ![j] = ToggledRow(row[j], on)]
      BY <1>1, <2>3 DEF SetActive, WriteRows
    <3> QED BY <1>2, <3>1, <3>2 DEF Fell
  <2>4. ASSUME NEW j \in KeyIds, RotateKey(j)
        PROVE  Fell(row[k].credits, row'[k].credits)
    <3>1. RotatedRow(row[k], nextSecret).credits = row[k].credits
      BY <1>1 DEF RotatedRow, Row
    <3>2. row' = [row EXCEPT ![j] = RotatedRow(row[j], nextSecret)]
      BY <1>1, <2>4 DEF RotateKey, WriteRows
    <3> QED BY <1>2, <3>1, <3>2 DEF Fell
  <2>5. ASSUME NEW j \in KeyIds, \/ \E b \in 0..MaxCredits : SyncCredits(j, b)
                                 \/ \E s \in Services : MoveKey(j, s) \/ ReplaceKey(j, s)
        PROVE  Fell(row[k].credits, row'[k].credits) \/ Refill(k)
    <3>1. CASE j = k
      BY <2>5, <3>1 DEF Refill
    <3>2. CASE j # k
      <4>1. row'[k] = row[k]
        BY <1>1, <2>5, <3>2 DEF SyncCredits, MoveKey, ReplaceKey, WriteRows
      <4> QED BY <4>1 DEF Fell
    <3> QED BY <3>1, <3>2
  <2> QED BY <1>9, <2>1, <2>2, <2>3, <2>4, <2>5 DEF OperatorNext
<1>10. CASE UNCHANGED vars
  BY <1>3, <1>10 DEF vars
<1> QED BY <1>7, <1>8, <1>9, <1>10 DEF Next

\* Reports that come late, manual disables and every pass of the cron leave a
\* suspended row suspended and a balance no higher; only the operator's enabling,
\* rotation or move, and the sync, do otherwise.
THEOREM VerdictsAlwaysStick == Spec => VerdictsStick
<1>1. Init => CleanInv
  BY RowAssumption DEF Init, CleanInv, Clean, BlankRow, FreshRow
<1>2. IInv /\ CleanInv /\ [Next]_vars => SuspensionSticks
  <2> SUFFICES ASSUME IInv, CleanInv, [Next]_vars, NEW k \in present \cap present',
                      row[k].reason = "vendor_suspended"
               PROVE  Suspended(row'[k]) \/ Pardon(k)
    BY DEF Suspended, Pardon, SuspensionSticks
  <2>1. Suspended(row[k])
    BY DEF Suspended, CleanInv, Clean, IInv, TableInv, TableTypes
  <2> QED BY <2>1, SuspensionStep
<1>3. IInv /\ [Next]_vars => BalanceOnlyFalls
  <2> SUFFICES ASSUME IInv, [Next]_vars, NEW k \in present \cap present'
               PROVE  Fell(row[k].credits, row'[k].credits) \/ Refill(k)
    BY DEF Fell, Refill, BalanceOnlyFalls
  <2> QED BY BalanceStep
<1> QED BY <1>1, <1>2, <1>3, CleanStep, SpecInv, PTL DEF Spec, VerdictsStick

-----------------------------------------------------------------------------
(* KeyAcquire: the calls that wait for a slot.                              *)

Missed == {"counting", "unlocked", "asleep"}

NothingMissed ==
  \A w \in Callers :
    /\ pc[w] \in Missed
    /\ w \notin notified /\ w \notin excused
    /\ \A v \in Callers : pc[v] # "freed"
    => Free = {} /\ (pc[w] = "counting" \/ active # {})

LastTry == {"final", "finalTrying", "finalCounting", "timeout"}

\* The last try is made after the deadline, and its miss saw a full pool.
LastTryIsLate ==
  \A w \in Callers :
    /\ pc[w] \in LastTry => w \in late
    /\ pc[w] \in {"finalCounting", "timeout"} => w \in sawFull

-----------------------------------------------------------------------------
(* Type correctness *)

\* Each action of a call keeps types and stages.
LEMMA TypeStep ==
  ASSUME AcquireTypeOK, AcquireNext
  PROVE  AcquireTypeOK'
<1> USE DEF AcquireTypeOK, Types, Waiting, Locked, Registered, Watch
<1>1. ASSUME NEW w \in Callers, Start(w), Watch PROVE AcquireTypeOK'
  BY <1>1 DEF Start, Enable
<1>2. ASSUME NEW w \in Callers, Lock(w), Watch PROVE AcquireTypeOK'
  BY <1>2, AcquireAssumption DEF Lock
<1>3. ASSUME NEW w \in Callers, Take(w) \/ TakeAbandoned(w), Watch PROVE AcquireTypeOK'
  <2>1. PICK k \in Keys : /\ pc[w] \in {"trying", "finalTrying"}
                          /\ key' = [key EXCEPT ![w] = k]
                          /\ hold' = [Reclaimed EXCEPT ![w] = "live"]
                          /\ owner' = Nobody
                          /\ UNCHANGED <<active, notified, late, excused>>
    BY <1>3 DEF Take, TakeAbandoned, TakeTx, Free
  <2>2. \/ pc' = [pc EXCEPT ![w] = "holding"]
        \/ pc' = [pc EXCEPT ![w] = "idle"]
    BY <1>3 DEF Take, TakeAbandoned
  <2> QED BY <1>3, <2>1, <2>2, AcquireAssumption DEF Reclaimed
<1>4. ASSUME NEW w \in Callers, Miss(w), Watch PROVE AcquireTypeOK'
  BY <1>4 DEF Miss, Reclaimed
<1>5. ASSUME NEW w \in Callers, Count(w), Watch PROVE AcquireTypeOK'
  BY <1>5, AcquireAssumption DEF Count
<1>6. ASSUME NEW w \in Callers, Check(w) \/ SleepEnds(w) \/ Return(w), Watch
      PROVE AcquireTypeOK'
  BY <1>6 DEF Check, SleepEnds, Return
<1>7. ASSUME NEW w \in Callers, Wake(w), Watch PROVE AcquireTypeOK'
  BY <1>7 DEF Wake, Enable
<1>8. ASSUME NEW w \in Callers, Abort(w), Watch PROVE AcquireTypeOK'
  BY <1>8, AcquireAssumption DEF Abort
<1>9. ASSUME NEW w \in Callers, FinishTx(w) \/ BanTx(w), Watch PROVE AcquireTypeOK'
  BY <1>9 DEF FinishTx, BanTx
<1>10. ASSUME NEW w \in Callers, Announce(w) \/ FinishLost(w), Watch
       PROVE AcquireTypeOK'
  BY <1>10 DEF Announce, FinishLost
<1>11. ASSUME NEW w \in Callers, Deadline(w) \/ Expire(w) \/ RefreshHold(w), Watch
       PROVE AcquireTypeOK'
  BY <1>11 DEF Deadline, Expire, RefreshHold
<1>12. ASSUME NEW k \in Keys, Toggle(k), Watch PROVE AcquireTypeOK'
  BY <1>12 DEF Toggle
<1> QED BY <1>1, <1>2, <1>3, <1>4, <1>5, <1>6, <1>7, <1>8, <1>9, <1>10,
           <1>11, <1>12 DEF AcquireNext, CallerNext

LEMMA TypeInit == AcquireInit => AcquireTypeOK
BY AcquireAssumption DEF AcquireInit, AcquireTypeOK, Types, Waiting, Locked

\* Types, and the stage of a call decides who has the mutex and who a lease.
THEOREM AcquireTypes == AcquireSpec => []AcquireTypeOK
<1>1. AcquireTypeOK /\ UNCHANGED acquireVars => AcquireTypeOK'
  BY DEF AcquireTypeOK, Types, acquireVars
<1> QED BY TypeInit, TypeStep, <1>1, PTL DEF AcquireSpec

-----------------------------------------------------------------------------
(* Slots *)

\* Leases of k that stand in the table, expired ones too.
Rows(k) == {w \in Callers : hold[w] # "none" /\ key[w] = k}

\* What is inductive about the cap: an expired row may come back to life.
RowsWithinCap == \A k \in Keys : Cardinality(Rows(k)) <= PoolCap

LEMMA FewerIsLess ==
  ASSUME NEW S, NEW T, S \subseteq T, IsFiniteSet(T)
  PROVE  /\ IsFiniteSet(S)
         /\ Cardinality(S) \in Nat /\ Cardinality(T) \in Nat
         /\ Cardinality(S) <= Cardinality(T)
BY FS_Subset, FS_CardinalityType

\* A row is live only if it stands.
LEMMA LiveAreRows ==
  ASSUME RowsWithinCap
  PROVE  LiveCapHolds
<1> SUFFICES ASSUME NEW k \in Keys PROVE Cardinality(LiveHolders(k)) <= PoolCap
  BY DEF LiveCapHolds
<1>1. LiveHolders(k) \subseteq Rows(k) /\ Rows(k) \subseteq Callers
  BY DEF LiveHolders, Rows
<1>2. /\ Cardinality(LiveHolders(k)) <= Cardinality(Rows(k))
      /\ Cardinality(LiveHolders(k)) \in Nat /\ Cardinality(Rows(k)) \in Nat
  BY <1>1, FewerIsLess, AcquireAssumption
<1> QED BY <1>2, AcquireAssumption DEF RowsWithinCap

\* No new row, no cap exceeded.
LEMMA RowsShrink ==
  ASSUME RowsWithinCap, \A k \in Keys : Rows(k)' \subseteq Rows(k)
  PROVE  RowsWithinCap'
<1> SUFFICES ASSUME NEW k \in Keys PROVE Cardinality(Rows(k)') <= PoolCap
  BY DEF RowsWithinCap
<1>1. Rows(k)' \subseteq Rows(k) /\ Rows(k) \subseteq Callers
  BY DEF Rows
<1>2. IsFiniteSet(Rows(k))
  BY <1>1, AcquireAssumption, FS_Subset
<1>3. /\ Cardinality(Rows(k)') <= Cardinality(Rows(k))
      /\ Cardinality(Rows(k)') \in Nat /\ Cardinality(Rows(k)) \in Nat
  BY <1>1, <1>2, FewerIsLess
<1> QED BY <1>3, AcquireAssumption DEF RowsWithinCap

\* A key that was full stays full while its live leases only grow.
LEMMA FreeShrinks ==
  ASSUME active \subseteq Keys, UNCHANGED active,
         \A k \in Keys : LiveHolders(k) \subseteq LiveHolders(k)'
  PROVE  Free' \subseteq Free
<1> SUFFICES ASSUME NEW k \in Free' PROVE k \in Free
  OBVIOUS
<1>1. k \in active /\ k \in Keys /\ Cardinality(LiveHolders(k)') < PoolCap
  BY DEF Free
<1>2. LiveHolders(k) \subseteq LiveHolders(k)' /\ LiveHolders(k)' \subseteq Callers
  BY <1>1 DEF LiveHolders
<1>3. /\ Cardinality(LiveHolders(k)) <= Cardinality(LiveHolders(k)')
      /\ Cardinality(LiveHolders(k)) \in Nat /\ Cardinality(LiveHolders(k)') \in Nat
  BY <1>2, FewerIsLess, AcquireAssumption, FS_Subset
<1> QED BY <1>1, <1>3, AcquireAssumption DEF Free

\* A transaction that takes a key: everything expired is gone, and the call's
\* lease is new.
LEMMA TakeKeepsCap ==
  ASSUME AcquireTypeOK, RowsWithinCap, NEW w \in Callers, TakeTx(w)
  PROVE  RowsWithinCap'
<1>1. PICK t \in Free : /\ pc[w] \in {"trying", "finalTrying"}
                        /\ key' = [key EXCEPT ![w] = t]
                        /\ hold' = [Reclaimed EXCEPT ![w] = "live"]
  BY DEF TakeTx
<1>2. hold[w] = "none" /\ t \in Keys
  BY <1>1 DEF AcquireTypeOK, Types, Waiting, Free
<1> SUFFICES ASSUME NEW k \in Keys PROVE Cardinality(Rows(k)') <= PoolCap
  BY DEF RowsWithinCap
<1>3. CASE k = t
  <2>1. Rows(k)' = LiveHolders(k) \cup {w}
    BY <1>1, <1>2, <1>3 DEF Rows, LiveHolders, Reclaimed, AcquireTypeOK, Types
  <2>2. w \notin LiveHolders(k) /\ IsFiniteSet(LiveHolders(k))
    BY <1>2, AcquireAssumption, FS_Subset DEF LiveHolders
  <2>3. /\ Cardinality(LiveHolders(k) \cup {w}) = Cardinality(LiveHolders(k)) + 1
        /\ Cardinality(LiveHolders(k)) \in Nat
    BY <2>2, FS_AddElement, FS_CardinalityType
  <2>4. Cardinality(LiveHolders(k)) < PoolCap
    BY <1>3 DEF Free
  <2> QED BY <2>1, <2>3, <2>4, AcquireAssumption
<1>4. CASE k # t
  <2>1. Rows(k)' \subseteq Rows(k) /\ Rows(k) \subseteq Callers
    BY <1>1, <1>4 DEF Rows, Reclaimed, AcquireTypeOK, Types
  <2>2. /\ Cardinality(Rows(k)') <= Cardinality(Rows(k))
        /\ Cardinality(Rows(k)') \in Nat /\ Cardinality(Rows(k)) \in Nat
    BY <2>1, FewerIsLess, AcquireAssumption, FS_Subset
  <2> QED BY <2>2, AcquireAssumption DEF RowsWithinCap
<1> QED BY <1>3, <1>4

LEMMA CapStep ==
  ASSUME AcquireTypeOK, RowsWithinCap, AcquireNext
  PROVE  RowsWithinCap'
<1>1. ASSUME NEW w \in Callers, Take(w) \/ TakeAbandoned(w) PROVE RowsWithinCap'
  BY <1>1, TakeKeepsCap DEF Take, TakeAbandoned
<1>2. ASSUME NEW w \in Callers, Miss(w) PROVE RowsWithinCap'
  BY <1>2, RowsShrink DEF Miss, Reclaimed, Rows
<1>3. ASSUME NEW w \in Callers, FinishTx(w) \/ BanTx(w) PROVE RowsWithinCap'
  BY <1>3, RowsShrink DEF FinishTx, BanTx, Rows, AcquireTypeOK, Types
<1>4. ASSUME NEW w \in Callers, Expire(w) \/ RefreshHold(w) PROVE RowsWithinCap'
  BY <1>4, RowsShrink DEF Expire, RefreshHold, Rows, AcquireTypeOK, Types
<1>5. ASSUME UNCHANGED <<key, hold>> PROVE RowsWithinCap'
  BY <1>5, RowsShrink DEF Rows
<1> QED BY <1>1, <1>2, <1>3, <1>4, <1>5 DEF AcquireNext, CallerNext, Start, Lock,
           Count, Check, Wake, SleepEnds, Abort, Return, Announce, FinishLost,
           Deadline, Toggle

LEMMA CapInit == AcquireInit => RowsWithinCap
<1> SUFFICES ASSUME AcquireInit, NEW k \in Keys PROVE Cardinality(Rows(k)) <= PoolCap
  BY DEF RowsWithinCap
<1>1. Rows(k) = {}
  BY DEF AcquireInit, Rows
<1> QED BY <1>1, FS_EmptySet, AcquireAssumption

\* However calls race, expire and are cancelled, no key has more live leases
\* than max_inflight.
THEOREM AcquireCap == AcquireSpec => []LiveCapHolds
<1>1. RowsWithinCap /\ UNCHANGED acquireVars => RowsWithinCap'
  BY RowsShrink DEF Rows, acquireVars
<1>2. AcquireSpec => []RowsWithinCap
  BY AcquireTypes, CapInit, CapStep, <1>1, PTL DEF AcquireSpec
<1> QED BY <1>2, LiveAreRows, PTL
-----------------------------------------------------------------------------
(* The bell *)

\* What a step must not do to call w: wake up a slot behind its back.
Undisturbed(w) ==
  /\ pc'[w] = pc[w] /\ Free' \subseteq Free /\ active' = active
  /\ w \in notified => w \in notified'
  /\ w \in excused => w \in excused'
  /\ (\E v \in Callers : pc[v] = "freed") =>
       w \in notified' \/ w \in excused' \/ \E v \in Callers : pc'[v] = "freed"

\* Nobody answers for w but the step itself.
Answered(w) ==
  w \in notified' \/ w \in excused' \/ \E v \in Callers : pc'[v] = "freed"

LEMMA MissedStep ==
  ASSUME NothingMissed,
         \A w \in Callers : pc'[w] \in Missed =>
           \/ Answered(w)
           \/ Undisturbed(w)
           \/ Free' = {} /\ (pc'[w] = "counting" \/ active' # {})
  PROVE  NothingMissed'
BY DEF NothingMissed, Answered, Undisturbed

\* Live leases that stay live keep their slot.
LEMMA SlotsStay ==
  ASSUME AcquireTypeOK, UNCHANGED active,
         \A w \in Callers : hold[w] = "live" => hold'[w] = "live" /\ key'[w] = key[w]
  PROVE  Free' \subseteq Free
<1>1. \A k \in Keys : LiveHolders(k) \subseteq LiveHolders(k)'
  BY DEF LiveHolders
<1> QED BY <1>1, FreeShrinks DEF AcquireTypeOK, Types

\* The steps of a call that tries, one of which may be w's own.
LEMMA TryMisses ==
  ASSUME AcquireTypeOK, NothingMissed, NEW w \in Callers, Take(w) \/ TakeAbandoned(w)
  PROVE  NothingMissed'
<1>1. PICK t \in Free : /\ pc[w] \in {"trying", "finalTrying"}
                        /\ key' = [key EXCEPT ![w] = t]
                        /\ hold' = [Reclaimed EXCEPT ![w] = "live"]
                        /\ UNCHANGED <<active, notified, late, excused>>
  BY DEF Take, TakeAbandoned, TakeTx
<1>2. pc' = [pc EXCEPT ![w] = "holding"] \/ pc' = [pc EXCEPT ![w] = "idle"]
  BY DEF Take, TakeAbandoned
<1>3. hold[w] = "none"
  BY <1>1 DEF AcquireTypeOK, Waiting
<1>4. Free' \subseteq Free
  BY <1>1, <1>3, SlotsStay DEF Reclaimed, AcquireTypeOK, Types
<1>5. ASSUME NEW v \in Callers, pc'[v] \in Missed PROVE Undisturbed(v)
  <2>1. v # w /\ pc'[v] = pc[v]
    BY <1>2, <1>5 DEF Missed, AcquireTypeOK, Types
  <2>2. \A u \in Callers : pc[u] = "freed" => pc'[u] = "freed"
    BY <1>1, <1>2 DEF AcquireTypeOK, Types
  <2> QED BY <1>1, <1>4, <2>1, <2>2 DEF Undisturbed
<1> QED BY <1>5, MissedStep

LEMMA MissMisses ==
  ASSUME AcquireTypeOK, NothingMissed, NEW w \in Callers, Miss(w)
  PROVE  NothingMissed'
<1>1. Free' \subseteq Free
  BY SlotsStay DEF Miss, Reclaimed, AcquireTypeOK, Types
<1>2. Free = {}
  BY DEF Miss
<1>3. ASSUME NEW v \in Callers, pc'[v] \in Missed, v # w PROVE Undisturbed(v)
  BY <1>1, <1>3 DEF Miss, Undisturbed, AcquireTypeOK, Types
<1>4. pc'[w] \in Missed => pc'[w] = "counting"
  BY DEF Miss, Missed, AcquireTypeOK, Types
<1> QED BY <1>1, <1>2, <1>3, <1>4, MissedStep

\* Steps that move w alone and touch neither keys nor leases.
LEMMA OwnMoveMisses ==
  ASSUME AcquireTypeOK, NothingMissed, NEW w \in Callers,
         \/ Start(w) \/ Lock(w) \/ Wake(w) \/ SleepEnds(w) \/ Abort(w)
         \/ Return(w) \/ Count(w) \/ Check(w)
  PROVE  NothingMissed'
<1>1. UNCHANGED <<active, hold, key>>
  BY DEF Start, Lock, Wake, SleepEnds, Abort, Return, Count, Check
<1>2. Free' \subseteq Free
  BY <1>1, SlotsStay
<1>3. /\ \A v \in Callers : v # w => /\ pc'[v] = pc[v]
                                     /\ v \in notified => v \in notified'
                                     /\ v \in excused => v \in excused'
      /\ pc[w] # "freed"
  BY DEF Start, Lock, Wake, SleepEnds, Abort, Return, Count, Check, Enable,
         AcquireTypeOK, Types, Waiting
<1>4. ASSUME NEW v \in Callers, v # w PROVE Undisturbed(v)
  BY <1>1, <1>2, <1>3, <1>4 DEF Undisturbed
<1>5. pc'[w] \in Missed => /\ \/ pc[w] = "counting" /\ active # {}
                              \/ pc[w] = "unlocked"
                           /\ UNCHANGED <<notified, excused>>
                           /\ \A v \in Callers : pc[v] = "freed" => pc'[v] = "freed"
  <2>1. CASE Count(w)
    BY <2>1 DEF Count, Missed, AcquireTypeOK, Types
  <2>2. CASE Check(w)
    BY <2>2, <1>3 DEF Check, Missed, AcquireTypeOK, Types
  <2>3. CASE Start(w) \/ Lock(w) \/ Wake(w) \/ SleepEnds(w) \/ Abort(w) \/ Return(w)
    BY <2>3 DEF Start, Lock, Wake, SleepEnds, Abort, Return, Enable, Missed,
                AcquireTypeOK, Types
  <2> QED BY <2>1, <2>2, <2>3
<1>6. pc'[w] \in Missed =>
        \/ Answered(w)
        \/ Free' = {} /\ active' # {}
  BY <1>1, <1>2, <1>5 DEF NothingMissed, Answered, Missed
<1> QED BY <1>4, <1>6, MissedStep

\* A finish opens a slot and is about to ring; a bell that rang is in notified.
LEMMA FinishMisses ==
  ASSUME AcquireTypeOK, NothingMissed, NEW w \in Callers,
         FinishTx(w) \/ BanTx(w) \/ Announce(w) \/ FinishLost(w)
  PROVE  NothingMissed'
<1>1. CASE FinishTx(w) \/ BanTx(w)
  <2>1. pc'[w] = "freed"
    BY <1>1 DEF FinishTx, BanTx, AcquireTypeOK, Types
  <2> QED BY <2>1, MissedStep DEF Answered
<1>2. CASE Announce(w) \/ FinishLost(w)
  <2>1. Free' \subseteq Free
    BY <1>2, SlotsStay DEF Announce, FinishLost
  <2>2. ASSUME NEW v \in Callers, pc'[v] \in Missed
        PROVE  Answered(v) \/ Undisturbed(v)
    <3>1. v # w /\ pc'[v] = pc[v]
      BY <1>2, <2>2 DEF Announce, FinishLost, Missed, AcquireTypeOK, Types
    <3>2. CASE pc[w] = "freed"
      <4>1. v \in Registered
        BY <2>2, <3>1 DEF Registered, Missed
      <4> QED BY <1>2, <3>2, <4>1 DEF Announce, FinishLost, Answered
    <3>3. CASE pc[w] # "freed"
      BY <1>2, <2>1, <3>1, <3>3 DEF Announce, FinishLost, Undisturbed, AcquireTypeOK, Types
    <3> QED BY <3>2, <3>3
  <2> QED BY <2>2, MissedStep
<1> QED BY <1>1, <1>2

\* Deadlines and refreshes open no slot; expiries and toggles excuse.
LEMMA BesideMisses ==
  ASSUME AcquireTypeOK, NothingMissed,
         \/ \E w \in Callers : Deadline(w) \/ Expire(w) \/ RefreshHold(w)
         \/ \E k \in Keys : Toggle(k)
  PROVE  NothingMissed'
<1>1. ASSUME NEW w \in Callers, Deadline(w) \/ RefreshHold(w) PROVE NothingMissed'
  <2>1. Free' \subseteq Free
    BY <1>1, SlotsStay DEF Deadline, RefreshHold, AcquireTypeOK, Types
  <2>2. \A v \in Callers : Undisturbed(v)
    BY <1>1, <2>1 DEF Deadline, RefreshHold, Undisturbed
  <2> QED BY <2>2, MissedStep
<1>2. ASSUME UNCHANGED pc, excused' = excused \cup Registered PROVE NothingMissed'
  BY <1>2, MissedStep DEF Answered, Registered, Missed
<1> QED BY <1>1, <1>2 DEF Expire, Toggle

LEMMA BellStep ==
  ASSUME AcquireTypeOK, NothingMissed, AcquireNext
  PROVE  NothingMissed'
BY TryMisses, MissMisses, OwnMoveMisses, FinishMisses, BesideMisses
   DEF AcquireNext, CallerNext

\* The shape NoLostWakeup has is the one that NothingMissed gives a sleeper.
LEMMA BellIsHeard ==
  ASSUME AcquireTypeOK, NothingMissed
  PROVE  NoLostWakeup
BY DEF NothingMissed, NoLostWakeup, WorthWaking, Missed

\* No call sleeps beside a slot that a finish freed without a bell rung, or
\* about to ring, for it.
THEOREM AcquireWakes == AcquireSpec => []NoLostWakeup
<1>1. AcquireInit => NothingMissed
  BY DEF AcquireInit, NothingMissed, Missed
<1>2. NothingMissed /\ AcquireTypeOK /\ UNCHANGED acquireVars => NothingMissed'
  <2> SUFFICES ASSUME NothingMissed, AcquireTypeOK, UNCHANGED acquireVars PROVE NothingMissed'
    OBVIOUS
  <2>1. Free' \subseteq Free
    BY SlotsStay DEF acquireVars
  <2>2. \A w \in Callers : Undisturbed(w)
    BY <2>1 DEF acquireVars, Undisturbed
  <2> QED BY <2>2, MissedStep
<1>3. AcquireSpec => []NothingMissed
  BY AcquireTypes, BellStep, <1>1, <1>2, PTL DEF AcquireSpec
<1> QED BY AcquireTypes, BellIsHeard, <1>3, PTL

-----------------------------------------------------------------------------
(* The deadline *)

\* A last try starts late and stays late; its miss is a sight of a full pool.
LEMMA LateMove ==
  ASSUME AcquireTypeOK, LastTryIsLate, NEW v \in Callers, CallerNext(v),
         NEW w \in Callers, pc'[w] \in LastTry
  PROVE  /\ w \in late'
         /\ pc'[w] \in {"finalCounting", "timeout"} => w \in sawFull \/ Full'
<1> USE DEF AcquireTypeOK, Types, LastTryIsLate, LastTry
<1>1. CASE Start(v)
  BY <1>1 DEF Start, Enable
<1>2. CASE Lock(v) \/ Take(v) \/ TakeAbandoned(v)
  BY <1>2 DEF Lock, Take, TakeAbandoned, TakeTx
<1>3. CASE Miss(v)
  <2>1. Free' \subseteq Free
    BY <1>3, SlotsStay DEF Miss, Reclaimed
  <2> QED BY <1>3, <2>1 DEF Miss, Full
<1>4. CASE Count(v) \/ Check(v) \/ Wake(v) \/ SleepEnds(v) \/ Abort(v) \/ Return(v)
  BY <1>4 DEF Count, Check, Wake, Enable, SleepEnds, Abort, Return
<1>5. CASE FinishTx(v) \/ BanTx(v) \/ Announce(v) \/ FinishLost(v)
  BY <1>5 DEF FinishTx, BanTx, Announce, FinishLost
<1>6. CASE Deadline(v) \/ Expire(v) \/ RefreshHold(v)
  BY <1>6 DEF Deadline, Expire, RefreshHold
<1> QED BY <1>1, <1>2, <1>3, <1>4, <1>5, <1>6 DEF CallerNext

LEMMA LateStep ==
  ASSUME AcquireTypeOK, LastTryIsLate, AcquireNext
  PROVE  LastTryIsLate'
<1>1. ASSUME NEW w \in Callers, pc'[w] \in LastTry
      PROVE  /\ w \in late'
             /\ pc'[w] \in {"finalCounting", "timeout"} => w \in sawFull \/ Full'
  <2>1. ASSUME NEW k \in Keys, Toggle(k)
        PROVE  /\ w \in late'
               /\ pc'[w] \in {"finalCounting", "timeout"} => w \in sawFull \/ Full'
    BY <1>1, <2>1 DEF Toggle, LastTryIsLate
  <2> QED BY <1>1, <2>1, LateMove DEF AcquireNext
<1>2. sawFull' = {w \in Callers : /\ w \in late' /\ pc'[w] \in Waiting \cup {"timeout"}
                                  /\ w \in sawFull \/ Full'}
  BY DEF AcquireNext, Watch
<1> QED BY <1>1, <1>2 DEF LastTryIsLate, LastTry, Waiting

\* AcquireTimeout is answered only to a call that found the pool full after its
\* deadline.
THEOREM AcquireTimesOut == AcquireSpec => []TimeoutSawFull
<1>1. AcquireInit => LastTryIsLate
  BY DEF AcquireInit, LastTryIsLate, LastTry
<1>2. LastTryIsLate /\ UNCHANGED acquireVars => LastTryIsLate'
  BY DEF LastTryIsLate, acquireVars
<1>3. LastTryIsLate => TimeoutSawFull
  BY DEF LastTryIsLate, TimeoutSawFull
<1> QED BY AcquireTypes, LateStep, <1>1, <1>2, <1>3, PTL DEF AcquireSpec

\* Both together: what acquire and its Notify promise a caller that waits.
THEOREM AcquireWaits == AcquireSpec => []WaitIsSound
<1>1. NoLostWakeup /\ TimeoutSawFull => WaitIsSound
  BY DEF WaitIsSound
<1> QED BY AcquireWakes, AcquireTimesOut, <1>1, PTL
=============================================================================
