------------------------------- MODULE NodePool -------------------------------
(***************************************************************************)
(* The outbound nodes: the tables nodes and node_leases, the transactions  *)
(* of the database layer on them, the operator, the re-enable cron, boot   *)
(* and the clock.  Who ends which lease is left open here: any token may   *)
(* be released or reported at any time, long after it was reclaimed too.   *)
(* LeaseLadder says who does.                                              *)
(*                                                                         *)
(* Nodes have no cap.  The connection columns (host, port, protocol and    *)
(* credentials) decide nothing here, so update_node is left out with them. *)
(***************************************************************************)
EXTENDS Integers, FiniteSets

CONSTANTS
  MaxNodeId,   \* bound: the largest row id
  MaxFails,    \* MAX_CONSECUTIVE_FAILURES: failures that disable a node
  TTL,         \* NODE_HOLD_TTL_SECS, in clock ticks
  Hours,       \* NODE_REENABLE_AFTER_HOURS, in clock ticks
  MaxToken     \* bound: how many leases a behaviour creates

ASSUME NodeAssumption ==
  /\ MaxNodeId \in Nat /\ MaxToken \in Nat
  /\ MaxFails \in Nat \ {0}
  /\ TTL \in Nat \ {0}
  /\ Hours \in Nat \ {0}

VARIABLES
  present,     \* ids of the rows in nodes
  node,        \* node[n]: the health columns of row n
  inflight,    \* the stored column nodes.inflight
  lease,       \* node_leases by token: the node and the ticks left, or NoLease
  nextToken    \* AUTOINCREMENT: the next token, never reissued

poolVars == <<present, node, inflight, lease, nextToken>>

NodeIds == 1..MaxNodeId
Tokens  == 1..MaxToken
NoLease == [node |-> 0, left |-> 0]
Never   == -1    \* disabled_at IS NULL

\* offFor is the age of disabled_at, which is a stamp of its own: nothing but
\* the statements below ties it to enabled.  quiet is no column: it remembers
\* how long ago a failure was last reported, as far back as Hours.
Health == [enabled : BOOLEAN, fails : Nat, erred : BOOLEAN,
           offFor : {Never} \cup 0..Hours, quiet : 0..Hours]

\* INSERT INTO nodes: every health column takes its default.
FreshNode == [enabled |-> TRUE, fails |-> 0, erred |-> FALSE, offFor |-> Never,
              quiet |-> Hours]

PoolTypeOK ==
  /\ present \subseteq NodeIds
  /\ node \in [NodeIds -> Health]
  /\ inflight \in [NodeIds -> Nat]
  /\ lease \in [Tokens -> [node : NodeIds \cup {0}, left : 0..TTL]]
  /\ nextToken \in 1..(MaxToken + 1)

PoolInit ==
  /\ present = {}
  /\ node = [n \in NodeIds |-> FreshNode]
  /\ inflight = [n \in NodeIds |-> 0]
  /\ lease = [t \in Tokens |-> NoLease]
  /\ nextToken = 1

-----------------------------------------------------------------------------
(* Statements on one row.                                                   *)

Outcomes == {"release", "success", "failure"}

SuccessNode(h) == [h EXCEPT !.fails = 0, !.erred = FALSE]

\* Mutant: the failure that disables leaves disabled_at alone.
FailureNodeUnstamped(h) ==
  [h EXCEPT !.fails = @ + 1, !.erred = TRUE, !.quiet = 0,
            !.enabled = @ /\ h.fails + 1 < MaxFails]

\* Mutant: only the failure that takes the node out stamps disabled_at.
FailureNodeStampsOnce(h) ==
  LET flips == h.enabled /\ h.fails + 1 >= MaxFails
  IN [h EXCEPT !.fails = @ + 1, !.erred = TRUE, !.quiet = 0,
               !.enabled = @ /\ ~flips,
               !.offFor = IF flips THEN 0 ELSE @]

\* Every failure at or past the threshold stamps disabled_at again, also on a
\* row that is disabled already; one below it stamps nothing.
FailureNode(h) ==
  LET reached == h.fails + 1 >= MaxFails
  IN [h EXCEPT !.fails = @ + 1, !.erred = TRUE, !.quiet = 0,
               !.enabled = @ /\ ~reached,
               !.offFor = IF reached THEN 0 ELSE @]

Ended(h, outcome) ==
  CASE outcome = "success" -> SuccessNode(h)
    [] outcome = "failure" -> FailureNode(h)
    [] outcome = "release" -> h

\* Mutant: enabling by hand keeps the stamp.
ToggledNodeKeepsStamp(h, on) ==
  IF on THEN [h EXCEPT !.enabled = TRUE, !.fails = 0, !.erred = FALSE,
                       !.quiet = Hours]
        ELSE [h EXCEPT !.enabled = FALSE, !.offFor = 0]

ToggledNode(h, on) ==
  IF on THEN FreshNode ELSE [h EXCEPT !.enabled = FALSE, !.offFor = 0]

\* Mutant: the cron looks at the flag only.
StaleNodeAnyAge(h) == ~h.enabled

StaleNode(h) == ~h.enabled /\ h.offFor # Never /\ h.offFor >= Hours

\* One tick of the clock, as StaleNode sees it.
Aged(h) ==
  [h EXCEPT !.offFor = IF @ = Never \/ @ = Hours THEN @ ELSE @ + 1,
            !.quiet  = IF @ = Hours THEN @ ELSE @ + 1]

-----------------------------------------------------------------------------
(* The lease table.                                                         *)

Holders(L, n) == {t \in Tokens : L[t].node = n}

Counts(L) == [n \in NodeIds |-> Cardinality(Holders(L, n))]

\* DELETE FROM node_leases WHERE lease_until <= now
Unexpired == [t \in Tokens |-> IF lease[t].left > 0 THEN lease[t] ELSE NoLease]

\* ORDER BY inflight ASC, id ASC LIMIT 1 over reconciled counts c
Picked(c) ==
  {n \in present : /\ node[n].enabled
                   /\ \A m \in present : node[m].enabled =>
                        c[n] < c[m] \/ (c[n] = c[m] /\ n <= m)}

\* Mutant: the expired leases go but the column is not reconciled.
PickTxUnreconciled(n) ==
  /\ nextToken <= MaxToken
  /\ n \in Picked(Counts(Unexpired))
  /\ inflight' = [inflight EXCEPT ![n] = @ + 1]
  /\ lease' = [Unexpired EXCEPT ![nextToken] = [node |-> n, left |-> TTL]]
  /\ nextToken' = nextToken + 1
  /\ UNCHANGED <<present, node>>

\* One transaction: reclaim, reconcile, pick n, count it, insert the lease.
PickTx(n) ==
  /\ nextToken <= MaxToken
  /\ n \in Picked(Counts(Unexpired))
  /\ inflight' = [Counts(Unexpired) EXCEPT ![n] = @ + 1]
  /\ lease' = [Unexpired EXCEPT ![nextToken] = [node |-> n, left |-> TTL]]
  /\ nextToken' = nextToken + 1
  /\ UNCHANGED <<present, node>>

\* No enabled node: the transaction still reclaims and reconciles.
NonePicked ==
  /\ Picked(Counts(Unexpired)) = {}
  /\ inflight' = Counts(Unexpired)
  /\ lease' = Unexpired
  /\ UNCHANGED <<present, node, nextToken>>

\* release_node_token: nothing is written once the lease is gone.
EndTx(t, outcome) ==
  LET n    == lease[t].node
      rest == [lease EXCEPT ![t] = NoLease]
  IN /\ lease' = rest
     /\ IF n = 0 THEN UNCHANGED <<node, inflight>>
        ELSE /\ node' = [node EXCEPT ![n] = Ended(@, outcome)]
             /\ inflight' = [inflight EXCEPT ![n] = Cardinality(Holders(rest, n))]
     /\ UNCHANGED <<present, nextToken>>

\* Expired or not, a lease that is still in the table is stamped anew.
RefreshTx(t) ==
  /\ lease' = [lease EXCEPT ![t].left = IF lease[t].node = 0 THEN 0 ELSE TTL]
  /\ UNCHANGED <<present, node, inflight, nextToken>>

-----------------------------------------------------------------------------
(* Time, boot, the operator and the cron.                                   *)

Tick ==
  /\ lease' = [t \in Tokens |->
                 [lease[t] EXCEPT !.left = IF @ = 0 THEN 0 ELSE @ - 1]]
  /\ node' = [n \in NodeIds |-> Aged(node[n])]
  /\ UNCHANGED <<present, inflight, nextToken>>

\* zero_all_node_inflight
ZeroHolds ==
  /\ lease' = [t \in Tokens |-> NoLease]
  /\ inflight' = [n \in NodeIds |-> 0]
  /\ UNCHANGED <<present, node, nextToken>>

\* insert_node: an id is reused once the rows at and above it are deleted.
InsertNode ==
  \E n \in NodeIds :
    /\ \A m \in present : m < n
    /\ n = 1 \/ n - 1 \in present
    /\ present' = present \cup {n}
    /\ node' = [node EXCEPT ![n] = FreshNode]
    /\ UNCHANGED <<inflight, lease, nextToken>>

DeleteNode(n) ==
  /\ n \in present
  /\ present' = present \ {n}
  /\ lease' = [t \in Tokens |-> IF lease[t].node = n THEN NoLease ELSE lease[t]]
  /\ inflight' = [inflight EXCEPT ![n] = 0]
  /\ node' = [node EXCEPT ![n] = FreshNode]
  /\ UNCHANGED nextToken

SetEnabled(n, on) ==
  /\ n \in present
  /\ node' = [node EXCEPT ![n] = ToggledNode(@, on)]
  /\ UNCHANGED <<present, inflight, lease, nextToken>>

\* reenable_stale_nodes: one UPDATE over every stale row.
ReenableStale ==
  /\ node' = [n \in NodeIds |->
                IF n \in present /\ StaleNode(node[n]) THEN FreshNode ELSE node[n]]
  /\ UNCHANGED <<present, inflight, lease, nextToken>>

-----------------------------------------------------------------------------
OperatorNext ==
  \/ InsertNode
  \/ \E n \in NodeIds :
       \/ DeleteNode(n)
       \/ \E on \in BOOLEAN : SetEnabled(n, on)

HolderNext ==
  \/ \E n \in NodeIds : PickTx(n)
  \/ NonePicked
  \/ \E t \in Tokens :
       \/ \E o \in Outcomes : EndTx(t, o)
       \/ RefreshTx(t)

PoolNext == HolderNext \/ OperatorNext \/ Tick \/ ZeroHolds \/ ReenableStale

PoolSpec == PoolInit /\ [][PoolNext]_poolVars

\* Time passes and the maintenance loop runs its pass every quarter of an hour.
LivePoolSpec ==
  PoolSpec /\ WF_poolVars(Tick) /\ WF_poolVars(ReenableStale)
-----------------------------------------------------------------------------
(* Safety.                                                                  *)

\* The stored column is the number of lease rows of the node, and every lease
\* row is on a node that exists, whichever of the acquire, end, reclaim, delete
\* and boot transactions wrote last: the least-loaded choice reads this column.
HoldsAreExact ==
  /\ inflight = Counts(lease)
  /\ \A t \in Tokens : lease[t].node \in present \cup {0}

\* An enabled node is below the threshold and carries no disabled_at, and a
\* node without failures shows no error, after any mixture of late failures
\* and successes, manual toggles and cron passes: a leftover failure count
\* would take the node out again at its first new failure.
EnabledNodeIsClean ==
  \A n \in present :
    /\ node[n].enabled => node[n].fails < MaxFails /\ node[n].offFor = Never
    /\ node[n].fails = 0 => ~node[n].erred

\* Hours have passed since node n was disabled and, where its failures have used
\* up the threshold, since the last of them.
BackoffOver(n) ==
  /\ node[n].offFor = Hours
  /\ node[n].fails >= MaxFails => node[n].quiet = Hours

\* A disabled node comes back by the operator's hand, or once Hours have passed
\* since it was disabled and, where its failures have used up the threshold,
\* since the last of them too: a failure that a late call reports on a node
\* already out starts the window again.  It does so only at the threshold.  On a
\* node that was disabled by hand, or whose count a late success has reset, a
\* failure below it does not put the return off.
NodeBackoff ==
  [][\A n \in present \cap present' :
       ~node[n].enabled /\ node'[n].enabled =>
         SetEnabled(n, TRUE) \/ BackoffOver(n)]_poolVars

-----------------------------------------------------------------------------
(* Liveness.                                                                *)

Off(n) == n \in present /\ ~node[n].enabled

\* A node stays out of the pool for ever only if failures or the operator keep
\* disabling it: there is no disabled row that the cron cannot see.
OffNodeReturns ==
  \A n \in NodeIds :
    <>[]Off(n) => []<><<node'[n].offFor = 0>>_<<node[n].offFor>>
=============================================================================
