-------------------------- MODULE LeaseLadder_proofs --------------------------
(***************************************************************************)
(* Proofs about NodePool and LeaseLadder, for every number of nodes and    *)
(* leases, every TTL, threshold and re-enable window.                      *)
(*                                                                         *)
(* First the tables of NodePool.  Then LeaseLadder: it implements          *)
(* NodePool, no leg that must not is on the wire without a node, and every *)
(* lease is accounted for.                                                 *)
(***************************************************************************)
EXTENDS LeaseLadder, FiniteSetTheorems, TLAPS

-----------------------------------------------------------------------------
(* NodePool.                                                                *)

\* Tokens that were not issued yet have no row.
FreshTokens == \A t \in Tokens : t >= nextToken => lease[t].node = 0

TableInv == PoolTypeOK /\ HoldsAreExact /\ FreshTokens

Leases == [Tokens -> [node : NodeIds \cup {0}, left : 0..TTL]]

-----------------------------------------------------------------------------
(* Rows.                                                                    *)

LEMMA FreshNodeType == FreshNode \in Health
BY NodeAssumption DEF FreshNode, Health, Never

\* Whatever a statement writes on a row is a row.
LEMMA WritesType ==
  ASSUME NEW h \in Health
  PROVE  /\ \A o \in Outcomes : Ended(h, o) \in Health
         /\ \A on \in BOOLEAN : ToggledNode(h, on) \in Health
<1>1. SuccessNode(h) \in Health
  BY DEF SuccessNode, Health
<1>2. FailureNode(h) \in Health
  <2> DEFINE reached == h.fails + 1 >= MaxFails
             on  == h.enabled /\ ~reached
             off == IF reached THEN 0 ELSE h.offFor
  <2>1. on \in BOOLEAN
    OBVIOUS
  <2>2. off \in {Never} \cup 0..Hours /\ 0 \in 0..Hours /\ h.fails + 1 \in Nat
    BY NodeAssumption DEF Health
  <2>3. FailureNode(h) = [h EXCEPT !.fails = @ + 1, !.erred = TRUE, !.quiet = 0,
                                   !.enabled = on, !.offFor = off]
    BY DEF FailureNode, Health
  <2> HIDE DEF on, off
  <2> QED BY <2>1, <2>2, <2>3 DEF Health
<1>3. \A on \in BOOLEAN : ToggledNode(h, on) \in Health
  <2>1. 0 \in {Never} \cup 0..Hours
    BY NodeAssumption
  <2>2. ToggledNode(h, FALSE) = [h EXCEPT !.enabled = FALSE, !.offFor = 0]
    BY DEF ToggledNode
  <2>3. [h EXCEPT !.enabled = FALSE, !.offFor = 0] \in Health
    BY <2>1 DEF Health
  <2>4. ToggledNode(h, TRUE) \in Health
    BY FreshNodeType DEF ToggledNode
  <2> QED BY <2>2, <2>3, <2>4
<1>4. \A o \in Outcomes : Ended(h, o) \in Health
  BY <1>1, <1>2 DEF Ended, Outcomes
<1> QED BY <1>3, <1>4

LEMMA AgedType == \A h \in Health : Aged(h) \in Health
<1> SUFFICES ASSUME NEW h \in Health PROVE Aged(h) \in Health
  OBVIOUS
<1> DEFINE off   == IF h.offFor = Never \/ h.offFor = Hours THEN h.offFor
                                                            ELSE h.offFor + 1
           still == IF h.quiet = Hours THEN h.quiet ELSE h.quiet + 1
<1>1. h.offFor \in {Never} \cup 0..Hours /\ h.quiet \in 0..Hours
  BY DEF Health
<1>2. off \in {Never} \cup 0..Hours
  BY <1>1, NodeAssumption
<1>3. still \in 0..Hours
  BY <1>1, NodeAssumption
<1>4. Aged(h) = [h EXCEPT !.offFor = off, !.quiet = still]
  BY DEF Aged
<1> HIDE DEF off, still
<1> QED BY <1>2, <1>3, <1>4 DEF Health

\* What EnabledNodeIsClean says of one row, and that a row past the threshold
\* was stamped no earlier than at its last failure.
Clean(h) == /\ h.enabled => h.fails < MaxFails /\ h.offFor = Never
            /\ h.fails = 0 => ~h.erred
            /\ h.fails >= MaxFails => h.offFor # Never /\ h.offFor <= h.quiet

LEMMA FreshNodeClean == Clean(FreshNode)
BY NodeAssumption DEF Clean, FreshNode

\* Every statement leaves a clean row clean.
LEMMA WritesClean ==
  ASSUME NEW h \in Health, Clean(h)
  PROVE  /\ \A o \in Outcomes : Clean(Ended(h, o))
         /\ \A on \in BOOLEAN : Clean(ToggledNode(h, on))
<1>1. Clean(SuccessNode(h))
  BY NodeAssumption DEF Clean, SuccessNode, Health
<1>2. Clean(FailureNode(h))
  <2> DEFINE f == FailureNode(h)
  <2>1. /\ f.fails = h.fails + 1
        /\ f.enabled = (h.enabled /\ ~(h.fails + 1 >= MaxFails))
        /\ f.offFor = IF h.fails + 1 >= MaxFails THEN 0 ELSE h.offFor
        /\ f.erred = TRUE /\ f.quiet = 0
    BY DEF FailureNode, Health
  <2>2. h.fails \in Nat
    BY DEF Health
  <2> HIDE DEF f
  <2>3. f.fails # 0
    BY <2>1, <2>2
  <2>4. ASSUME f.enabled PROVE f.fails < MaxFails /\ f.offFor = Never
    <3>1. h.enabled /\ ~(h.fails + 1 >= MaxFails)
      BY <2>1, <2>4
    <3>2. h.offFor = Never
      BY <3>1 DEF Clean
    <3> QED BY <2>1, <2>2, <3>1, <3>2, NodeAssumption
  <2>5. f.fails >= MaxFails => f.offFor = 0
    BY <2>1
  <2>6. Clean(f)
    BY <2>1, <2>3, <2>4, <2>5 DEF Clean, Never
  <2> QED BY <2>6 DEF f
<1>3. \A on \in BOOLEAN : Clean(ToggledNode(h, on))
  <2>1. Clean(ToggledNode(h, TRUE))
    BY FreshNodeClean DEF ToggledNode
  <2>2. ToggledNode(h, FALSE) = [h EXCEPT !.enabled = FALSE, !.offFor = 0]
    BY DEF ToggledNode
  <2> DEFINE g == ToggledNode(h, FALSE)
  <2>3. /\ ~g.enabled /\ g.offFor = 0 /\ g.fails = h.fails
        /\ g.erred = h.erred /\ g.quiet = h.quiet
    BY <2>2 DEF Health
  <2>4. h.quiet \in 0..Hours
    BY DEF Health
  <2> HIDE DEF g
  <2>5. g.offFor # Never /\ g.offFor <= g.quiet
    BY <2>3, <2>4, NodeAssumption DEF Never
  <2>6. Clean(g)
    BY <2>3, <2>5 DEF Clean
  <2> QED BY <2>1, <2>6 DEF g
<1> QED BY <1>1, <1>2, <1>3 DEF Ended, Outcomes

\* No end of a lease, whatever its outcome, brings a disabled row back.
LEMMA EndsKeepOff ==
  ASSUME NEW h \in Health, NEW o \in Outcomes, Ended(h, o).enabled
  PROVE  h.enabled
BY DEF Ended, Outcomes, SuccessNode, FailureNode, Health

-----------------------------------------------------------------------------
(* Holders of a node.                                                       *)

LEMMA HoldersFinite ==
  ASSUME NEW L, NEW n
  PROVE  /\ IsFiniteSet(Holders(L, n))
         /\ Cardinality(Holders(L, n)) \in Nat
<1>1. IsFiniteSet(Tokens)
  BY FS_Interval, NodeAssumption DEF Tokens
<1>2. Holders(L, n) \subseteq Tokens
  BY DEF Holders
<1> QED BY <1>1, <1>2, FS_Subset, FS_CardinalityType

LEMMA CountsType == \A L : Counts(L) \in [NodeIds -> Nat]
BY HoldersFinite DEF Counts

\* The counts depend on the nodes of the leases alone.
LEMMA SameNodes ==
  ASSUME NEW L, NEW M, \A t \in Tokens : L[t].node = M[t].node
  PROVE  Counts(L) = Counts(M)
<1>1. \A n : Holders(L, n) = Holders(M, n)
  BY DEF Holders
<1> QED BY <1>1 DEF Counts

LEMMA UnexpiredType ==
  ASSUME PoolTypeOK
  PROVE  /\ Unexpired \in Leases
         /\ \A t \in Tokens : Unexpired[t].node \in {0, lease[t].node}
BY NodeAssumption DEF PoolTypeOK, Unexpired, NoLease, Leases

-----------------------------------------------------------------------------
(* The transactions on the tables.                                          *)

\* Transactions that only end leases, and write the counts they leave.
LEMMA EndTables ==
  ASSUME TableInv, lease' \in Leases,
         \A t \in Tokens : lease'[t].node \in {0, lease[t].node},
         inflight' = Counts(lease'), node' \in [NodeIds -> Health],
         UNCHANGED <<present, nextToken>>
  PROVE  TableInv'
<1>1. PoolTypeOK'
  BY CountsType DEF PoolTypeOK, TableInv, Leases
<1>2. HoldsAreExact' /\ FreshTokens'
  BY DEF HoldsAreExact, FreshTokens, TableInv
<1> QED BY <1>1, <1>2 DEF TableInv

LEMMA PickTables ==
  ASSUME TableInv, NEW n \in NodeIds, PickTx(n)
  PROVE  TableInv'
<1> DEFINE U == Unexpired
<1>1. /\ nextToken \in Tokens /\ nextToken' = nextToken + 1
      /\ nextToken' \in 1..(MaxToken + 1)
  BY NodeAssumption DEF PickTx, TableInv, PoolTypeOK, Tokens
<1>2. n \in present
  BY DEF PickTx, Picked
<1>3. U \in Leases /\ \A t \in Tokens : U[t].node \in {0, lease[t].node}
  BY UnexpiredType DEF TableInv
<1>4. lease' = [U EXCEPT ![nextToken] = [node |-> n, left |-> TTL]]
      /\ inflight' = [Counts(U) EXCEPT ![n] = @ + 1]
  BY DEF PickTx
<1> HIDE DEF U
<1>5. lease' \in Leases
  BY <1>1, <1>3, <1>4, NodeAssumption DEF Leases
<1>6. /\ \A t \in Tokens \ {nextToken} : lease'[t] = U[t]
      /\ lease'[nextToken].node = n
  BY <1>1, <1>3, <1>4 DEF Leases
<1>7. n # 0 /\ 0 \notin NodeIds
  BY DEF NodeIds
<1>8. U[nextToken].node = 0
  BY <1>1, <1>3 DEF TableInv, FreshTokens, PoolTypeOK
<1>9. /\ Holders(lease', n) = Holders(U, n) \cup {nextToken}
      /\ nextToken \notin Holders(U, n)
      /\ \A m \in NodeIds \ {n} : Holders(lease', m) = Holders(U, m)
  BY <1>1, <1>6, <1>7, <1>8 DEF Holders
<1>10. Cardinality(Holders(lease', n)) = Cardinality(Holders(U, n)) + 1
  BY <1>9, HoldersFinite, FS_AddElement
<1>11. inflight' = Counts(lease')
  BY <1>4, <1>9, <1>10 DEF Counts
<1>12. HoldsAreExact'
  <2>1. present' = present
    BY DEF PickTx
  <2>2. \A t \in Tokens : lease[t].node \in present \cup {0}
    BY DEF TableInv, HoldsAreExact
  <2>3. \A t \in Tokens : lease'[t].node \in present \cup {0}
    <3> TAKE t \in Tokens
    <3>1. U[t].node \in present \cup {0}
      BY <1>3, <2>2
    <3> QED BY <1>2, <1>6, <3>1
  <2> QED BY <1>11, <2>1, <2>3 DEF HoldsAreExact
<1>13. FreshTokens'
  BY <1>1, <1>3, <1>6 DEF FreshTokens, TableInv, PoolTypeOK, Tokens
<1>14. PoolTypeOK'
  BY <1>1, <1>5, <1>11, CountsType DEF PoolTypeOK, TableInv, PickTx, Leases
<1> QED BY <1>12, <1>13, <1>14 DEF TableInv

LEMMA NonePickedTables ==
  ASSUME TableInv, NonePicked
  PROVE  TableInv'
<1>1. Unexpired \in Leases /\ \A t \in Tokens : Unexpired[t].node \in {0, lease[t].node}
  BY UnexpiredType DEF TableInv
<1>2. node' \in [NodeIds -> Health]
  BY DEF NonePicked, TableInv, PoolTypeOK
<1> QED BY <1>1, <1>2, EndTables DEF NonePicked

LEMMA EndTxTables ==
  ASSUME TableInv, NEW t \in Tokens, NEW o \in Outcomes, EndTx(t, o)
  PROVE  TableInv'
<1> DEFINE n == lease[t].node
<1>1. lease' = [lease EXCEPT ![t] = NoLease]
  BY DEF EndTx
<1>2. /\ lease' \in Leases
      /\ lease'[t].node = 0
      /\ \A u \in Tokens \ {t} : lease'[u] = lease[u]
  BY <1>1, NodeAssumption DEF NoLease, TableInv, PoolTypeOK, Leases
<1>3. n \in NodeIds \cup {0} /\ 0 \notin NodeIds
  BY DEF TableInv, PoolTypeOK, NodeIds
<1>4. \A m \in NodeIds \ {n} : Holders(lease', m) = Holders(lease, m)
  BY <1>2, <1>3 DEF Holders
<1>5. inflight' = IF n = 0 THEN inflight
                  ELSE [inflight EXCEPT ![n] = Cardinality(Holders(lease', n))]
  BY <1>1 DEF EndTx
<1>6. node' = IF n = 0 THEN node ELSE [node EXCEPT ![n] = Ended(@, o)]
  BY DEF EndTx
<1>7. inflight = [m \in NodeIds |-> Cardinality(Holders(lease, m))]
  BY DEF TableInv, HoldsAreExact, Counts
<1> HIDE DEF n
<1>8. inflight' = Counts(lease')
  BY <1>3, <1>4, <1>5, <1>7 DEF Counts
<1>9. node' \in [NodeIds -> Health]
  <2>1. node \in [NodeIds -> Health]
    BY DEF TableInv, PoolTypeOK
  <2>2. \A m \in NodeIds : Ended(node[m], o) \in Health
    BY <2>1, WritesType
  <2> QED BY <1>3, <1>6, <2>1, <2>2
<1>10. UNCHANGED <<present, nextToken>>
  BY DEF EndTx
<1> QED BY <1>2, <1>8, <1>9, <1>10, EndTables

\* Stamping leases, and ageing them, moves none.
LEMMA SameLeaseTables ==
  ASSUME TableInv, lease' \in Leases, node' \in [NodeIds -> Health],
         \A t \in Tokens : lease'[t].node = lease[t].node,
         UNCHANGED <<present, inflight, nextToken>>
  PROVE  TableInv'
<1>1. inflight' = Counts(lease')
  BY SameNodes DEF TableInv, HoldsAreExact
<1> QED BY <1>1, EndTables

LEMMA RefreshTables ==
  ASSUME TableInv, NEW t \in Tokens, RefreshTx(t)
  PROVE  TableInv'
<1>1. lease' \in Leases /\ \A u \in Tokens : lease'[u].node = lease[u].node
  BY NodeAssumption DEF RefreshTx, TableInv, PoolTypeOK, Leases
<1>2. node' \in [NodeIds -> Health] /\ UNCHANGED <<present, inflight, nextToken>>
  BY DEF RefreshTx, TableInv, PoolTypeOK
<1> QED BY <1>1, <1>2, SameLeaseTables

LEMMA TickTables ==
  ASSUME TableInv, Tick
  PROVE  TableInv'
<1>1. lease' \in Leases /\ \A t \in Tokens : lease'[t].node = lease[t].node
  <2>1. ASSUME NEW l \in [node : NodeIds \cup {0}, left : 0..TTL]
        PROVE  /\ [l EXCEPT !.left = IF @ = 0 THEN 0 ELSE @ - 1]
                    \in [node : NodeIds \cup {0}, left : 0..TTL]
               /\ [l EXCEPT !.left = IF @ = 0 THEN 0 ELSE @ - 1].node = l.node
    BY <2>1, NodeAssumption
  <2>2. lease \in [Tokens -> [node : NodeIds \cup {0}, left : 0..TTL]]
    BY DEF TableInv, PoolTypeOK
  <2> QED BY <2>1, <2>2 DEF Tick, Leases
<1>2. node' \in [NodeIds -> Health]
  BY AgedType DEF Tick, TableInv, PoolTypeOK
<1>3. UNCHANGED <<present, inflight, nextToken>>
  BY DEF Tick
<1> QED BY <1>1, <1>2, <1>3, SameLeaseTables

LEMMA ZeroTables ==
  ASSUME TableInv, ZeroHolds
  PROVE  TableInv'
<1>1. lease' \in Leases /\ \A t \in Tokens : lease'[t].node = 0
  BY NodeAssumption DEF ZeroHolds, NoLease, Leases
<1>2. \A n \in NodeIds : Holders(lease', n) = {}
  BY <1>1 DEF Holders, NodeIds
<1>3. inflight' = Counts(lease')
  BY <1>2, FS_EmptySet DEF ZeroHolds, Counts
<1>4. node' \in [NodeIds -> Health] /\ UNCHANGED <<present, nextToken>>
  BY DEF ZeroHolds, TableInv, PoolTypeOK
<1> QED BY <1>1, <1>3, <1>4, EndTables

LEMMA DeleteTables ==
  ASSUME TableInv, NEW n \in NodeIds, DeleteNode(n)
  PROVE  TableInv'
<1>1. /\ lease' \in Leases
      /\ \A t \in Tokens : lease'[t] = IF lease[t].node = n THEN NoLease ELSE lease[t]
  BY NodeAssumption DEF DeleteNode, NoLease, TableInv, PoolTypeOK, Leases
<1>2. \A t \in Tokens : lease'[t].node = IF lease[t].node = n THEN 0 ELSE lease[t].node
  BY <1>1 DEF NoLease
<1>3. 0 \notin NodeIds
  BY DEF NodeIds
<1>4. /\ Holders(lease', n) = {}
      /\ \A m \in NodeIds \ {n} : Holders(lease', m) = Holders(lease, m)
  BY <1>2, <1>3 DEF Holders
<1>5. inflight' = Counts(lease')
  <2>1. inflight' = [inflight EXCEPT ![n] = 0]
    BY DEF DeleteNode
  <2>2. inflight = [m \in NodeIds |-> Cardinality(Holders(lease, m))]
    BY DEF TableInv, HoldsAreExact, Counts
  <2>3. Cardinality(Holders(lease', n)) = 0
    BY <1>4, FS_EmptySet
  <2> QED BY <1>4, <2>1, <2>2, <2>3 DEF Counts
<1>6. HoldsAreExact'
  BY <1>2, <1>5 DEF HoldsAreExact, TableInv, DeleteNode
<1>7. FreshTokens'
  BY <1>2 DEF FreshTokens, TableInv, DeleteNode
<1>8. PoolTypeOK'
  BY <1>1, <1>5, CountsType, FreshNodeType
     DEF PoolTypeOK, TableInv, DeleteNode, Leases
<1> QED BY <1>6, <1>7, <1>8 DEF TableInv

\* Statements on rows that leave the leases alone.
LEMMA RowTables ==
  ASSUME TableInv, present \subseteq present', present' \subseteq NodeIds,
         node' \in [NodeIds -> Health], UNCHANGED <<inflight, lease, nextToken>>
  PROVE  TableInv'
BY DEF TableInv, PoolTypeOK, HoldsAreExact, FreshTokens, Counts, Holders

-----------------------------------------------------------------------------
(* The tables.                                                              *)

LEMMA InitTables == PoolInit => TableInv
<1> SUFFICES ASSUME PoolInit PROVE TableInv
  OBVIOUS
<1>1. lease \in Leases /\ \A t \in Tokens : lease[t].node = 0
  BY NodeAssumption DEF PoolInit, NoLease, Leases
<1>2. \A n \in NodeIds : Holders(lease, n) = {}
  BY <1>1 DEF Holders, NodeIds
<1>3. inflight = Counts(lease)
  BY <1>2, FS_EmptySet DEF PoolInit, Counts
<1>4. PoolTypeOK
  BY <1>1, NodeAssumption, FreshNodeType DEF PoolInit, PoolTypeOK, Leases
<1> QED BY <1>1, <1>3, <1>4 DEF TableInv, HoldsAreExact, FreshTokens

LEMMA StepTables == TableInv /\ [PoolNext]_poolVars => TableInv'
<1> SUFFICES ASSUME TableInv, [PoolNext]_poolVars PROVE TableInv'
  OBVIOUS
<1>0. /\ present \subseteq NodeIds
      /\ node \in [NodeIds -> Health]
  BY DEF TableInv, PoolTypeOK
<1>1. CASE HolderNext
  BY <1>1, PickTables, NonePickedTables, EndTxTables, RefreshTables DEF HolderNext
<1>2. CASE InsertNode
  <2>1. node' \in [NodeIds -> Health]
    BY <1>0, <1>2, FreshNodeType DEF InsertNode
  <2>2. /\ present \subseteq present' /\ present' \subseteq NodeIds
        /\ UNCHANGED <<inflight, lease, nextToken>>
    BY <1>0, <1>2 DEF InsertNode
  <2> QED BY <2>1, <2>2, RowTables
<1>3. ASSUME NEW n \in NodeIds, DeleteNode(n) PROVE TableInv'
  BY <1>3, DeleteTables
<1>4. ASSUME NEW n \in NodeIds, NEW on \in BOOLEAN, SetEnabled(n, on)
      PROVE  TableInv'
  <2>1. \A h \in Health : ToggledNode(h, on) \in Health
    BY WritesType
  <2>2. node' \in [NodeIds -> Health]
    BY <1>0, <1>4, <2>1 DEF SetEnabled
  <2> QED BY <1>0, <1>4, <2>2, RowTables DEF SetEnabled
<1>5. CASE Tick
  BY <1>5, TickTables
<1>6. CASE ZeroHolds
  BY <1>6, ZeroTables
<1>7. CASE ReenableStale
  <2>1. node' \in [NodeIds -> Health]
    BY <1>0, <1>7, FreshNodeType DEF ReenableStale
  <2> QED BY <1>0, <1>7, <2>1, RowTables DEF ReenableStale
<1>8. CASE UNCHANGED poolVars
  BY <1>8 DEF poolVars, TableInv, PoolTypeOK, HoldsAreExact, FreshTokens,
              Counts, Holders
<1> QED BY <1>1, <1>2, <1>3, <1>4, <1>5, <1>6, <1>7, <1>8 DEF PoolNext, OperatorNext

-----------------------------------------------------------------------------
(* The rows.                                                                *)

\* How a step changes the row of a node that stays.
RowStep(h, g) ==
  \/ g = h
  \/ g = FreshNode
  \/ \E o \in Outcomes : g = Ended(h, o)
  \/ \E on \in BOOLEAN : g = ToggledNode(h, on)
  \/ g = Aged(h)

LEMMA StepRows ==
  ASSUME TableInv, [PoolNext]_poolVars, NEW n \in NodeIds
  PROVE  RowStep(node[n], node'[n])
<1>0. node \in [NodeIds -> Health]
  BY DEF TableInv, PoolTypeOK
<1>1. ASSUME NEW t \in Tokens, NEW o \in Outcomes, EndTx(t, o)
      PROVE  RowStep(node[n], node'[n])
  BY <1>0, <1>1 DEF EndTx, RowStep
<1>2. CASE \/ \E m \in NodeIds : PickTx(m)
           \/ NonePicked
           \/ \E t \in Tokens : RefreshTx(t)
           \/ ZeroHolds
           \/ UNCHANGED poolVars
  BY <1>2 DEF PickTx, NonePicked, RefreshTx, ZeroHolds, poolVars, RowStep
<1>3. CASE InsertNode
  BY <1>0, <1>3 DEF InsertNode, RowStep
<1>4. ASSUME NEW m \in NodeIds, DeleteNode(m) PROVE RowStep(node[n], node'[n])
  BY <1>0, <1>4 DEF DeleteNode, RowStep
<1>5. ASSUME NEW m \in NodeIds, NEW on \in BOOLEAN, SetEnabled(m, on)
      PROVE  RowStep(node[n], node'[n])
  BY <1>0, <1>5 DEF SetEnabled, RowStep
<1>6. CASE Tick
  BY <1>6 DEF Tick, RowStep
<1>7. CASE ReenableStale
  BY <1>7 DEF ReenableStale, RowStep
<1> QED BY <1>1, <1>2, <1>3, <1>4, <1>5, <1>6, <1>7
        DEF PoolNext, HolderNext, OperatorNext

\* Ageing changes nothing but a stamp that is there.
LEMMA AgedClean == ASSUME NEW h \in Health, Clean(h) PROVE Clean(Aged(h))
<1>1. /\ Aged(h).enabled = h.enabled /\ Aged(h).fails = h.fails
      /\ Aged(h).erred = h.erred
      /\ Aged(h).offFor = IF h.offFor = Never \/ h.offFor = Hours THEN h.offFor
                                                                  ELSE h.offFor + 1
      /\ Aged(h).quiet = IF h.quiet = Hours THEN h.quiet ELSE h.quiet + 1
  BY DEF Aged, Health
<1>2. h.offFor \in {Never} \cup 0..Hours /\ h.quiet \in 0..Hours
  BY DEF Health
<1>3. h.offFor # Never /\ h.offFor <= h.quiet =>
        Aged(h).offFor # Never /\ Aged(h).offFor <= Aged(h).quiet
  BY <1>1, <1>2, NodeAssumption DEF Never
<1> QED BY <1>1, <1>3 DEF Clean

\* Every row is clean, those that are not present too: they are fresh.
RowsClean == \A n \in NodeIds : Clean(node[n])

LEMMA StepClean == TableInv /\ RowsClean /\ [PoolNext]_poolVars => RowsClean'
<1> SUFFICES ASSUME TableInv, RowsClean, [PoolNext]_poolVars, NEW n \in NodeIds
             PROVE  Clean(node'[n])
  BY DEF RowsClean
<1>1. node[n] \in Health /\ Clean(node[n])
  BY DEF TableInv, PoolTypeOK, RowsClean
<1>2. RowStep(node[n], node'[n])
  BY StepRows
<1> QED BY <1>1, <1>2, FreshNodeClean, WritesClean, AgedClean DEF RowStep

-----------------------------------------------------------------------------
PoolIInv == TableInv /\ RowsClean

LEMMA Induction == PoolSpec => []PoolIInv
<1>1. PoolInit => PoolIInv
  BY InitTables, FreshNodeClean DEF PoolInit, PoolIInv, RowsClean
<1>2. PoolIInv /\ [PoolNext]_poolVars => PoolIInv'
  BY StepTables, StepClean DEF PoolIInv
<1> QED BY <1>1, <1>2, PTL DEF PoolSpec

\* Type correctness of the pool's tables.
THEOREM PoolTypes == PoolSpec => []PoolTypeOK
<1>1. PoolIInv => PoolTypeOK
  BY DEF PoolIInv, TableInv
<1> QED BY <1>1, Induction, PTL

\* However many leases, nodes, reclaims, late ends, deletions and boots: the
\* stored inflight column counts the lease rows.
THEOREM PoolCounts == PoolSpec => []HoldsAreExact
<1>1. PoolIInv => HoldsAreExact
  BY DEF PoolIInv, TableInv
<1> QED BY <1>1, Induction, PTL

\* An enabled node is below the threshold and carries no stamp; a node without
\* failures shows no error.
THEOREM PoolClean == PoolSpec => []EnabledNodeIsClean
<1>1. PoolIInv => EnabledNodeIsClean
  BY DEF PoolIInv, TableInv, PoolTypeOK, RowsClean, Clean, EnabledNodeIsClean
<1> QED BY <1>1, Induction, PTL

\* A disabled node comes back by the operator, or when Hours have passed since
\* it was disabled and, at or past the threshold, since its last failure.
THEOREM PoolBackoff == PoolSpec => NodeBackoff
<1> DEFINE Backoff == \A n \in present \cap present' :
                        ~node[n].enabled /\ node'[n].enabled =>
                          SetEnabled(n, TRUE) \/ BackoffOver(n)
<1>1. PoolIInv /\ [PoolNext]_poolVars => [Backoff]_poolVars
  <2> SUFFICES ASSUME PoolIInv, [PoolNext]_poolVars,
                      NEW n \in present \cap present',
                      ~node[n].enabled, node'[n].enabled
               PROVE  SetEnabled(n, TRUE) \/ BackoffOver(n)
    OBVIOUS
  <2>0. /\ node \in [NodeIds -> Health] /\ n \in NodeIds
    BY DEF PoolIInv, TableInv, PoolTypeOK
  <2>1. ASSUME NEW t \in Tokens, NEW o \in Outcomes, EndTx(t, o) PROVE FALSE
    <3>1. node'[n] = node[n] \/ node'[n] = Ended(node[n], o)
      BY <2>0, <2>1 DEF EndTx
    <3> QED BY <2>0, <3>1, EndsKeepOff
  <2>2. CASE \/ \E m \in NodeIds : PickTx(m)
             \/ NonePicked
             \/ \E t \in Tokens : RefreshTx(t)
             \/ ZeroHolds
             \/ UNCHANGED poolVars
    BY <2>2 DEF PickTx, NonePicked, RefreshTx, ZeroHolds, poolVars
  <2>3. CASE InsertNode
    <3>1. PICK m \in NodeIds : /\ \A k \in present : k < m
                               /\ node' = [node EXCEPT ![m] = FreshNode]
      BY <2>3 DEF InsertNode
    <3>2. m # n
      BY <2>0, <3>1 DEF NodeIds
    <3> QED BY <2>0, <3>1, <3>2
  <2>4. ASSUME NEW m \in NodeIds, DeleteNode(m) PROVE FALSE
    <3>1. m # n /\ node' = [node EXCEPT ![m] = FreshNode]
      BY <2>4 DEF DeleteNode
    <3> QED BY <2>0, <3>1
  <2>5. ASSUME NEW m \in NodeIds, NEW on \in BOOLEAN, SetEnabled(m, on)
        PROVE  SetEnabled(n, TRUE)
    <3>1. node' = [node EXCEPT ![m] = ToggledNode(@, on)]
      BY <2>5 DEF SetEnabled
    <3>2. m = n /\ node'[n] = ToggledNode(node[n], on)
      BY <2>0, <3>1
    <3>3. on = TRUE
      BY <2>0, <3>2 DEF ToggledNode, Health
    <3> QED BY <2>5, <3>2, <3>3
  <2>6. CASE Tick
    BY <2>0, <2>6 DEF Tick, Aged, Health
  <2>7. CASE ReenableStale
    <3>1. StaleNode(node[n])
      BY <2>0, <2>7 DEF ReenableStale
    <3>2. node[n].offFor \in {Never} \cup 0..Hours
      BY <2>0 DEF Health
    <3>3. node[n].offFor # Never /\ node[n].offFor >= Hours
      BY <3>1 DEF StaleNode
    <3>4. node[n].offFor \in 0..Hours /\ node[n].quiet \in 0..Hours
      BY <2>0, <3>2, <3>3 DEF Health
    <3>5. node[n].fails >= MaxFails => node[n].offFor <= node[n].quiet
      BY <2>0 DEF PoolIInv, RowsClean, Clean
    <3> HIDE DEF Backoff
    <3>6. node[n].offFor = Hours
      BY <3>3, <3>4, NodeAssumption
    <3>7. BackoffOver(n)
      BY <3>4, <3>5, <3>6, NodeAssumption DEF BackoffOver
    <3> QED BY <3>7
  <2> QED BY <2>1, <2>2, <2>3, <2>4, <2>5, <2>6, <2>7
          DEF PoolNext, HolderNext, OperatorNext
<1> QED BY <1>1, Induction, PTL DEF PoolSpec, NodeBackoff

-----------------------------------------------------------------------------
(* One leg.  RowOK is what TypeOK and NeverBare say of a leg, with NeverBare *)
(* claimed from the moment the node is acquired.                            *)

RowOK(r) ==
  /\ r \in Leg
  /\ r.pc = "idle" => r = IdleLeg
  /\ r.pc = "keyless" => r.key = 0
  /\ r.pc \in {"nodeless", "bail", "build", "calling", "endKey"} => r.key # 0
  /\ r.pc \in {"keyless", "nodeless", "bail"} => r.node = 0
  /\ r.pc = "endNode" => r.node # 0
  /\ r.direct => r.node = 0 /\ r.pc # "nodeless"
  /\ RequireProxy /\ r.pc \in {"build", "calling"} /\ ~r.direct => r.node # 0

LegsOK == leg \in [Legs -> Leg] /\ \A l \in Legs : RowOK(leg[l])

LEMMA IdleRow == RowOK(IdleLeg)
BY DEF RowOK, IdleLeg, Leg, Stages

\* A step that replaces the row of one leg by a good one.
LEMMA OneRow ==
  ASSUME LegsOK, NEW l \in Legs, NEW r, RowOK(r), leg' = [leg EXCEPT ![l] = r]
  PROVE  LegsOK'
<1>1. r \in Leg
  BY DEF RowOK
<1>2. leg' \in [Legs -> Leg]
  BY <1>1 DEF LegsOK
<1>3. \A m \in Legs : RowOK(leg'[m])
  <2> TAKE m \in Legs
  <2>1. leg'[m] = IF m = l THEN r ELSE leg[m]
    BY DEF LegsOK
  <2> QED BY <2>1 DEF LegsOK
<1> QED BY <1>2, <1>3 DEF LegsOK, RowOK

LEMMA UnwindRow == ASSUME LegsOK, NEW l \in Legs, Unwind(l) PROVE LegsOK'
BY IdleRow, OneRow DEF Unwind

\* Going on to another stage, with the holds unchanged.
LEMMA GotoRow ==
  ASSUME LegsOK, NEW l \in Legs, NEW s \in Stages, Goto(l, s),
         RowOK([leg[l] EXCEPT !.pc = s])
  PROVE  LegsOK'
<1>1. leg' = [leg EXCEPT ![l] = [leg[l] EXCEPT !.pc = s]]
  BY DEF Goto
<1> QED BY <1>1, OneRow

\* Every step of an attempt leaves its leg in order: q is the row it writes.
LEMMA LegStepRows ==
  ASSUME LegsOK, PoolTypeOK, nextKey \in Nat \ {0}, NEW l \in Legs, LegStep(l)
  PROVE  LegsOK'
<1> DEFINE r == leg[l]
<1>0. RowOK(r)
  BY DEF LegsOK
<1>1. CASE KeyGranted(l)
  <2> DEFINE s == IF r.direct THEN "build" ELSE "nodeless"
             q == [r EXCEPT !.key = nextKey, !.pc = s]
  <2>1. nextKey \in KeyTokens /\ nextKey # 0
    BY <1>1, LadderAssumption DEF KeyGranted, KeyTx, KeyTokens
  <2>2. s \in {"build", "nodeless"} /\ (r.direct <=> s = "build")
    OBVIOUS
  <2>3. leg' = [leg EXCEPT ![l] = q]
    BY <1>1 DEF KeyGranted
  <2> HIDE DEF s
  <2>4. RowOK(q)
    BY <1>0, <1>1, <2>1, <2>2 DEF KeyGranted, RowOK, Leg, Stages
  <2> HIDE DEF q
  <2> QED BY <2>3, <2>4, OneRow
<1>2. CASE KeyRefused(l)
  BY <1>2, IdleRow, OneRow DEF KeyRefused
<1>3. CASE NodePicked(l)
  <2> DEFINE q == [r EXCEPT !.node = nextToken, !.pc = "build"]
  <2>1. nextToken \in Tokens /\ nextToken # 0
    BY <1>3, NodeAssumption DEF NodePicked, PickTx, PoolTypeOK, Tokens
  <2>2. RowOK(q)
    BY <1>0, <1>3, <2>1 DEF NodePicked, RowOK, Leg, Stages
  <2>3. leg' = [leg EXCEPT ![l] = q]
    BY <1>3 DEF NodePicked
  <2> HIDE DEF q
  <2> QED BY <2>2, <2>3, OneRow
<1>4. CASE NoNode(l)
  <2> DEFINE s == IF RequireProxy THEN "bail" ELSE "build"
  <2>1. Goto(l, s) /\ r.pc = "nodeless"
    BY <1>4 DEF NoNode
  <2>2. s = "bail" \/ (s = "build" /\ ~RequireProxy)
    OBVIOUS
  <2> HIDE DEF s
  <2>3. RowOK([r EXCEPT !.pc = s])
    BY <1>0, <2>1, <2>2 DEF RowOK, Leg, Stages
  <2> QED BY <2>1, <2>2, <2>3, GotoRow DEF Stages
<1>5. CASE NodeError(l)
  <2>1. RowOK([r EXCEPT !.pc = "bail"])
    BY <1>0, <1>5 DEF NodeError, RowOK, Leg, Stages
  <2> QED BY <1>5, <2>1, GotoRow DEF NodeError, Stages
<1>6. CASE Build(l)
  <2>1. CASE Goto(l, "calling")
    <3>1. RowOK([r EXCEPT !.pc = "calling"])
      BY <1>0, <1>6 DEF Build, RowOK, Leg, Stages
    <3> QED BY <2>1, <3>1, GotoRow DEF Stages
  <2>2. CASE leg' = [leg EXCEPT ![l] = [r EXCEPT !.end = "unbuilt", !.pc = "endKey"]]
    <3>1. RowOK([r EXCEPT !.end = "unbuilt", !.pc = "endKey"])
      BY <1>0, <1>6 DEF Build, RowOK, Leg, Stages
    <3> QED BY <2>2, <3>1, OneRow
  <2> QED BY <1>6, <2>1, <2>2 DEF Build
<1>7. CASE Return(l)
  <2>1. PICK e \in CallEnds :
          leg' = [leg EXCEPT ![l] = [r EXCEPT !.end = e, !.pc = "endKey"]]
    BY <1>7 DEF Return
  <2>2. RowOK([r EXCEPT !.end = e, !.pc = "endKey"])
    BY <1>0, <1>7 DEF Return, RowOK, Leg, Stages
  <2> QED BY <2>1, <2>2, OneRow
<1>8. CASE EndKey(l)
  <2> DEFINE s == AfterKey(l)
             f == IF owed' = owed THEN 0 ELSE r.key
             q == [r EXCEPT !.key = 0, !.pc = s, !.flip = f]
  <2>1. s = "note" \/ (s = "endNode" /\ r.node # 0)
    BY DEF AfterKey
  <2>2. f \in KeyTokens \cup {0}
    BY <1>0 DEF RowOK, Leg
  <2>3. (leg' = [leg EXCEPT ![l] = q]) \/ Goto(l, s)
    BY <1>8 DEF EndKey
  <2> HIDE DEF s, f
  <2>4. RowOK(q) /\ RowOK([r EXCEPT !.pc = s])
    BY <1>0, <2>1, <2>2 DEF RowOK, Leg, Stages
  <2> HIDE DEF q
  <2> QED BY <2>1, <2>3, <2>4, OneRow, GotoRow DEF Stages
<1>9. CASE EndNode(l)
  <2>1. \/ leg' = [leg EXCEPT ![l] = [r EXCEPT !.node = 0, !.pc = "note"]]
        \/ Goto(l, "note")
    BY <1>9 DEF EndNode
  <2>2. RowOK([r EXCEPT !.node = 0, !.pc = "note"]) /\ RowOK([r EXCEPT !.pc = "note"])
    BY <1>0 DEF RowOK, Leg, Stages
  <2> QED BY <2>1, <2>2, OneRow, GotoRow DEF Stages
<1>10. CASE Note(l)
  BY <1>10, UnwindRow DEF Note
<1> QED BY <1>1, <1>2, <1>3, <1>4, <1>5, <1>6, <1>7, <1>8, <1>9, <1>10 DEF LegStep

\* Every step of the ladder leaves every leg in order.
LEMMA LadderRows ==
  ASSUME LegsOK, PoolTypeOK, nextKey \in Nat \ {0}, [Next]_vars
  PROVE  LegsOK'
<1>1. ASSUME NEW l \in Legs, NEW direct \in BOOLEAN, Start(l, direct) PROVE LegsOK'
  <2> DEFINE q == [IdleLeg EXCEPT !.pc = "keyless", !.direct = direct]
  <2>1. RowOK(q)
    BY DEF RowOK, IdleLeg, Leg, Stages
  <2>2. leg' = [leg EXCEPT ![l] = q]
    BY <1>1 DEF Start
  <2> HIDE DEF q
  <2> QED BY <2>1, <2>2, OneRow
<1>2. ASSUME NEW l \in Legs, LegStep(l) PROVE LegsOK'
  BY <1>2, LegStepRows
<1>3. ASSUME NEW l \in Legs, LegCut(l) PROVE LegsOK'
  <2>1. Unwind(l)
    BY <1>3 DEF LegCut, Cancel, KeyAbandoned, NodeAbandoned, EndKeyCut, EndNodeCut
  <2> QED BY <2>1, UnwindRow
<1>4. CASE Restart
  BY <1>4, IdleRow DEF Restart, LegsOK, RowOK
<1>5. CASE \/ \E l \in Legs : Refresh(l)
           \/ \E h \in Holds : DropRelease(h)
           \/ KeysGo
           \/ PoolMoves
           \/ UNCHANGED vars
  <2>1. leg' = leg
    BY <1>5 DEF Refresh, DropRelease, KeysGo, PoolMoves, ladderVars, vars
  <2> QED BY <2>1 DEF LegsOK
<1> QED BY <1>1, <1>2, <1>3, <1>4, <1>5 DEF Next

-----------------------------------------------------------------------------
(* The ladder implements the pool.                                          *)

\* A step of the ladder is a step of the pool, or leaves the pool alone.
LEMMA StepPool ==
  ASSUME LegsOK, [Next]_vars
  PROVE  [PoolNext]_poolVars
<1>1. ASSUME NEW l \in Legs, LegStep(l) PROVE [PoolNext]_poolVars
  <2>1. CASE NodePicked(l)
    BY <2>1 DEF NodePicked, PoolNext, HolderNext
  <2>2. CASE NoNode(l)
    BY <2>2 DEF NoNode, PoolNext, HolderNext
  <2>3. CASE EndNode(l)
    <3>1. leg[l].node \in Tokens
      BY <2>3 DEF EndNode, LegsOK, RowOK, Leg
    <3>2. NodeOutcome(leg[l].end) \in Outcomes
      BY DEF NodeOutcome, Outcomes
    <3> QED BY <2>3, <3>1, <3>2 DEF EndNode, PoolNext, HolderNext
  <2>4. CASE \/ KeyGranted(l) \/ KeyRefused(l) \/ NodeError(l) \/ Build(l)
             \/ Return(l) \/ EndKey(l) \/ Note(l)
    BY <2>4 DEF KeyGranted, KeyRefused, NodeError, Build, Return, EndKey, Note
  <2> QED BY <1>1, <2>1, <2>2, <2>3, <2>4 DEF LegStep
<1>2. ASSUME NEW l \in Legs, LegCut(l) PROVE [PoolNext]_poolVars
  <2>1. CASE NodeAbandoned(l)
    BY <2>1 DEF NodeAbandoned, PoolNext, HolderNext
  <2>2. CASE EndNodeCut(l)
    <3>1. leg[l].node \in Tokens
      BY <2>2 DEF EndNodeCut, LegsOK, RowOK, Leg
    <3>2. NodeOutcome(leg[l].end) \in Outcomes
      BY DEF NodeOutcome, Outcomes
    <3> QED BY <2>2, <3>1, <3>2 DEF EndNodeCut, PoolNext, HolderNext
  <2>3. CASE Cancel(l) \/ KeyAbandoned(l) \/ EndKeyCut(l)
    BY <2>3 DEF Cancel, KeyAbandoned, EndKeyCut
  <2> QED BY <1>2, <2>1, <2>2, <2>3 DEF LegCut
<1>3. ASSUME NEW l \in Legs, Refresh(l) PROVE [PoolNext]_poolVars
  <2>1. leg[l].node \in Tokens
    BY <1>3 DEF Refresh, LegsOK, RowOK, Leg
  <2> QED BY <1>3, <2>1 DEF Refresh, PoolNext, HolderNext
<1>4. ASSUME NEW h \in Holds, DropRelease(h) PROVE [PoolNext]_poolVars
  <2>1. CASE h[1] = "node" /\ EndTx(h[2], "release")
    <3>1. h[2] \in Tokens
      BY <2>1 DEF Holds
    <3> QED BY <2>1, <3>1 DEF PoolNext, HolderNext, Outcomes
  <2> QED BY <1>4, <2>1 DEF DropRelease
<1>5. CASE Restart
  BY <1>5 DEF Restart, PoolNext
<1>6. CASE PoolMoves
  BY <1>6 DEF PoolMoves, PoolNext
<1>7. CASE \/ \E l \in Legs, direct \in BOOLEAN : Start(l, direct)
           \/ KeysGo
           \/ UNCHANGED vars
  BY <1>7 DEF Start, KeysGo, vars
<1> QED BY <1>1, <1>2, <1>3, <1>4, <1>5, <1>6, <1>7 DEF Next

-----------------------------------------------------------------------------
(* The types of the ladder's own variables.                                 *)

SidesOK ==
  /\ keyLeases \subseteq KeyTokens
  /\ nextKey \in 1..(MaxKeyToken + 1)
  /\ drops \subseteq Holds
  /\ orphans \subseteq Holds
  /\ owed \subseteq KeyTokens

LEMMA LadderSides ==
  ASSUME SidesOK, LegsOK, PoolTypeOK, [Next]_vars
  PROVE  SidesOK'
<1>0. \A l \in Legs : Armed(l) \subseteq Holds
  BY DEF Armed
<1>1. ASSUME KeyTx
      PROVE  /\ keyLeases' \subseteq KeyTokens
             /\ nextKey' \in 1..(MaxKeyToken + 1)
             /\ <<"key", nextKey>> \in Holds
  BY <1>1, LadderAssumption DEF KeyTx, SidesOK, KeyTokens, Holds
<1>2. ASSUME NEW n \in NodeIds, PickTx(n) PROVE <<"node", nextToken>> \in Holds
  BY <1>2 DEF PickTx, PoolTypeOK, Tokens, Holds
<1>3. \A l \in Legs : leg[l].pc \in {"bail", "endKey"} /\ EndKeyTx(l) =>
        keyLeases' \subseteq KeyTokens /\ owed' \subseteq KeyTokens
  <2> SUFFICES ASSUME NEW l \in Legs, leg[l].pc \in {"bail", "endKey"}, EndKeyTx(l)
               PROVE  keyLeases' \subseteq KeyTokens /\ owed' \subseteq KeyTokens
    OBVIOUS
  <2>1. keyLeases' \subseteq keyLeases
    BY DEF EndKeyTx
  <2>2. leg[l].key \in KeyTokens
    BY DEF LegsOK, RowOK, Leg
  <2>3. owed' = owed \/ owed' = owed \cup {leg[l].key}
    BY DEF EndKeyTx
  <2> QED BY <2>1, <2>2, <2>3 DEF SidesOK
<1>4. ASSUME NEW l \in Legs, LegStep(l) PROVE SidesOK'
  <2>1. CASE KeyGranted(l)
    BY <1>1, <2>1 DEF KeyGranted, SidesOK
  <2>2. CASE EndKey(l)
    BY <1>3, <2>2 DEF EndKey, SidesOK, KeyTokens
  <2>3. CASE Note(l)
    BY <1>0, <2>3 DEF Note, Unwind, SidesOK, KeyTokens
  <2>4. CASE \/ KeyRefused(l) \/ NodePicked(l) \/ NoNode(l) \/ NodeError(l)
             \/ Build(l) \/ Return(l) \/ EndNode(l)
    BY <2>4 DEF KeyRefused, NodePicked, NoNode, NodeError, Build, Return,
                EndNode, SidesOK, KeyTokens
  <2> QED BY <1>4, <2>1, <2>2, <2>3, <2>4 DEF LegStep
<1>5. ASSUME NEW l \in Legs, LegCut(l) PROVE SidesOK'
  <2>0. drops' \subseteq Holds
    BY <1>0, <1>5 DEF LegCut, Cancel, KeyAbandoned, NodeAbandoned, EndKeyCut,
                      EndNodeCut, Unwind, SidesOK
  <2>1. CASE KeyAbandoned(l)
    BY <1>1, <2>0, <2>1 DEF KeyAbandoned, SidesOK
  <2>2. CASE NodeAbandoned(l)
    BY <1>2, <2>0, <2>2 DEF NodeAbandoned, SidesOK, KeyTokens
  <2>3. CASE EndKeyCut(l)
    BY <1>3, <2>0, <2>3 DEF EndKeyCut, SidesOK, KeyTokens
  <2>4. CASE Cancel(l) \/ EndNodeCut(l)
    BY <2>0, <2>4 DEF Cancel, EndNodeCut, SidesOK, KeyTokens
  <2> QED BY <1>5, <2>1, <2>2, <2>3, <2>4 DEF LegCut
<1>6. ASSUME NEW h \in Holds, DropRelease(h) PROVE SidesOK'
  BY <1>6 DEF DropRelease, SidesOK, KeyTokens
<1>7. CASE KeysGo
  BY <1>7 DEF KeysGo, SidesOK, KeyTokens
<1>8. CASE Restart
  <2>1. InTable \subseteq Holds
    BY DEF InTable, SidesOK, Holds
  <2> QED BY <1>8, <2>1 DEF Restart, SidesOK, KeyTokens
<1>9. CASE \/ \E l \in Legs, direct \in BOOLEAN : Start(l, direct)
           \/ \E l \in Legs : Refresh(l)
           \/ PoolMoves
           \/ UNCHANGED vars
  BY <1>9 DEF Start, Refresh, PoolMoves, ladderVars, vars, SidesOK, KeyTokens
<1> QED BY <1>4, <1>5, <1>6, <1>7, <1>8, <1>9 DEF Next

-----------------------------------------------------------------------------
LadderInv == TableInv /\ SidesOK /\ LegsOK

LEMMA LadderInduction == Spec => []LadderInv
<1>1. Init => LadderInv
  <2> SUFFICES ASSUME Init PROVE LadderInv
    OBVIOUS
  <2>1. LegsOK
    BY IdleRow DEF Init, LegsOK, RowOK
  <2>2. SidesOK
    BY LadderAssumption DEF Init, SidesOK
  <2> QED BY <2>1, <2>2, InitTables DEF Init, LadderInv
<1>2. LadderInv /\ [Next]_vars => LadderInv'
  <2> SUFFICES ASSUME LadderInv, [Next]_vars PROVE LadderInv'
    OBVIOUS
  <2>1. nextKey \in Nat \ {0}
    BY DEF LadderInv, SidesOK
  <2>2. PoolTypeOK
    BY DEF LadderInv, TableInv
  <2> QED BY <2>1, <2>2, StepPool, StepTables, LadderSides, LadderRows DEF LadderInv
<1> QED BY <1>1, <1>2, PTL DEF Spec

\* Types, and which holds are armed in which stage of an attempt, for any
\* number of legs, nodes and leases.
THEOREM LadderTypes == Spec => []TypeOK
<1>1. LadderInv => TypeOK
  BY DEF LadderInv, TableInv, SidesOK, LegsOK, RowOK, TypeOK, Types
<1> QED BY <1>1, LadderInduction, PTL

\* With REQUIRE_OUTBOUND_PROXY every leg that is on the wire and is not direct
\* has leased a node.
THEOREM LadderNeverBare == Spec => []NeverBare
<1>1. LadderInv => NeverBare
  BY DEF LadderInv, LegsOK, RowOK, NeverBare
<1> QED BY <1>1, LadderInduction, PTL

\* The ladder's interleavings of legs, cancellations, failed statements, drops
\* and boots are behaviours of the node pool.
THEOREM LadderImplementsPool == Spec => PoolSpec
<1>1. Init => PoolInit
  BY DEF Init
<1>2. LadderInv /\ [Next]_vars => [PoolNext]_poolVars
  BY StepPool DEF LadderInv
<1> QED BY <1>1, <1>2, LadderInduction, PTL DEF Spec, PoolSpec

-----------------------------------------------------------------------------
(* Every lease is accounted for.                                            *)

Known(h) == IF h[1] = "key" THEN h[2] < nextKey ELSE h[2] < nextToken

\* HoldsAccounted, and that whatever is armed or about to be released was
\* issued: a lease that is created now cannot be among them.
Accounts ==
  /\ \A h \in InTable : h \in drops \cup orphans \/ \E l \in Legs : h \in Armed(l)
  /\ \A l \in Legs : \A h \in Armed(l) : h \notin drops /\ Known(h)
  /\ \A l, m \in Legs : l # m => Armed(l) \cap Armed(m) = {}
  /\ \A h \in drops : Known(h)

LEMMA AccountsHolds == Accounts => HoldsAccounted
BY DEF Accounts, HoldsAccounted

\* Tokens only grow.
LEMMA KnownStays ==
  ASSUME PoolTypeOK, SidesOK, nextKey' \in {nextKey, nextKey + 1},
         nextToken' \in {nextToken, nextToken + 1}
  PROVE  \A h \in Holds : Known(h) => Known(h)'
<1> SUFFICES ASSUME NEW h \in Holds, Known(h) PROVE Known(h)'
  OBVIOUS
<1>1. CASE h[1] = "key"
  <2>1. h[2] \in Nat /\ nextKey \in Nat /\ h[2] < nextKey
    BY <1>1, LadderAssumption DEF Holds, KeyTokens, SidesOK, Known
  <2> QED BY <1>1, <2>1 DEF Known
<1>2. CASE h[1] # "key"
  <2>1. h[2] \in Nat /\ nextToken \in Nat /\ h[2] < nextToken
    BY <1>2, NodeAssumption DEF Holds, Tokens, PoolTypeOK, Known
  <2> QED BY <1>2, <2>1 DEF Known
<1> QED BY <1>1, <1>2

\* A step of leg l: what it newly arms was not issued before, what it no longer
\* arms is about to be released, or gone.
LEMMA LegMoves ==
  ASSUME Accounts, NEW l \in Legs, drops \subseteq Holds,
         \A m \in Legs \ {l} : Armed(m)' = Armed(m),
         \A h \in Armed(l)' \ Armed(l) : ~Known(h) /\ Known(h)',
         drops \subseteq drops', orphans \subseteq orphans',
         drops' \subseteq drops \cup (Armed(l) \ Armed(l)'),
         \A h \in Holds : Known(h) => Known(h)',
         \A h \in InTable' : \/ h \in Armed(l)' \cup drops' \cup orphans'
                             \/ h \in InTable \ Armed(l)
  PROVE  Accounts'
<1>0. \A m \in Legs : Armed(m) \subseteq Holds /\ Armed(m)' \subseteq Holds
  BY DEF Armed
<1>1. ASSUME NEW h \in InTable'
      PROVE  h \in drops' \cup orphans' \/ \E m \in Legs : h \in Armed(m)'
  BY DEF Accounts
<1>2. ASSUME NEW m \in Legs, NEW h \in Armed(m)'
      PROVE  h \notin drops' /\ Known(h)'
  BY <1>0 DEF Accounts
<1>3. ASSUME NEW k \in Legs, NEW m \in Legs, k # m
      PROVE  Armed(k)' \cap Armed(m)' = {}
  <2> SUFFICES ASSUME NEW h, h \in Armed(k)', h \in Armed(m)' PROVE FALSE
    OBVIOUS
  <2>1. CASE Known(h)
    <3>1. h \in Armed(k) /\ h \in Armed(m)
      BY <2>1
    <3> QED BY <1>3, <3>1 DEF Accounts
  <2>2. CASE ~Known(h)
    <3>1. k = l /\ m = l
      BY <2>2 DEF Accounts
    <3> QED BY <1>3, <3>1
  <2> QED BY <2>1, <2>2
<1>4. ASSUME NEW h \in drops' PROVE Known(h)'
  BY <1>0 DEF Accounts
<1> QED BY <1>1, <1>2, <1>3, <1>4 DEF Accounts

\* A step that arms and disarms nothing.
LEMMA TableMoves ==
  ASSUME Accounts, drops \subseteq Holds,
         \A m \in Legs : Armed(m)' = Armed(m),
         orphans \subseteq orphans', drops' \subseteq drops,
         \A h \in Holds : Known(h) => Known(h)',
         \A h \in InTable' : h \in InTable /\ (h \in drops => h \in drops' \cup orphans')
  PROVE  Accounts'
<1>0. \A m \in Legs : Armed(m) \subseteq Holds
  BY DEF Armed
<1> QED BY <1>0 DEF Accounts

-----------------------------------------------------------------------------
(* What the transactions do to the table.                                   *)

HeldNodes == {t \in Tokens : lease[t].node # 0}

LEMMA NodeTable ==
  ASSUME NEW F, HeldNodes' \subseteq HeldNodes \cup F, keyLeases' = keyLeases
  PROVE  InTable' \subseteq InTable \cup ({"node"} \X F)
BY DEF InTable, HeldNodes

LEMMA PickHeld ==
  ASSUME PoolTypeOK, NEW n \in NodeIds, PickTx(n)
  PROVE  HeldNodes' \subseteq HeldNodes \cup {nextToken} /\ nextToken' = nextToken + 1
<1>1. Unexpired \in Leases /\ \A t \in Tokens : Unexpired[t].node \in {0, lease[t].node}
  BY UnexpiredType
<1> QED BY <1>1 DEF PickTx, HeldNodes, Leases

LEMMA EndHeld ==
  ASSUME PoolTypeOK, NEW t \in Tokens, NEW o \in Outcomes, EndTx(t, o)
  PROVE  HeldNodes' \subseteq HeldNodes \ {t} /\ nextToken' = nextToken
BY DEF PoolTypeOK, EndTx, HeldNodes, NoLease

\* Everything else creates no lease.
LEMMA OtherHeld ==
  ASSUME PoolTypeOK,
         \/ NonePicked
         \/ \E t \in Tokens : RefreshTx(t)
         \/ OperatorNext \/ Tick \/ ReenableStale \/ ZeroHolds
         \/ UNCHANGED poolVars
  PROVE  HeldNodes' \subseteq HeldNodes /\ nextToken' = nextToken
<1>0. lease \in [Tokens -> [node : NodeIds \cup {0}, left : 0..TTL]]
  BY DEF PoolTypeOK
<1>1. CASE NonePicked
  BY <1>1, UnexpiredType DEF NonePicked, HeldNodes
<1>2. ASSUME NEW t \in Tokens, RefreshTx(t)
      PROVE  HeldNodes' \subseteq HeldNodes /\ nextToken' = nextToken
  <2>1. \A u \in Tokens : lease'[u].node = lease[u].node
    BY <1>0, <1>2 DEF RefreshTx
  <2> QED BY <1>2, <2>1 DEF RefreshTx, HeldNodes
<1>3. CASE OperatorNext
  <2>1. CASE InsertNode
    BY <2>1 DEF InsertNode, HeldNodes
  <2>2. ASSUME NEW n \in NodeIds, DeleteNode(n)
        PROVE  HeldNodes' \subseteq HeldNodes /\ nextToken' = nextToken
    BY <2>2 DEF DeleteNode, HeldNodes, NoLease
  <2>3. ASSUME NEW n \in NodeIds, NEW on \in BOOLEAN, SetEnabled(n, on)
        PROVE  HeldNodes' \subseteq HeldNodes /\ nextToken' = nextToken
    BY <2>3 DEF SetEnabled, HeldNodes
  <2> QED BY <1>3, <2>1, <2>2, <2>3 DEF OperatorNext
<1>4. CASE Tick
  <2>1. \A t \in Tokens : lease'[t].node = lease[t].node
    <3> TAKE t \in Tokens
    <3>1. lease'[t] = [lease[t] EXCEPT !.left = IF @ = 0 THEN 0 ELSE @ - 1]
      BY <1>4 DEF Tick
    <3> QED BY <1>0, <3>1
  <2> QED BY <1>4, <2>1 DEF Tick, HeldNodes
<1>5. CASE ReenableStale \/ UNCHANGED poolVars
  BY <1>5 DEF ReenableStale, poolVars, HeldNodes
<1>6. CASE ZeroHolds
  BY <1>6 DEF ZeroHolds, HeldNodes, NoLease
<1> QED BY <1>1, <1>2, <1>3, <1>4, <1>5, <1>6

-----------------------------------------------------------------------------
(* What the steps do to the armed holds.                                    *)

LEMMA NoHoldZero == <<"key", 0>> \notin Holds /\ <<"node", 0>> \notin Holds
BY DEF Holds, KeyTokens, Tokens

LEMMA ArmedRow ==
  ASSUME LegsOK, NEW l \in Legs, NEW q, leg' = [leg EXCEPT ![l] = q]
  PROVE  /\ Armed(l)' = {<<"key", q.key>>, <<"node", q.node>>} \cap Holds
         /\ \A m \in Legs \ {l} : Armed(m)' = Armed(m)
BY DEF LegsOK, Armed, Holds, KeyTokens, Tokens

LEMMA ArmedGoto ==
  ASSUME LegsOK, NEW l \in Legs, NEW s, Goto(l, s)
  PROVE  \A m \in Legs : Armed(m)' = Armed(m)
BY DEF LegsOK, Goto, Armed, Holds, KeyTokens, Tokens, Leg

\* A leg that is given up hands its holds to the releases.
LEMMA CutAccounts ==
  ASSUME LegsOK, Accounts, drops \subseteq Holds, NEW l \in Legs, Unwind(l),
         orphans \subseteq orphans', InTable' \subseteq InTable \cup orphans',
         \A h \in Holds : Known(h) => Known(h)'
  PROVE  Accounts'
<1>1. leg' = [leg EXCEPT ![l] = IdleLeg] /\ drops' = drops \cup Armed(l)
  BY DEF Unwind
<1>2. Armed(l)' = {} /\ \A m \in Legs \ {l} : Armed(m)' = Armed(m)
  BY <1>1, ArmedRow, NoHoldZero DEF IdleLeg
<1> QED BY <1>1, <1>2, LegMoves

\* A leg ends hold h, or goes on with its holds as they are.
LEMMA EndAccounts ==
  ASSUME Accounts, drops \subseteq Holds, NEW l \in Legs, NEW h,
         Armed(l)' = Armed(l) \ {h}, \A m \in Legs \ {l} : Armed(m)' = Armed(m),
         UNCHANGED <<drops, orphans>>, InTable' \subseteq InTable \ {h},
         \A g \in Holds : Known(g) => Known(g)'
  PROVE  Accounts'
BY LegMoves

LEMMA GrantAccounts ==
  ASSUME Accounts, drops \subseteq Holds, NEW l \in Legs, NEW h,
         Armed(l)' = Armed(l) \cup {h}, \A m \in Legs \ {l} : Armed(m)' = Armed(m),
         UNCHANGED <<drops, orphans>>, InTable' \subseteq InTable \cup {h},
         ~Known(h), Known(h)', \A g \in Holds : Known(g) => Known(g)'
  PROVE  Accounts'
BY LegMoves

\* A leg goes on with its holds as they are, or a step that is not a leg's.
LEMMA StayAccounts ==
  ASSUME Accounts, drops \subseteq Holds, \A m \in Legs : Armed(m)' = Armed(m),
         UNCHANGED drops, orphans \subseteq orphans', InTable' \subseteq InTable,
         \A g \in Holds : Known(g) => Known(g)'
  PROVE  Accounts'
BY TableMoves

-----------------------------------------------------------------------------
LEMMA StepAccounts ==
  ASSUME TableInv, SidesOK, LegsOK, Accounts, [Next]_vars
  PROVE  Accounts'
<1>0. PoolTypeOK /\ drops \subseteq Holds
  BY DEF TableInv, SidesOK
<1>1. nextKey' \in {nextKey, nextKey + 1} /\ nextToken' \in {nextToken, nextToken + 1} =>
        \A h \in Holds : Known(h) => Known(h)'
  BY <1>0, KnownStays
<1>2. ASSUME NEW l \in Legs, LegStep(l) PROVE Accounts'
  <2>1. CASE KeyGranted(l)
    <3>0. PICK k : k = nextKey
      OBVIOUS
    <3> DEFINE s == IF leg[l].direct THEN "build" ELSE "nodeless"
               q == [leg[l] EXCEPT !.key = k, !.pc = s]
               h == <<"key", k>>
    <3>1. leg' = [leg EXCEPT ![l] = q]
      BY <2>1, <3>0 DEF KeyGranted
    <3>2. leg[l].key = 0 /\ leg[l] \in Leg
      BY <2>1 DEF KeyGranted, LegsOK, RowOK
    <3> HIDE DEF s
    <3>3. q.key = k /\ q.node = leg[l].node
      BY <3>2 DEF Leg
    <3> HIDE DEF q
    <3>4. h \in Holds
      BY <2>1, <3>0, LadderAssumption DEF KeyGranted, KeyTx, SidesOK, KeyTokens, Holds
    <3>5. /\ Armed(l)' = Armed(l) \cup {h}
          /\ \A m \in Legs \ {l} : Armed(m)' = Armed(m)
      <4>1. Armed(l)' = {<<"key", k>>, <<"node", leg[l].node>>} \cap Holds
        BY <3>1, <3>3, ArmedRow
      <4>2. Armed(l) = {<<"node", leg[l].node>>} \cap Holds
        BY <3>2, NoHoldZero DEF Armed
      <4> QED BY <3>1, <3>4, <4>1, <4>2, ArmedRow
    <3>6. InTable' \subseteq InTable \cup {h}
      BY <2>1, <3>0 DEF KeyGranted, KeyTx, InTable, poolVars
    <3>7. nextKey' = k + 1 /\ k \in Nat
      BY <2>1, <3>0 DEF KeyGranted, KeyTx, SidesOK
    <3>8. ~Known(h) /\ Known(h)'
      BY <3>0, <3>7 DEF Known
    <3>9. UNCHANGED <<nextToken, drops, orphans>>
      BY <2>1 DEF KeyGranted, poolVars
    <3> HIDE DEF h
    <3> QED BY <1>0, <1>1, <3>0, <3>5, <3>6, <3>7, <3>8, <3>9, GrantAccounts
  <2>2. CASE NodePicked(l)
    <3>0. PICK k : k = nextToken
      OBVIOUS
    <3> DEFINE q == [leg[l] EXCEPT !.node = k, !.pc = "build"]
               h == <<"node", k>>
    <3>1. PICK n \in NodeIds : PickTx(n)
      BY <2>2 DEF NodePicked
    <3>2. leg' = [leg EXCEPT ![l] = q] /\ UNCHANGED <<keyLeases, nextKey, drops, orphans>>
      BY <2>2, <3>0 DEF NodePicked
    <3>3. leg[l].node = 0 /\ leg[l] \in Leg
      BY <2>2 DEF NodePicked, LegsOK, RowOK
    <3>4. q.key = leg[l].key /\ q.node = k
      BY <3>3 DEF Leg
    <3> HIDE DEF q
    <3>5. h \in Holds
      BY <1>0, <3>0, <3>1 DEF PickTx, PoolTypeOK, Tokens, Holds
    <3>6. /\ Armed(l)' = Armed(l) \cup {h}
          /\ \A m \in Legs \ {l} : Armed(m)' = Armed(m)
      <4>1. Armed(l)' = {<<"key", leg[l].key>>, <<"node", k>>} \cap Holds
        BY <3>2, <3>4, ArmedRow
      <4>2. Armed(l) = {<<"key", leg[l].key>>} \cap Holds
        BY <3>3, NoHoldZero DEF Armed
      <4> QED BY <3>2, <3>5, <4>1, <4>2, ArmedRow
    <3>7. HeldNodes' \subseteq HeldNodes \cup {k} /\ nextToken' = k + 1 /\ k \in Nat
      BY <1>0, <3>0, <3>1, PickHeld DEF PoolTypeOK
    <3>8. InTable' \subseteq InTable \cup {h}
      <4>1. InTable' \subseteq InTable \cup ({"node"} \X {k})
        BY <3>2, <3>7, NodeTable
      <4> QED BY <4>1
    <3>9. ~Known(h) /\ Known(h)'
      BY <3>0, <3>7 DEF Known
    <3> HIDE DEF h
    <3> QED BY <1>0, <1>1, <3>0, <3>2, <3>6, <3>7, <3>8, <3>9, GrantAccounts
  <2>3. CASE KeyRefused(l)
    <3>1. leg' = [leg EXCEPT ![l] = IdleLeg] /\ leg[l].key = 0 /\ leg[l].node = 0
      BY <2>3 DEF KeyRefused, LegsOK, RowOK
    <3>2. \A m \in Legs : Armed(m)' = Armed(m)
      BY <3>1, ArmedRow DEF Armed, IdleLeg
    <3> QED BY <1>0, <1>1, <2>3, <3>2, StayAccounts
            DEF KeyRefused, poolVars, InTable
  <2>4. CASE NoNode(l)
    <3>1. \A m \in Legs : Armed(m)' = Armed(m)
      BY <2>4, ArmedGoto DEF NoNode
    <3>2. HeldNodes' \subseteq HeldNodes /\ nextToken' = nextToken
      BY <1>0, <2>4, OtherHeld DEF NoNode
    <3>3. InTable' \subseteq InTable
      <4>1. InTable' \subseteq InTable \cup ({"node"} \X {})
        BY <2>4, <3>2, NodeTable DEF NoNode
      <4> QED BY <4>1
    <3> QED BY <1>0, <1>1, <2>4, <3>1, <3>2, <3>3, StayAccounts DEF NoNode
  <2>5. CASE NodeError(l) \/ Build(l) \/ Return(l)
    <3>1. UNCHANGED <<poolVars, keyLeases, nextKey, drops, orphans>>
      BY <2>5 DEF NodeError, Build, Return
    <3>2. \A m \in Legs : Armed(m)' = Armed(m)
      <4>1. CASE \E s \in Stages : Goto(l, s)
        BY <4>1, ArmedGoto
      <4>2. ASSUME NEW e, leg' = [leg EXCEPT ![l] = [leg[l] EXCEPT !.end = e, !.pc = "endKey"]]
            PROVE  \A m \in Legs : Armed(m)' = Armed(m)
        <5> DEFINE q == [leg[l] EXCEPT !.end = e, !.pc = "endKey"]
        <5>1. leg' = [leg EXCEPT ![l] = q]
          BY <4>2
        <5>2. q.key = leg[l].key /\ q.node = leg[l].node
          BY DEF LegsOK, Leg
        <5> HIDE DEF q
        <5> QED BY <5>1, <5>2, ArmedRow DEF Armed
      <4> QED BY <2>5, <4>1, <4>2 DEF NodeError, Build, Return, Stages
    <3> QED BY <1>0, <1>1, <3>1, <3>2, StayAccounts DEF poolVars, InTable
  <2>6. CASE EndKey(l)
    <3>1. UNCHANGED <<nextKey, nextToken, drops, orphans>>
      BY <2>6 DEF EndKey, poolVars
    <3>2. CASE Goto(l, AfterKey(l)) /\ UNCHANGED keyLeases
      <4>1. InTable' = InTable
        BY <2>6, <3>2 DEF EndKey, poolVars, InTable
      <4> QED BY <1>0, <1>1, <3>1, <3>2, <4>1, ArmedGoto, StayAccounts
    <3>3. CASE /\ EndKeyTx(l)
               /\ leg' = [leg EXCEPT ![l].key = 0, ![l].pc = AfterKey(l),
                             ![l].flip = IF owed' = owed THEN 0 ELSE leg[l].key]
      <4>0. PICK k : k = leg[l].key
        OBVIOUS
      <4> DEFINE s == AfterKey(l)
                 f == IF owed' = owed THEN 0 ELSE leg[l].key
                 q == [leg[l] EXCEPT !.key = 0, !.pc = s, !.flip = f]
                 h == <<"key", k>>
      <4>1. leg' = [leg EXCEPT ![l] = q]
        BY <3>3
      <4> HIDE DEF s, f
      <4>2. q.key = 0 /\ q.node = leg[l].node
        BY DEF LegsOK, Leg
      <4> HIDE DEF q
      <4>3. /\ Armed(l)' = Armed(l) \ {h}
            /\ \A m \in Legs \ {l} : Armed(m)' = Armed(m)
        <5>1. Armed(l)' = {<<"node", leg[l].node>>} \cap Holds
          <6>1. Armed(l)' = {<<"key", 0>>, <<"node", leg[l].node>>} \cap Holds
            BY <4>1, <4>2, ArmedRow
          <6> QED BY <6>1, NoHoldZero
        <5>2. Armed(l) = {h, <<"node", leg[l].node>>} \cap Holds
          BY <4>0 DEF Armed
        <5> QED BY <4>1, <5>1, <5>2, ArmedRow
      <4>4. InTable' \subseteq InTable \ {h}
        BY <2>6, <3>3, <4>0 DEF EndKey, EndKeyTx, poolVars, InTable
      <4> HIDE DEF h
      <4> QED BY <1>0, <1>1, <3>1, <4>3, <4>4, EndAccounts
    <3> QED BY <2>6, <3>2, <3>3 DEF EndKey
  <2>7. CASE EndNode(l)
    <3>1. UNCHANGED <<keyLeases, nextKey, drops, orphans>>
      BY <2>7 DEF EndNode
    <3>2. CASE Goto(l, "note") /\ UNCHANGED poolVars
      <4>1. InTable' = InTable /\ nextToken' = nextToken
        BY <3>1, <3>2 DEF poolVars, InTable
      <4> QED BY <1>0, <1>1, <3>1, <3>2, <4>1, ArmedGoto, StayAccounts
    <3>3. CASE /\ EndTx(leg[l].node, NodeOutcome(leg[l].end))
               /\ leg' = [leg EXCEPT ![l].node = 0, ![l].pc = "note"]
      <4>0. PICK t : t = leg[l].node
        OBVIOUS
      <4> DEFINE q == [leg[l] EXCEPT !.node = 0, !.pc = "note"]
                 h == <<"node", t>>
      <4>1. leg' = [leg EXCEPT ![l] = q]
        BY <3>3
      <4>2. q.node = 0 /\ q.key = leg[l].key
        BY DEF LegsOK, Leg
      <4> HIDE DEF q
      <4>3. /\ Armed(l)' = Armed(l) \ {h}
            /\ \A m \in Legs \ {l} : Armed(m)' = Armed(m)
        <5>1. Armed(l)' = {<<"key", leg[l].key>>} \cap Holds
          BY <4>1, <4>2, ArmedRow, NoHoldZero
        <5>2. Armed(l) = {<<"key", leg[l].key>>, h} \cap Holds
          BY <4>0 DEF Armed
        <5>3. <<"key", leg[l].key>> # h
          OBVIOUS
        <5> HIDE DEF h
        <5>4. Armed(l)' = Armed(l) \ {h}
          BY <5>1, <5>2, <5>3
        <5> QED BY <4>1, <5>4, ArmedRow
      <4>4. t \in Tokens /\ NodeOutcome(leg[l].end) \in Outcomes
        BY <2>7, <4>0 DEF EndNode, LegsOK, RowOK, Leg, NodeOutcome, Outcomes
      <4>5. HeldNodes' \subseteq HeldNodes \ {t} /\ nextToken' = nextToken
        BY <1>0, <3>3, <4>0, <4>4, EndHeld
      <4>6. InTable' \subseteq InTable \ {h}
        BY <3>1, <4>5 DEF InTable, HeldNodes
      <4> HIDE DEF h
      <4> QED BY <1>0, <1>1, <3>1, <4>3, <4>5, <4>6, EndAccounts
    <3> QED BY <2>7, <3>2, <3>3 DEF EndNode
  <2>8. CASE Note(l)
    BY <1>0, <1>1, <2>8, CutAccounts DEF Note, poolVars, InTable
  <2> QED BY <1>2, <2>1, <2>2, <2>3, <2>4, <2>5, <2>6, <2>7, <2>8 DEF LegStep
<1>3. ASSUME NEW l \in Legs, LegCut(l) PROVE Accounts'
  <2>1. CASE Cancel(l)
    BY <1>0, <1>1, <2>1, CutAccounts DEF Cancel, poolVars, InTable
  <2>2. CASE KeyAbandoned(l)
    <3>1. InTable' \subseteq InTable \cup {<<"key", nextKey>>}
      BY <2>2 DEF KeyAbandoned, KeyTx, InTable, poolVars
    <3> QED BY <1>0, <1>1, <2>2, <3>1, CutAccounts DEF KeyAbandoned, KeyTx, poolVars
  <2>3. CASE NodeAbandoned(l)
    <3>0. PICK k : k = nextToken
      OBVIOUS
    <3>1. HeldNodes' \subseteq HeldNodes \cup {k} /\ nextToken' = nextToken + 1
      BY <1>0, <2>3, <3>0, PickHeld DEF NodeAbandoned
    <3>2. InTable' \subseteq InTable \cup {<<"node", k>>}
      <4>1. InTable' \subseteq InTable \cup ({"node"} \X {k})
        BY <2>3, <3>1, NodeTable DEF NodeAbandoned
      <4> QED BY <4>1
    <3> QED BY <1>0, <1>1, <2>3, <3>0, <3>1, <3>2, CutAccounts DEF NodeAbandoned
  <2>4. CASE EndKeyCut(l)
    <3>1. InTable' \subseteq InTable
      BY <2>4 DEF EndKeyCut, EndKeyTx, InTable, poolVars
    <3> QED BY <1>0, <1>1, <2>4, <3>1, CutAccounts DEF EndKeyCut, poolVars
  <2>5. CASE EndNodeCut(l)
    <3>1. leg[l].node \in Tokens /\ NodeOutcome(leg[l].end) \in Outcomes
      BY <2>5 DEF EndNodeCut, LegsOK, RowOK, Leg, NodeOutcome, Outcomes
    <3>2. HeldNodes' \subseteq HeldNodes /\ nextToken' = nextToken
      BY <1>0, <2>5, <3>1, EndHeld DEF EndNodeCut
    <3>3. InTable' \subseteq InTable
      BY <2>5, <3>2 DEF EndNodeCut, InTable, HeldNodes
    <3> QED BY <1>0, <1>1, <2>5, <3>2, <3>3, CutAccounts DEF EndNodeCut
  <2> QED BY <1>3, <2>1, <2>2, <2>3, <2>4, <2>5 DEF LegCut
<1>4. ASSUME NEW l \in Legs, NEW direct \in BOOLEAN, Start(l, direct)
      PROVE  Accounts'
  <2> DEFINE q == [IdleLeg EXCEPT !.pc = "keyless", !.direct = direct]
  <2>1. leg' = [leg EXCEPT ![l] = q] /\ q.key = 0 /\ q.node = 0
    BY <1>4 DEF Start, IdleLeg
  <2>2. leg[l].key = 0 /\ leg[l].node = 0
    BY <1>4 DEF Start, LegsOK, RowOK, IdleLeg
  <2> HIDE DEF q
  <2>3. \A m \in Legs : Armed(m)' = Armed(m)
    BY <2>1, <2>2, ArmedRow DEF Armed
  <2> QED BY <1>0, <1>1, <1>4, <2>3, StayAccounts DEF Start, poolVars, InTable
<1>5. ASSUME NEW h \in Holds, DropRelease(h) PROVE Accounts'
  <2>1. UNCHANGED <<nextKey, leg>> /\ drops' = drops \ {h} /\ orphans \subseteq orphans'
    BY <1>5 DEF DropRelease
  <2>2. \A m \in Legs : Armed(m)' = Armed(m)
    BY <2>1 DEF Armed
  <2>3. /\ nextToken' = nextToken
        /\ InTable' \subseteq InTable
        /\ h \notin InTable' \/ h \in orphans'
    <3>1. CASE h[1] = "key" /\ keyLeases' = keyLeases \ {h[2]} /\ UNCHANGED poolVars
      BY <3>1 DEF poolVars, InTable, Holds
    <3>2. CASE h[1] = "node" /\ EndTx(h[2], "release") /\ UNCHANGED keyLeases
      <4>1. h[2] \in Tokens /\ "release" \in Outcomes
        BY <3>2 DEF Holds, Outcomes
      <4>2. HeldNodes' \subseteq HeldNodes \ {h[2]} /\ nextToken' = nextToken
        BY <1>0, <3>2, <4>1, EndHeld
      <4> QED BY <3>2, <4>2 DEF InTable, HeldNodes
    <3>3. CASE orphans' = orphans \cup {h} /\ UNCHANGED <<poolVars, keyLeases>>
      BY <3>3 DEF poolVars, InTable
    <3> QED BY <1>5, <3>1, <3>2, <3>3 DEF DropRelease
  <2> QED BY <1>0, <1>1, <2>1, <2>2, <2>3, TableMoves
<1>6. CASE KeysGo
  BY <1>0, <1>1, <1>6, StayAccounts DEF KeysGo, poolVars, InTable, Armed
<1>7. CASE Restart
  <2>1. \A m \in Legs : Armed(m)' = {}
    BY <1>7, NoHoldZero DEF Restart, Armed, IdleLeg
  <2>2. HeldNodes' \subseteq HeldNodes
    BY <1>0, <1>7, OtherHeld DEF Restart
  <2>3. InTable' \subseteq InTable
    BY <1>7, <2>2 DEF Restart, InTable, HeldNodes
  <2> QED BY <1>7, <2>1, <2>3 DEF Restart, Accounts
<1>8. CASE PoolMoves \/ \E l \in Legs : Refresh(l)
  <2>1. UNCHANGED <<keyLeases, nextKey, leg, drops, orphans>>
    BY <1>8 DEF PoolMoves, Refresh, ladderVars
  <2>2. \A l \in Legs : Refresh(l) => leg[l].node \in Tokens
    BY DEF Refresh, LegsOK, RowOK, Leg
  <2>3. HeldNodes' \subseteq HeldNodes /\ nextToken' = nextToken
    BY <1>0, <1>8, <2>2, OtherHeld DEF PoolMoves, Refresh
  <2>4. InTable' \subseteq InTable
    BY <2>1, <2>3 DEF InTable, HeldNodes
  <2> QED BY <1>0, <1>1, <2>1, <2>3, <2>4, StayAccounts DEF Armed
<1>9. CASE UNCHANGED vars
  BY <1>0, <1>1, <1>9, StayAccounts DEF vars, ladderVars, poolVars, InTable, Armed
<1> QED BY <1>2, <1>3, <1>4, <1>5, <1>6, <1>7, <1>8, <1>9 DEF Next

\* Every lease has exactly one party that will end it, for any number of legs
\* and leases and every interleaving of failures, cancellations and boots.
THEOREM LadderAccounts == Spec => []HoldsAccounted
<1>1. Init => Accounts
  <2> SUFFICES ASSUME Init PROVE Accounts
    OBVIOUS
  <2>1. InTable = {} /\ drops = {}
    BY DEF Init, PoolInit, NoLease, InTable
  <2>2. \A l \in Legs : Armed(l) = {}
    BY NoHoldZero DEF Init, IdleLeg, Armed
  <2> QED BY <2>1, <2>2 DEF Accounts
<1>2. LadderInv /\ Accounts /\ [Next]_vars => Accounts'
  BY StepAccounts DEF LadderInv
<1>3. Accounts => HoldsAccounted
  BY AccountsHolds
<1> QED BY <1>1, <1>2, <1>3, LadderInduction, PTL DEF Spec
=============================================================================
