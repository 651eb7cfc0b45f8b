------------------------- MODULE RequestLife_proofs -------------------------
(***************************************************************************)
(* Proofs about RequestLife, for any number of requests, tokens and        *)
(* buckets and any cap.                                                    *)
(*                                                                         *)
(* TokenCap: who has cloned or tried a bucket refers to it, so that the    *)
(* map keeps it for that token (BucketsAgree), and a bucket has at most    *)
(* its cap of permits out (PermitCap).                                     *)
(*                                                                         *)
(* The funnel: a delta is in one place and the writer's stages come in     *)
(* order (FunnelInv).  The end of a request: one outcome, one row          *)
(* (EndsInv).  The alert: the window holds what was recorded (WindowInv).  *)
(***************************************************************************)
EXTENDS RequestLife, Picks_proofs, FiniteSetTheorems, TLAPS

Cells == Buckets \union {NoBucket}

Stages  == {"idle", "lookup", "try", "prepare", "running", "flush", "emit",
            "record", "send", "done", "dropped"}

AdmissionTypeOK ==
    /\ bucketOf \in [Tokens -> Cells]
    /\ clone \in [Requests -> Cells] /\ permit \in [Requests -> Cells]
    /\ token \in [Requests -> Tokens \union {NoToken}]
    /\ pc \in [Requests -> Stages]

Refers(r, b) == b # NoBucket /\ b \in {clone[r], permit[r]}

BucketsAgree ==
    \A r \in Requests, b \in Buckets :
        Refers(r, b) => token[r] \in Tokens /\ bucketOf[token[r]] = b

PermitCap == \A b \in Buckets : Cardinality(Permits(b)) <= MaxInflight

\* A clone is held between the look-up and the try, a permit after it.
ClonesInStage ==
    \A r \in Requests :
        /\ pc[r] = "try" => clone[r] # NoBucket /\ permit[r] = NoBucket
        /\ pc[r] # "try" => clone[r] = NoBucket
        /\ pc[r] \in {"idle", "lookup"} => permit[r] = NoBucket

AdmissionInv ==
    AdmissionTypeOK /\ BucketsAgree /\ PermitCap /\ ClonesInStage

LEMMA PermitsFinite ==
    ASSUME NEW b
    PROVE  IsFiniteSet(Permits(b)) /\ Cardinality(Permits(b)) \in Nat
<1>1. Permits(b) \subseteq Requests
    BY DEF Permits
<1> QED BY <1>1, AdmissionAssumption, FS_Subset, FS_CardinalityType

LEMMA AdmissionInitially == Init => AdmissionInv
<1> SUFFICES ASSUME Init PROVE AdmissionInv
    OBVIOUS
<1>1. AdmissionTypeOK /\ BucketsAgree /\ ClonesInStage
    BY AdmissionAssumption DEF Init, AdmissionInit, AdmissionTypeOK, Cells, BucketsAgree,
       Refers, ClonesInStage, Stages
<1>2. PermitCap
    <2> SUFFICES ASSUME NEW b \in Buckets PROVE Cardinality(Permits(b)) <= MaxInflight
        BY DEF PermitCap
    <2>1. Permits(b) = {}
        BY AdmissionAssumption DEF Permits, Init, AdmissionInit
    <2> QED BY <2>1, FS_EmptySet, AdmissionAssumption
<1> QED BY <1>1, <1>2 DEF AdmissionInv

\* A step that leaves the buckets alone, and nobody's stage for another kind.
LEMMA AdmissionUntouched ==
    ASSUME AdmissionInv, UNCHANGED admission, pc' \in [Requests -> Stages],
           \A r \in Requests :
               /\ pc'[r] = "try" <=> pc[r] = "try"
               /\ pc'[r] \in {"idle", "lookup"} => pc[r] \in {"idle", "lookup"}
    PROVE  AdmissionInv'
<1>1. UNCHANGED <<bucketOf, clone, permit, token>>
    BY DEF admission
<1>2. AdmissionTypeOK' /\ BucketsAgree'
    BY <1>1 DEF AdmissionInv, AdmissionTypeOK, BucketsAgree, Refers
<1>3. PermitCap'
    BY <1>1 DEF AdmissionInv, PermitCap, Permits
<1>4. ClonesInStage'
    BY <1>1 DEF AdmissionInv, ClonesInStage
<1> QED BY <1>2, <1>3, <1>4 DEF AdmissionInv

LEMMA FindStep == ASSUME AdmissionInv, NEW r \in Requests, Find(r) PROVE AdmissionInv'
<1>1. PICK t \in Tokens, b \in Buckets :
        /\ Live(t) => b = bucketOf[t]
        /\ bucketOf' = [u \in Tokens |-> IF u = t THEN b
                                         ELSE IF Live(u) THEN bucketOf[u]
                                         ELSE NoBucket]
        /\ clone' = [clone EXCEPT ![r] = b]
        /\ token' = [token EXCEPT ![r] = t]
        /\ UNCHANGED permit
    BY DEF Find, LookUp
<1>2. pc[r] = "lookup" /\ pc' = [pc EXCEPT ![r] = "try"]
    BY DEF Find
<1>3. clone[r] = NoBucket /\ permit[r] = NoBucket
    BY <1>2 DEF AdmissionInv, ClonesInStage
<1>4. /\ b # NoBucket /\ t # NoToken
    BY AdmissionAssumption
<1>5. AdmissionTypeOK'
    BY <1>1, <1>2 DEF AdmissionInv, AdmissionTypeOK, Cells, Stages
<1>6. /\ \A q \in Requests : clone'[q] = IF q = r THEN b ELSE clone[q]
      /\ \A q \in Requests : token'[q] = IF q = r THEN t ELSE token[q]
      /\ \A q \in Requests : pc'[q] = IF q = r THEN "try" ELSE pc[q]
    BY <1>1, <1>2 DEF AdmissionInv, AdmissionTypeOK
<1>7. bucketOf'[t] = b
    BY <1>1
<1>8. BucketsAgree'
    <2> SUFFICES ASSUME NEW q \in Requests, NEW c \in Buckets, Refers(q, c)'
                 PROVE  token'[q] \in Tokens /\ bucketOf'[token'[q]] = c
        BY DEF BucketsAgree
    <2>1. CASE q = r
        BY <2>1, <1>1, <1>3, <1>6, <1>7 DEF Refers
    <2>2. CASE q # r
        <3>1. Refers(q, c)
            BY <2>2, <1>1, <1>6 DEF Refers
        <3>2. token[q] \in Tokens /\ bucketOf[token[q]] = c /\ token'[q] = token[q]
            BY <2>2, <3>1, <1>6 DEF AdmissionInv, BucketsAgree
        <3>3. Live(token[q])
            BY <3>1, <3>2 DEF Live, Referenced, Refers
        <3> QED BY <1>1, <3>2, <3>3
    <2> QED BY <2>1, <2>2
<1>9. PermitCap'
    BY <1>1 DEF AdmissionInv, PermitCap, Permits
<1>10. ClonesInStage'
    BY <1>1, <1>3, <1>4, <1>6 DEF AdmissionInv, ClonesInStage
<1> QED BY <1>5, <1>8, <1>9, <1>10 DEF AdmissionInv

LEMMA AdmitStep ==
    ASSUME AdmissionInv, NEW r \in Requests, pc[r] = "try", Admit(r),
           pc' = [pc EXCEPT ![r] = "prepare"]
    PROVE  AdmissionInv'
<1> DEFINE b == clone[r]
<1>1. /\ HasRoom(b) /\ permit' = [permit EXCEPT ![r] = b]
      /\ clone' = [clone EXCEPT ![r] = NoBucket]
      /\ UNCHANGED <<bucketOf, token>>
    BY DEF Admit
<1>2. b \in Buckets /\ b # NoBucket /\ permit[r] = NoBucket
    BY AdmissionAssumption DEF AdmissionInv, AdmissionTypeOK, Cells, ClonesInStage
<1> HIDE DEF b
<1>3. /\ \A q \in Requests : clone'[q] = IF q = r THEN NoBucket ELSE clone[q]
      /\ \A q \in Requests : permit'[q] = IF q = r THEN b ELSE permit[q]
      /\ \A q \in Requests : pc'[q] = IF q = r THEN "prepare" ELSE pc[q]
    BY <1>1 DEF AdmissionInv, AdmissionTypeOK
<1>4. AdmissionTypeOK'
    BY <1>1, <1>2 DEF AdmissionInv, AdmissionTypeOK, Cells, Stages
<1>5. BucketsAgree'
    <2>1. Refers(r, b)
        BY <1>2 DEF Refers, b
    <2> QED BY <1>1, <1>3, <2>1, <1>2 DEF AdmissionInv, BucketsAgree, Refers
<1>6. PermitCap'
    <2> SUFFICES ASSUME NEW c \in Buckets PROVE Cardinality(Permits(c)') <= MaxInflight
        BY DEF PermitCap
    <2>1. CASE c # b
        <3>1. c # NoBucket
            BY AdmissionAssumption
        <3>2. Permits(c)' = Permits(c)
            BY <1>2, <1>3, <2>1, <3>1 DEF Permits
        <3> QED BY <3>2 DEF AdmissionInv, PermitCap
    <2>2. CASE c = b
        <3>1. r \notin Permits(c) /\ Permits(c)' = Permits(c) \union {r}
            BY <1>2, <1>3, <2>2 DEF Permits
        <3>2. Cardinality(Permits(c)') = Cardinality(Permits(c)) + 1
            BY <3>1, PermitsFinite, FS_AddElement
        <3> QED BY <1>1, <2>2, <3>2, PermitsFinite, AdmissionAssumption DEF HasRoom
    <2> QED BY <2>1, <2>2
<1>7. ClonesInStage'
    BY <1>2, <1>3 DEF AdmissionInv, ClonesInStage
<1> QED BY <1>4, <1>5, <1>6, <1>7 DEF AdmissionInv

\* A clone or a permit is given up.
LEMMA GivenUp ==
    ASSUME AdmissionInv, NEW r \in Requests,
           UNCHANGED bucketOf, AdmissionTypeOK',
           \A q \in Requests \ {r} :
               /\ clone'[q] = clone[q] /\ permit'[q] = permit[q]
               /\ token'[q] = token[q] /\ pc'[q] = pc[q],
           clone'[r] = NoBucket, permit'[r] = NoBucket, pc'[r] # "try"
    PROVE  AdmissionInv'
<1>1. BucketsAgree'
    BY DEF AdmissionInv, BucketsAgree, Refers
<1>2. PermitCap'
    <2> SUFFICES ASSUME NEW c \in Buckets PROVE Cardinality(Permits(c)') <= MaxInflight
        BY DEF PermitCap
    <2>1. Permits(c)' \subseteq Permits(c)
        BY AdmissionAssumption DEF Permits
    <2>2. /\ Cardinality(Permits(c)') <= Cardinality(Permits(c))
          /\ Cardinality(Permits(c)') \in Nat
        BY <2>1, PermitsFinite, FS_Subset, FS_CardinalityType
    <2> QED BY <2>2, PermitsFinite, AdmissionAssumption DEF AdmissionInv, PermitCap
<1>3. ClonesInStage'
    BY DEF AdmissionInv, ClonesInStage
<1> QED BY <1>1, <1>2, <1>3 DEF AdmissionInv

LEMMA TryStep == ASSUME AdmissionInv, NEW r \in Requests, Try(r) PROVE AdmissionInv'
<1>1. pc[r] = "try"
    BY DEF Try
<1>2. CASE Admit(r) /\ pc' = [pc EXCEPT ![r] = "prepare"]
    BY <1>1, <1>2, AdmitStep
<1>3. CASE Refuse(r) /\ pc' = [pc EXCEPT ![r] = "emit"]
    <2>1. clone' = [clone EXCEPT ![r] = NoBucket] /\ UNCHANGED <<bucketOf, permit, token>>
        BY <1>3 DEF Refuse
    <2>2. permit[r] = NoBucket
        BY <1>1 DEF AdmissionInv, ClonesInStage
    <2>3. AdmissionTypeOK'
        BY <1>3, <2>1 DEF AdmissionInv, AdmissionTypeOK, Cells, Stages
    <2>4. /\ clone'[r] = NoBucket /\ permit'[r] = NoBucket /\ pc'[r] = "emit"
          /\ \A q \in Requests \ {r} : clone'[q] = clone[q] /\ pc'[q] = pc[q]
        BY <1>3, <2>1, <2>2 DEF AdmissionInv, AdmissionTypeOK
    <2> QED BY <2>1, <2>3, <2>4, GivenUp
<1> QED BY <1>2, <1>3 DEF Try

LEMMA SendStep == ASSUME AdmissionInv, NEW r \in Requests, EmitSend(r) PROVE AdmissionInv'
<1>1. /\ pc[r] = "send" /\ pc' = [pc EXCEPT ![r] = "done"]
      /\ permit' = [permit EXCEPT ![r] = NoBucket]
      /\ token' = [token EXCEPT ![r] = NoToken]
      /\ UNCHANGED <<bucketOf, clone>>
    BY DEF EmitSend, Return
<1>2. clone[r] = NoBucket
    BY <1>1 DEF AdmissionInv, ClonesInStage
<1>3. AdmissionTypeOK'
    BY <1>1 DEF AdmissionInv, AdmissionTypeOK, Cells, Stages
<1>4. /\ clone'[r] = NoBucket /\ permit'[r] = NoBucket /\ pc'[r] = "done"
      /\ \A q \in Requests \ {r} : /\ permit'[q] = permit[q] /\ token'[q] = token[q]
                                   /\ pc'[q] = pc[q]
    BY <1>1, <1>2 DEF AdmissionInv, AdmissionTypeOK
<1> QED BY <1>1, <1>3, <1>4, GivenUp

\* Where a stage is left for one that has no part in the admission.
LEMMA StageStep ==
    ASSUME AdmissionInv, NEW r \in Requests, NEW s \in Stages, UNCHANGED admission,
           pc[r] # "try", pc' = [pc EXCEPT ![r] = s],
           s # "try", s \in {"idle", "lookup"} => pc[r] \in {"idle", "lookup"}
    PROVE  AdmissionInv'
<1>1. pc' \in [Requests -> Stages]
    BY DEF AdmissionInv, AdmissionTypeOK
<1>2. \A q \in Requests : pc'[q] = IF q = r THEN s ELSE pc[q]
    BY DEF AdmissionInv, AdmissionTypeOK
<1> QED BY <1>1, <1>2, AdmissionUntouched

LEMMA AdmissionStep == AdmissionInv /\ [Next]_vars => AdmissionInv'
<1> SUFFICES ASSUME AdmissionInv, [Next]_vars PROVE AdmissionInv'
    OBVIOUS
<1>1. ASSUME NEW r \in Requests, Arrive(r) PROVE AdmissionInv'
    <2>1. /\ pc[r] = "idle" /\ UNCHANGED admission
          /\ \E s \in {"emit", "prepare", "lookup"} : pc' = [pc EXCEPT ![r] = s]
        BY <1>1 DEF Arrive, Unauthorized, BadBody, Refused, Health, CallsRest, CallsTool
    <2> QED BY <2>1, StageStep DEF Stages
<1>2. ASSUME NEW r \in Requests, Prepare(r) PROVE AdmissionInv'
    <2>1. /\ pc[r] = "prepare" /\ UNCHANGED admission
          /\ \E s \in {"emit", "running"} : pc' = [pc EXCEPT ![r] = s]
        BY <1>2 DEF Prepare, PrepareTool, PrepareRest, Refused
    <2> QED BY <2>1, StageStep DEF Stages
<1>3. ASSUME NEW r \in Requests, Poll(r) PROVE AdmissionInv'
    <2>1. /\ pc[r] = "running" /\ UNCHANGED admission
          /\ \E s \in {"emit", "flush"} : pc' = [pc EXCEPT ![r] = s]
        BY <1>3 DEF Poll, PollTool, PollRest
    <2> QED BY <2>1, StageStep DEF Stages
<1>4. ASSUME NEW r \in Requests, Flushed(r) \/ Disconnect(r) \/ EmitRow(r) \/ EmitRecord(r)
      PROVE AdmissionInv'
    <2>1. /\ pc[r] \in {"flush", "prepare", "running", "emit", "record"}
          /\ UNCHANGED admission
          /\ \E s \in {"emit", "dropped", "record", "send"} : pc' = [pc EXCEPT ![r] = s]
        BY <1>4 DEF Flushed, Disconnect, EmitRow, EmitRecord
    <2> QED BY <2>1, StageStep DEF Stages
<1>5. ASSUME UNCHANGED <<admission, pc>> PROVE AdmissionInv'
    BY <1>5, AdmissionUntouched DEF AdmissionInv, AdmissionTypeOK
<1>6. ASSUME NEW r \in Requests, Frame(r) \/ Deliver(r) PROVE AdmissionInv'
    BY <1>5, <1>6 DEF Frame, Deliver
<1>7. CASE Alert \/ Tick \/ WriterStep \/ Shutdown \/ UNCHANGED vars
    BY <1>5, <1>7 DEF Alert, Tick, WriterStep, Shutdown, vars, life
<1> QED BY <1>1, <1>2, <1>3, <1>4, <1>6, <1>7, FindStep, TryStep, SendStep
        DEF Next, Step, Emit

\* Everybody who refers to a bucket has the token whose bucket it is in the map,
\* and no bucket has more permits out than the cap (semaphore_for, try_acquire).
THEOREM AdmissionInvariant == Spec => []AdmissionInv
BY AdmissionInitially, AdmissionStep, PTL DEF Spec

\* No token ever has more tool calls running than max_inflight, whatever idle
\* buckets are dropped and made again while calls are between look-up and try.
THEOREM TokenCapHolds == Spec => []TokenCap
<1>1. AdmissionInv => TokenCap
    <2> SUFFICES ASSUME AdmissionInv, NEW t \in Tokens
                 PROVE  Cardinality(Running(t)) <= MaxInflight
        BY DEF TokenCap
    <2>1. CASE Running(t) = {}
        BY <2>1, FS_EmptySet, AdmissionAssumption
    <2>2. CASE Running(t) # {}
        <3> DEFINE b == bucketOf[t]
        <3>1. \A r \in Running(t) : permit[r] = b /\ b \in Buckets
            BY DEF Running, AdmissionInv, BucketsAgree, Refers, AdmissionTypeOK, Cells
        <3>2. b \in Buckets /\ Running(t) \subseteq Permits(b)
            BY <2>2, <3>1 DEF Permits, Running
        <3>3. /\ Cardinality(Running(t)) <= Cardinality(Permits(b))
              /\ Cardinality(Running(t)) \in Nat
            BY <3>2, PermitsFinite, FS_Subset, FS_CardinalityType
        <3>4. Cardinality(Permits(b)) <= MaxInflight
            BY <3>2 DEF AdmissionInv, PermitCap
        <3> QED BY <3>3, <3>4, PermitsFinite, AdmissionAssumption
    <2> QED BY <2>1, <2>2
<1> QED BY <1>1, AdmissionInvariant, PTL

-----------------------------------------------------------------------------
(* The usage channel.                                                       *)

Once(q) == \A i, j \in 1..Len(q) : q[i] = q[j] => i = j

LEMMA RangeOf ==
    ASSUME NEW S, NEW q \in Seq(S)
    PROVE  Range(q) = {q[i] : i \in 1..Len(q)}
<1>1. DOMAIN q = 1..Len(q)
    OBVIOUS
<1> QED BY <1>1 DEF Range

LEMMA EmptyFacts == Range(<<>>) = {} /\ Once(<<>>)
BY DEF Range, Once

LEMMA AppendFacts ==
    ASSUME NEW S, NEW q \in Seq(S), NEW r \in S
    PROVE  /\ Append(q, r) \in Seq(S) /\ Len(Append(q, r)) = Len(q) + 1
           /\ Range(Append(q, r)) = Range(q) \union {r}
           /\ Once(q) /\ r \notin Range(q) => Once(Append(q, r))
<1> DEFINE a == Append(q, r)
<1>1. /\ a \in Seq(S) /\ Len(a) = Len(q) + 1 /\ Len(q) \in Nat
      /\ \A i \in 1..Len(q) : a[i] = q[i]
      /\ a[Len(q) + 1] = r
    OBVIOUS
<1> HIDE DEF a
<1>2. 1..Len(a) = (1..Len(q)) \union {Len(q) + 1}
    BY <1>1
<1>3. /\ Range(a) = {a[i] : i \in 1..Len(a)}
      /\ Range(q) = {q[i] : i \in 1..Len(q)}
    BY <1>1, RangeOf
<1>4. Range(a) = Range(q) \union {r}
    BY <1>1, <1>2, <1>3
<1>5. ASSUME Once(q), r \notin Range(q) PROVE Once(a)
    <2>1. \A i \in 1..Len(q) : q[i] # r
        BY <1>3, <1>5
    <2> QED BY <1>1, <1>2, <1>5, <2>1 DEF Once
<1> QED BY <1>1, <1>4, <1>5 DEF a

LEMMA TailFacts ==
    ASSUME NEW S, NEW q \in Seq(S), q # <<>>
    PROVE  /\ Head(q) \in S /\ Tail(q) \in Seq(S) /\ Len(Tail(q)) = Len(q) - 1
           /\ Range(q) = Range(Tail(q)) \union {Head(q)}
           /\ Once(q) => Once(Tail(q)) /\ Head(q) \notin Range(Tail(q))
<1> DEFINE t == Tail(q)
<1>1. /\ t \in Seq(S) /\ Len(t) = Len(q) - 1 /\ Len(q) \in Nat \ {0}
      /\ Head(q) = q[1] /\ Head(q) \in S
      /\ \A i \in 1..Len(t) : t[i] = q[i + 1]
    OBVIOUS
<1> HIDE DEF t
<1>2. /\ \A i \in 1..Len(t) : i + 1 \in 1..Len(q) /\ i + 1 # 1
      /\ \A i \in 1..Len(q) : i # 1 => i - 1 \in 1..Len(t) /\ (i - 1) + 1 = i
      /\ 1 \in 1..Len(q)
    BY <1>1
<1>3. /\ Range(t) = {t[i] : i \in 1..Len(t)}
      /\ Range(q) = {q[i] : i \in 1..Len(q)}
    BY <1>1, RangeOf
<1>4. Range(q) \subseteq Range(t) \union {Head(q)}
    <2> SUFFICES ASSUME NEW i \in 1..Len(q) PROVE q[i] \in Range(t) \union {Head(q)}
        BY <1>3
    <2>1. CASE i = 1
        BY <1>1, <2>1
    <2>2. CASE i # 1
        <3>1. t[i - 1] = q[i] /\ i - 1 \in 1..Len(t)
            BY <1>1, <1>2, <2>2
        <3> QED BY <1>3, <3>1
    <2> QED BY <2>1, <2>2
<1>5. Range(t) \union {Head(q)} \subseteq Range(q)
    BY <1>1, <1>2, <1>3
<1>6. ASSUME Once(q) PROVE Once(t) /\ Head(q) \notin Range(t)
    <2>1. \A i \in 1..Len(t) : t[i] # q[1]
        BY <1>1, <1>2, <1>6 DEF Once
    <2>2. Head(q) \notin Range(t)
        BY <1>1, <1>3, <2>1
    <2>3. Once(t)
        <3> SUFFICES ASSUME NEW i \in 1..Len(t), NEW j \in 1..Len(t), t[i] = t[j]
                     PROVE  i = j
            BY DEF Once
        <3>1. q[i + 1] = q[j + 1]
            BY <1>1
        <3>2. i + 1 = j + 1
            BY <1>2, <1>6, <3>1 DEF Once
        <3> QED BY <3>2
    <2> QED BY <2>2, <2>3
<1> QED BY <1>1, <1>4, <1>5, <1>6 DEF t

\* Where a delta may be.
Delta(r) == r \in Range(queue) \union {busy} \union written \union dropped

FunnelTypeOK ==
    /\ pc \in [Requests -> Stages]
    /\ queue \in Seq(Requests) /\ busy \in Requests \union {NoRequest}
    /\ written \subseteq Requests /\ dropped \subseteq Requests
    /\ early \subseteq Requests
    /\ writer \in {"up", "draining", "drained", "gone"}
    /\ main \in {"serve", "stopping"}

\* A delta is in one place, and only of a request that has ended.
OnePlace ==
    /\ Once(queue)
    /\ Range(queue) \intersect (written \union dropped \union {busy}) = {}
    /\ busy \notin written \union dropped
    /\ written \intersect dropped = {}
    /\ \A r \in Requests : Delta(r) => pc[r] = "done"

\* The writer stops only for a stop, and has nothing in hand once it has drained.
StopOrder ==
    /\ main = "serve" => writer = "up" /\ stop = FALSE
    /\ writer \in {"drained", "gone"} => busy = NoRequest
    /\ writer \in {"drained", "gone"} => early \subseteq written \union dropped
    /\ \A r \in early : pc[r] = "done"

NoneLost == writer # "gone" => \A r \in Requests : pc[r] = "done" => Delta(r)

FunnelInv == FunnelTypeOK /\ OnePlace /\ StopOrder /\ NoneLost

LEMMA FunnelInitially == Init => FunnelInv
<1> SUFFICES ASSUME Init PROVE FunnelInv
    OBVIOUS
<1>1. /\ queue = <<>> /\ busy = NoRequest /\ written = {} /\ dropped = {}
      /\ writer = "up" /\ stop = FALSE /\ main = "serve" /\ early = {}
      /\ pc = [r \in Requests |-> "idle"]
    BY DEF Init, FunnelInit
<1>2. FunnelTypeOK
    BY <1>1 DEF FunnelTypeOK, Stages
<1>3. \A r \in Requests : ~Delta(r) /\ pc[r] # "done"
    BY <1>1, EmptyFacts, FunnelAssumption DEF Delta
<1> QED BY <1>1, <1>2, <1>3, EmptyFacts DEF FunnelInv, OnePlace, StopOrder, NoneLost

\* A step of a request that does not send.
LEMMA FunnelUntouched ==
    ASSUME FunnelInv, UNCHANGED <<queue, busy, written, dropped, writer, stop, main, early>>,
           pc' \in [Requests -> Stages],
           \A r \in Requests : pc'[r] = "done" <=> pc[r] = "done"
    PROVE  FunnelInv'
<1>1. FunnelTypeOK'
    BY DEF FunnelInv, FunnelTypeOK
<1>2. \A r \in Requests : Delta(r)' = Delta(r)
    BY DEF Delta
<1>3. early \subseteq Requests
    BY DEF FunnelInv, FunnelTypeOK
<1>4. OnePlace'
    BY <1>2 DEF FunnelInv, OnePlace
<1>5. StopOrder'
    BY <1>3 DEF FunnelInv, StopOrder
<1>6. NoneLost'
    BY <1>2 DEF FunnelInv, NoneLost
<1> QED BY <1>1, <1>4, <1>5, <1>6 DEF FunnelInv

LEMMA FunnelSend == ASSUME FunnelInv, NEW r \in Requests, EmitSend(r) PROVE FunnelInv'
<1>1. /\ pc[r] = "send" /\ pc' = [pc EXCEPT ![r] = "done"] /\ Sent(r)
      /\ UNCHANGED <<busy, written, writer, stop, main, early>>
    BY DEF EmitSend, past
<1>2. /\ pc' \in [Requests -> Stages]
      /\ \A q \in Requests : pc'[q] = IF q = r THEN "done" ELSE pc[q]
    BY <1>1 DEF FunnelInv, FunnelTypeOK, Stages
<1>3. r \notin Range(queue) /\ r # busy /\ r \notin written /\ r \notin dropped
    BY <1>1 DEF FunnelInv, OnePlace, Delta
<1>t. queue \in Seq(Requests) /\ early \subseteq Requests
    BY DEF FunnelInv, FunnelTypeOK
<1>4. CASE writer # "gone" /\ queue' = Append(queue, r) /\ UNCHANGED dropped
    <2>1. /\ queue' \in Seq(Requests) /\ Range(queue') = Range(queue) \union {r}
          /\ Once(queue')
        BY <1>3, <1>4, <1>t, AppendFacts DEF FunnelInv, OnePlace
    <2>2. \A q \in Requests : Delta(q)' <=> Delta(q) \/ q = r
        BY <1>1, <1>4, <2>1 DEF Delta
    <2>3. FunnelTypeOK'
        BY <1>1, <1>2, <1>4, <2>1 DEF FunnelInv, FunnelTypeOK
    <2>4. OnePlace'
        BY <1>1, <1>2, <1>3, <1>4, <2>1, <2>2 DEF FunnelInv, OnePlace
    <2>5. StopOrder'
        BY <1>1, <1>2, <1>4, <1>t DEF FunnelInv, StopOrder
    <2>6. NoneLost'
        BY <1>1, <1>2, <2>2 DEF FunnelInv, NoneLost
    <2> QED BY <2>3, <2>4, <2>5, <2>6 DEF FunnelInv
<1>5. CASE dropped' = dropped \union {r} /\ UNCHANGED queue
    <2>1. \A q \in Requests : Delta(q)' <=> Delta(q) \/ q = r
        BY <1>1, <1>5 DEF Delta
    <2>2. FunnelTypeOK'
        BY <1>1, <1>2, <1>5 DEF FunnelInv, FunnelTypeOK
    <2>3. OnePlace'
        BY <1>1, <1>2, <1>3, <1>5, <2>1 DEF FunnelInv, OnePlace
    <2>4. StopOrder'
        BY <1>1, <1>2, <1>5, <1>t DEF FunnelInv, StopOrder
    <2>5. NoneLost'
        BY <1>1, <1>2, <2>1 DEF FunnelInv, NoneLost
    <2> QED BY <2>2, <2>3, <2>4, <2>5 DEF FunnelInv
<1> QED BY <1>1, <1>4, <1>5 DEF Sent

LEMMA FunnelWriter == ASSUME FunnelInv, WriterStep PROVE FunnelInv'
<1>1. UNCHANGED <<pc, main, early>> /\ Writer
    BY DEF WriterStep, life, past
<1>t. /\ queue \in Seq(Requests) /\ NoRequest \notin Requests
      /\ busy \in Requests \union {NoRequest}
      /\ written \subseteq Requests /\ dropped \subseteq Requests
    BY FunnelAssumption DEF FunnelInv, FunnelTypeOK
<1>2. CASE WriterTakes
    <2>1. /\ writer \in {"up", "draining"} /\ busy = NoRequest /\ queue # <<>>
          /\ busy' = Head(queue) /\ queue' = Tail(queue)
          /\ UNCHANGED <<written, dropped, writer, stop>>
        BY <1>2 DEF WriterTakes
    <2>2. /\ busy' \in Requests /\ queue' \in Seq(Requests) /\ Once(queue')
          /\ Range(queue) = Range(queue') \union {busy'} /\ busy' \notin Range(queue')
        BY <1>t, <2>1, TailFacts DEF FunnelInv, OnePlace
    <2>3. \A q \in Requests : Delta(q)' <=> Delta(q)
        BY <1>t, <2>1, <2>2 DEF Delta
    <2>4. FunnelTypeOK'
        BY <1>1, <2>1, <2>2 DEF FunnelInv, FunnelTypeOK
    <2>5. OnePlace'
        BY <1>1, <2>1, <2>2, <2>3 DEF FunnelInv, OnePlace
    <2>6. StopOrder' /\ NoneLost'
        BY <1>1, <2>1, <2>3 DEF FunnelInv, StopOrder, NoneLost
    <2> QED BY <2>4, <2>5, <2>6 DEF FunnelInv
<1>3. CASE WriterEnds
    <2>1. /\ busy \in Requests /\ busy' = NoRequest /\ UNCHANGED <<queue, writer, stop>>
          /\ \/ written' = written \union {busy} /\ UNCHANGED dropped
             \/ dropped' = dropped \union {busy} /\ UNCHANGED written
        BY <1>3, <1>t DEF WriterEnds
    <2>2. \A q \in Requests : Delta(q)' <=> Delta(q)
        BY <1>t, <2>1 DEF Delta
    <2>3. FunnelTypeOK'
        BY <1>1, <2>1 DEF FunnelInv, FunnelTypeOK
    <2>r. Range(queue) \subseteq Requests
        BY <1>t, RangeOf
    <2>4. OnePlace'
        BY <1>1, <1>t, <2>1, <2>2, <2>r DEF FunnelInv, OnePlace
    <2>5. StopOrder' /\ NoneLost'
        BY <1>1, <2>1, <2>2 DEF FunnelInv, StopOrder, NoneLost
    <2> QED BY <2>3, <2>4, <2>5 DEF FunnelInv
<1>4. CASE WriterStops
    <2>1. /\ writer = "up" /\ stop /\ writer' = "draining" /\ stop' = FALSE
          /\ UNCHANGED <<queue, busy, written, dropped>>
        BY <1>4 DEF WriterStops
    <2>2. \A q \in Requests : Delta(q)' <=> Delta(q)
        BY <2>1 DEF Delta
    <2>3. FunnelTypeOK' /\ OnePlace' /\ NoneLost'
        BY <1>1, <2>1, <2>2 DEF FunnelInv, FunnelTypeOK, OnePlace, NoneLost
    <2>4. StopOrder'
        BY <1>1, <2>1 DEF FunnelInv, StopOrder
    <2> QED BY <2>3, <2>4 DEF FunnelInv
<1>5. CASE WriterDrained
    <2>1. /\ writer = "draining" /\ busy = NoRequest /\ queue = <<>> /\ writer' = "drained"
          /\ UNCHANGED <<queue, busy, written, dropped, stop>>
        BY <1>5 DEF WriterDrained
    <2>2. \A q \in Requests : Delta(q)' <=> Delta(q)
        BY <2>1 DEF Delta
    <2>3. FunnelTypeOK' /\ OnePlace' /\ NoneLost'
        BY <1>1, <2>1, <2>2 DEF FunnelInv, FunnelTypeOK, OnePlace, NoneLost
    <2>4. early \subseteq written \union dropped
        <3> SUFFICES ASSUME NEW r \in early PROVE r \in written \union dropped
            OBVIOUS
        <3>1. r \in Requests /\ pc[r] = "done"
            BY DEF FunnelInv, FunnelTypeOK, StopOrder
        <3>2. Delta(r)
            BY <2>1, <3>1 DEF FunnelInv, NoneLost
        <3> QED BY <1>t, <2>1, <3>1, <3>2, EmptyFacts DEF Delta
    <2>5. StopOrder'
        BY <1>1, <2>1, <2>4 DEF FunnelInv, StopOrder
    <2> QED BY <2>3, <2>5 DEF FunnelInv
<1>6. CASE WriterGone
    <2>1. /\ writer = "drained" /\ writer' = "gone" /\ queue' = <<>>
          /\ UNCHANGED <<busy, written, dropped, stop>>
        BY <1>6 DEF WriterGone
    <2>2. \A q \in Requests : Delta(q)' => Delta(q)
        BY <2>1, EmptyFacts DEF Delta
    <2>3. FunnelTypeOK'
        BY <1>1, <2>1 DEF FunnelInv, FunnelTypeOK
    <2>4. OnePlace'
        BY <1>1, <2>1, <2>2, EmptyFacts DEF FunnelInv, OnePlace
    <2>5. StopOrder' /\ NoneLost'
        BY <1>1, <2>1 DEF FunnelInv, StopOrder, NoneLost
    <2> QED BY <2>3, <2>4, <2>5 DEF FunnelInv
<1> QED BY <1>1, <1>2, <1>3, <1>4, <1>5, <1>6 DEF Writer

LEMMA FunnelShutdown == ASSUME FunnelInv, Shutdown PROVE FunnelInv'
<1>1. /\ main = "serve" /\ main' = "stopping"
      /\ early' = {r \in Requests : pc[r] = "done"}
      /\ UNCHANGED <<queue, busy, written, dropped, writer, pc>>
    BY DEF Shutdown
<1>2. writer = "up"
    BY <1>1 DEF FunnelInv, StopOrder
<1>3. \A q \in Requests : Delta(q)' <=> Delta(q)
    BY <1>1 DEF Delta
<1>4. FunnelTypeOK' /\ OnePlace' /\ NoneLost'
    BY <1>1, <1>3 DEF FunnelInv, FunnelTypeOK, OnePlace, NoneLost
<1>5. StopOrder'
    BY <1>1, <1>2 DEF StopOrder
<1> QED BY <1>4, <1>5 DEF FunnelInv

\* The stage a request is in, after a step of its own that does not send.
LEMMA FunnelStage ==
    ASSUME FunnelInv, NEW r \in Requests, NEW s \in Stages,
           UNCHANGED <<queue, busy, written, dropped, writer, stop, main, early>>,
           pc[r] # "done", s # "done", pc' = [pc EXCEPT ![r] = s]
    PROVE  FunnelInv'
<1>1. /\ pc' \in [Requests -> Stages]
      /\ \A q \in Requests : pc'[q] = IF q = r THEN s ELSE pc[q]
    BY DEF FunnelInv, FunnelTypeOK
<1> QED BY <1>1, FunnelUntouched

LEMMA FunnelStep == FunnelInv /\ [Next]_vars => FunnelInv'
<1> SUFFICES ASSUME FunnelInv, [Next]_vars PROVE FunnelInv'
    OBVIOUS
<1>t. pc \in [Requests -> Stages]
    BY DEF FunnelInv, FunnelTypeOK
<1>1. ASSUME NEW r \in Requests, Arrive(r) PROVE FunnelInv'
    <2>1. /\ pc[r] = "idle"
          /\ UNCHANGED <<queue, busy, written, dropped, writer, stop, main, early>>
          /\ \E s \in {"emit", "prepare", "lookup"} : pc' = [pc EXCEPT ![r] = s]
        BY <1>1 DEF Arrive, Unauthorized, BadBody, Refused, Health, CallsRest,
                    CallsTool, funnel
    <2> QED BY <2>1, FunnelStage DEF Stages
<1>2. ASSUME NEW r \in Requests, Find(r) PROVE FunnelInv'
    <2>1. /\ pc[r] = "lookup" /\ pc' = [pc EXCEPT ![r] = "try"]
          /\ UNCHANGED <<queue, busy, written, dropped, writer, stop, main, early>>
        BY <1>2 DEF Find, funnel, past
    <2> QED BY <2>1, FunnelStage DEF Stages
<1>3. ASSUME NEW r \in Requests, Try(r) PROVE FunnelInv'
    <2>1. /\ pc[r] = "try"
          /\ UNCHANGED <<queue, busy, written, dropped, writer, stop, main, early>>
          /\ \E s \in {"prepare", "emit"} : pc' = [pc EXCEPT ![r] = s]
        BY <1>3 DEF Try, funnel, past
    <2> QED BY <2>1, FunnelStage DEF Stages
<1>4. ASSUME NEW r \in Requests, Prepare(r) PROVE FunnelInv'
    <2>1. /\ pc[r] = "prepare"
          /\ UNCHANGED <<queue, busy, written, dropped, writer, stop, main, early>>
          /\ \E s \in {"running", "emit"} : pc' = [pc EXCEPT ![r] = s]
        BY <1>4 DEF Prepare, PrepareTool, PrepareRest, Refused, funnel, past
    <2> QED BY <2>1, FunnelStage DEF Stages
<1>5. ASSUME NEW r \in Requests, Poll(r) PROVE FunnelInv'
    <2>1. /\ pc[r] = "running"
          /\ UNCHANGED <<queue, busy, written, dropped, writer, stop, main, early>>
          /\ \E s \in {"flush", "emit"} : pc' = [pc EXCEPT ![r] = s]
        BY <1>5 DEF Poll, PollTool, PollRest, funnel, past
    <2> QED BY <2>1, FunnelStage DEF Stages
<1>6. ASSUME NEW r \in Requests, Flushed(r) \/ EmitRow(r) \/ EmitRecord(r) \/ Disconnect(r)
      PROVE  FunnelInv'
    <2>1. /\ pc[r] \in {"flush", "emit", "record", "prepare", "running"}
          /\ UNCHANGED <<queue, busy, written, dropped, writer, stop, main, early>>
          /\ \E s \in {"emit", "record", "send", "dropped"} : pc' = [pc EXCEPT ![r] = s]
        BY <1>6 DEF Flushed, EmitRow, EmitRecord, Disconnect, funnel, past
    <2> QED BY <2>1, FunnelStage DEF Stages
<1>7. ASSUME NEW r \in Requests, Frame(r) \/ Deliver(r) PROVE FunnelInv'
    <2>1. UNCHANGED <<pc, queue, busy, written, dropped, writer, stop, main, early>>
        BY <1>7 DEF Frame, Deliver, funnel, past
    <2> QED BY <1>t, <2>1, FunnelUntouched
<1>8. CASE Alert \/ Tick \/ UNCHANGED vars
    <2>1. UNCHANGED <<pc, queue, busy, written, dropped, writer, stop, main, early>>
        BY <1>8 DEF Alert, AlertCheck, Tick, Minute, vars, funnel, life, past
    <2> QED BY <1>t, <2>1, FunnelUntouched
<1> QED BY <1>1, <1>2, <1>3, <1>4, <1>5, <1>6, <1>7, <1>8, FunnelSend, FunnelWriter,
           FunnelShutdown DEF Next, Step, Emit

\* A delta is always in exactly one of the places the funnel has for it, until
\* the writer's receiver is gone.
THEOREM FunnelInvariant == Spec => []FunnelInv
<1> QED BY FunnelInitially, FunnelStep, PTL DEF Spec

\* The promise of send_usage and the writer task, for any number of requests
\* and any capacity of the channel: a delta is written, counted as dropped or
\* on its way, and what was sent before shutdown is written or counted once
\* the writer is gone.
THEOREM DeltasAreAccounted == Spec => []DeltasAccounted
<1>1. FunnelInv => DeltasAccounted
    BY DEF FunnelInv, OnePlace, StopOrder, NoneLost, Delta, DeltasAccounted
<1> QED BY <1>1, FunnelInvariant, PTL

-----------------------------------------------------------------------------
(* How a request ends.                                                      *)

Before == {"idle", "lookup", "try", "prepare", "running"}

EndsTypeOK ==
    /\ pc \in [Requests -> Stages]
    /\ paid \in [Requests -> BOOLEAN]
    /\ outcome \in [Requests -> {"none", "ok", "failed", "refused", "cancelled", "timeout"}]
    /\ frames \in [Requests -> Nat]
    /\ kind \in [Requests -> {"none", "rest", "tool"}]
    /\ ring \in Seq(Requests) /\ Len(ring) <= RingCap

\* Nothing has been paid for before the race is decided.
PaidLast ==
    \A r \in Requests :
        IF pc[r] \in Before THEN ~paid[r] ELSE paid[r] => outcome[r] \in Answers

\* Frames are queued only during the race and its flush, and only by tools.
FramesInRace ==
    \A r \in Requests :
        pc[r] \notin {"running", "flush"} \/ kind[r] = "rest" => frames[r] = 0

EndsInv == EndsTypeOK /\ PaidLast /\ FramesInRace /\ RowForEveryEnd

LEMMA PushedFacts ==
    ASSUME NEW q \in Seq(Requests), Len(q) <= RingCap, Once(q),
           NEW r \in Requests, r \notin Range(q)
    PROVE  /\ Pushed(q, r) \in Seq(Requests) /\ Len(Pushed(q, r)) <= RingCap
           /\ Once(Pushed(q, r)) /\ r \in Range(Pushed(q, r))
           /\ Range(Pushed(q, r)) \subseteq Range(q) \union {r}
           /\ \/ Range(q) \subseteq Range(Pushed(q, r))
              \/ Len(Pushed(q, r)) = RingCap
           /\ Len(q) = RingCap => Len(Pushed(q, r)) = RingCap
<1>n. RingCap \in Nat /\ RingCap > 0 /\ Len(q) \in Nat
    BY FunnelAssumption
<1>1. CASE Len(q) = RingCap
    <2> DEFINE t == Tail(q)
    <2>1. q # <<>>
        BY <1>n, <1>1
    <2>2. /\ t \in Seq(Requests) /\ Len(t) = RingCap - 1 /\ Once(t)
          /\ Range(t) \subseteq Range(q) /\ r \notin Range(t)
        BY <1>1, <2>1, TailFacts
    <2> HIDE DEF t
    <2>3. /\ Append(t, r) \in Seq(Requests) /\ Len(Append(t, r)) = RingCap
          /\ Range(Append(t, r)) = Range(t) \union {r} /\ Once(Append(t, r))
        BY <1>n, <2>2, AppendFacts
    <2>4. Pushed(q, r) = Append(t, r)
        BY <1>1 DEF Pushed, t
    <2> QED BY <1>n, <2>2, <2>3, <2>4
<1>2. CASE Len(q) # RingCap
    <2>1. /\ Append(q, r) \in Seq(Requests) /\ Len(Append(q, r)) = Len(q) + 1
          /\ Range(Append(q, r)) = Range(q) \union {r} /\ Once(Append(q, r))
        BY AppendFacts
    <2>2. Pushed(q, r) = Append(q, r)
        BY <1>2 DEF Pushed
    <2> QED BY <1>n, <1>2, <2>1, <2>2
<1> QED BY <1>1, <1>2

LEMMA OnceIsInjective == ASSUME NEW q \in Seq(Requests) PROVE IsInjective(q) <=> Once(q)
<1>1. DOMAIN q = 1..Len(q)
    OBVIOUS
<1> QED BY <1>1 DEF IsInjective, Once

LEMMA EndsInitially == Init => EndsInv
<1> SUFFICES ASSUME Init PROVE EndsInv
    OBVIOUS
<1>1. EndsTypeOK
    BY FunnelAssumption DEF Init, FunnelInit, EndsTypeOK, Stages
<1>2. PaidLast /\ FramesInRace
    BY DEF Init, PaidLast, FramesInRace, Before
<1>3. RowForEveryEnd
    <2>1. ring = <<>> /\ \A r \in Requests : pc[r] = "idle"
        BY DEF Init, FunnelInit
    <2>2. IsInjective(ring)
        BY <1>1, <2>1, EmptyFacts, OnceIsInjective DEF EndsTypeOK
    <2> QED BY <2>1, <2>2, EmptyFacts DEF RowForEveryEnd
<1> QED BY <1>1, <1>2, <1>3 DEF EndsInv

\* A step that leaves the ring alone and no request's row undecided.
LEMMA RowsUntouched ==
    ASSUME RowForEveryEnd, UNCHANGED ring,
           \A r \in Requests : pc'[r] \in {"record", "send", "done"}
                                 <=> pc[r] \in {"record", "send", "done"}
    PROVE  RowForEveryEnd'
BY DEF RowForEveryEnd

\* A step of one request up to its row.
LEMMA EndsStage ==
    ASSUME EndsInv, NEW r \in Requests, NEW s \in Stages, NEW o, NEW k,
           UNCHANGED <<ring, frames, paid>>,
           pc' = [pc EXCEPT ![r] = s],
           outcome' = [outcome EXCEPT ![r] = o], kind' = [kind EXCEPT ![r] = k],
           o \in {"none", "ok", "failed", "refused", "cancelled", "timeout"},
           k \in {"none", "rest", "tool"},
           s \in {"record", "send", "done"} <=> pc[r] \in {"record", "send", "done"},
           s \in Before => pc[r] \in Before,
           pc[r] \in Before \/ o = outcome[r],
           \/ pc[r] \notin {"running", "flush"}
           \/ s = "emit" /\ frames[r] = 0
           \/ s = "dropped" /\ kind[r] = "rest"
    PROVE  EndsInv'
<1>1. /\ \A q \in Requests : /\ pc'[q] = IF q = r THEN s ELSE pc[q]
                             /\ outcome'[q] = IF q = r THEN o ELSE outcome[q]
                             /\ kind'[q] = IF q = r THEN k ELSE kind[q]
      /\ EndsTypeOK'
    BY DEF EndsInv, EndsTypeOK
<1>2. PaidLast'
    BY <1>1 DEF EndsInv, EndsTypeOK, PaidLast, Before
<1>3. FramesInRace'
    BY <1>1 DEF EndsInv, FramesInRace
<1>4. RowForEveryEnd'
    BY <1>1, RowsUntouched DEF EndsInv
<1> QED BY <1>1, <1>2, <1>3, <1>4 DEF EndsInv

LEMMA EndsPoll == ASSUME EndsInv, NEW r \in Requests, Poll(r) PROVE EndsInv'
<1>1. /\ pc[r] = "running" /\ Decided(r) /\ UNCHANGED <<ring, frames, kind>>
      /\ \/ kind[r] = "tool" /\ pc' = [pc EXCEPT ![r] = "flush"]
         \/ kind[r] = "rest" /\ pc' = [pc EXCEPT ![r] = "emit"]
    BY DEF Poll, PollTool, PollRest, funnel
<1>2. PICK s \in Ready(r) : /\ outcome' = [outcome EXCEPT ![r] = Polled(s)]
                            /\ paid' = [paid EXCEPT ![r] = s \intersect Answers # {}]
    BY <1>1 DEF Decided
<1>3. /\ s \intersect Answers # {} => Polled(s) \in Answers
      /\ Polled(s) \in {"ok", "failed", "cancelled", "timeout"}
    <2>1. s \intersect Answers # {} =>
            (CHOOSE x \in s \intersect Answers : TRUE) \in s \intersect Answers
        BY Zenon
    <2> QED BY <2>1 DEF Polled, Answers
<1> DEFINE o == Polled(s)
           d == s \intersect Answers # {}
<1>4. /\ outcome' = [outcome EXCEPT ![r] = o] /\ paid' = [paid EXCEPT ![r] = d]
      /\ d \in BOOLEAN /\ (d => o \in Answers)
      /\ o \in {"ok", "failed", "cancelled", "timeout"}
    BY <1>2, <1>3
<1> HIDE DEF o, d
<1>5. /\ \A q \in Requests :
            /\ outcome'[q] = IF q = r THEN o ELSE outcome[q]
            /\ q # r => paid'[q] = paid[q] /\ pc'[q] = pc[q]
      /\ paid'[r] = d
      /\ \/ kind[r] = "tool" /\ pc'[r] = "flush"
         \/ kind[r] = "rest" /\ pc'[r] = "emit"
    BY <1>1, <1>4 DEF EndsInv, EndsTypeOK
<1>6. EndsTypeOK'
    BY <1>1, <1>4 DEF EndsInv, EndsTypeOK, Stages
<1>7. PaidLast'
    BY <1>4, <1>5 DEF EndsInv, PaidLast, Before
<1>8. FramesInRace'
    BY <1>1, <1>5 DEF EndsInv, FramesInRace
<1>9. RowForEveryEnd'
    BY <1>1, <1>5, RowsUntouched DEF EndsInv
<1> QED BY <1>6, <1>7, <1>8, <1>9 DEF EndsInv

LEMMA EndsRow == ASSUME EndsInv, NEW r \in Requests, EmitRow(r) PROVE EndsInv'
<1>1. /\ pc[r] = "emit" /\ ring' = Pushed(ring, r) /\ pc' = [pc EXCEPT ![r] = "record"]
      /\ paid' = [paid EXCEPT ![r] = FALSE]
      /\ outcome' = [outcome EXCEPT ![r] = IF Failed(r) THEN "failed" ELSE "ok"]
      /\ UNCHANGED <<frames, kind>>
    BY DEF EmitRow
<1>2. \A q \in Requests : pc'[q] = IF q = r THEN "record" ELSE pc[q]
    BY <1>1 DEF EndsInv, EndsTypeOK
<1>3. /\ ring \in Seq(Requests) /\ Len(ring) <= RingCap /\ Once(ring) /\ r \notin Range(ring)
    BY <1>1, OnceIsInjective DEF EndsInv, EndsTypeOK, RowForEveryEnd
<1>4. /\ ring' \in Seq(Requests) /\ Len(ring') <= RingCap /\ Once(ring')
      /\ r \in Range(ring') /\ Range(ring') \subseteq Range(ring) \union {r}
      /\ Range(ring) \subseteq Range(ring') \/ Len(ring') = RingCap
      /\ Len(ring) = RingCap => Len(ring') = RingCap
    BY <1>1, <1>3, PushedFacts
<1>a. \A q \in Requests : /\ paid'[q] = IF q = r THEN FALSE ELSE paid[q]
                          /\ q # r => outcome'[q] = outcome[q]
    BY <1>1 DEF EndsInv, EndsTypeOK
<1>5. EndsTypeOK'
    BY <1>1, <1>4 DEF EndsInv, EndsTypeOK, Stages
<1>6. PaidLast' /\ FramesInRace'
    BY <1>1, <1>2, <1>a DEF EndsInv, PaidLast, FramesInRace, Before
<1>7. IsInjective(ring')
    BY <1>4, OnceIsInjective
<1>8. RowForEveryEnd'
    BY <1>1, <1>2, <1>4, <1>7 DEF EndsInv, RowForEveryEnd
<1> QED BY <1>5, <1>6, <1>8 DEF EndsInv

LEMMA EndsStep == EndsInv /\ [Next]_vars => EndsInv'
<1> SUFFICES ASSUME EndsInv, [Next]_vars PROVE EndsInv'
    OBVIOUS
<1>t. EndsTypeOK
    BY DEF EndsInv
<1>1. ASSUME NEW r \in Requests, Arrive(r) \/ Prepare(r) PROVE EndsInv'
    <2>1. /\ pc[r] \in {"idle", "prepare"} /\ UNCHANGED <<ring, frames, paid>>
          /\ \E s \in {"emit", "prepare", "lookup", "running"},
                o \in {"none", "ok", "failed", "refused", "cancelled", "timeout"},
                k \in {"none", "rest", "tool"} :
                /\ pc' = [pc EXCEPT ![r] = s]
                /\ outcome' = [outcome EXCEPT ![r] = o]
                /\ kind' = [kind EXCEPT ![r] = k]
        <3>1. outcome = [outcome EXCEPT ![r] = outcome[r]] /\ kind = [kind EXCEPT ![r] = kind[r]]
              /\ outcome[r] \in {"none", "ok", "failed", "refused", "cancelled", "timeout"}
              /\ kind[r] \in {"none", "rest", "tool"}
            BY <1>t DEF EndsTypeOK
        <3>2. CASE Arrive(r)
            BY <3>1, <3>2 DEF Arrive, Unauthorized, BadBody, Refused, Health, CallsRest,
                              CallsTool, funnel
        <3>3. CASE Prepare(r)
            BY <3>1, <3>3 DEF Prepare, PrepareTool, PrepareRest, Refused, funnel
        <3> QED BY <1>1, <3>2, <3>3
    <2>2. PICK s \in {"emit", "prepare", "lookup", "running"},
               o \in {"none", "ok", "failed", "refused", "cancelled", "timeout"},
               k \in {"none", "rest", "tool"} :
                /\ pc' = [pc EXCEPT ![r] = s]
                /\ outcome' = [outcome EXCEPT ![r] = o]
                /\ kind' = [kind EXCEPT ![r] = k]
        BY <2>1
    <2>3. s \in Stages /\ pc[r] \in Before /\ pc[r] \notin {"running", "flush"}
        BY <2>1 DEF Stages, Before
    <2>4. s \notin {"record", "send", "done"} /\ pc[r] \notin {"record", "send", "done"}
        BY <2>1
    <2> QED BY <2>1, <2>2, <2>3, <2>4, EndsStage
<1>2. ASSUME NEW r \in Requests,
             Find(r) \/ Try(r) \/ Flushed(r) \/ EmitRecord(r) \/ EmitSend(r) \/ Disconnect(r)
      PROVE  EndsInv'
    <2>1. outcome = [outcome EXCEPT ![r] = outcome[r]] /\ kind = [kind EXCEPT ![r] = kind[r]]
          /\ outcome[r] \in {"none", "ok", "failed", "refused", "cancelled", "timeout"}
          /\ kind[r] \in {"none", "rest", "tool"}
        BY <1>t DEF EndsTypeOK
    <2>2. CASE Find(r)
        <3>1. /\ pc[r] = "lookup" /\ pc' = [pc EXCEPT ![r] = "try"]
              /\ UNCHANGED <<ring, frames, paid, outcome, kind>>
            BY <2>2 DEF Find, funnel
        <3> QED BY <2>1, <3>1, EndsStage DEF Stages, Before
    <2>3. CASE Try(r)
        <3>1. /\ pc[r] = "try" /\ UNCHANGED <<ring, frames, paid, kind>>
              /\ \/ pc' = [pc EXCEPT ![r] = "prepare"] /\ UNCHANGED outcome
                 \/ /\ pc' = [pc EXCEPT ![r] = "emit"]
                    /\ outcome' = [outcome EXCEPT ![r] = "refused"]
            BY <2>3 DEF Try, funnel
        <3> QED BY <2>1, <3>1, EndsStage DEF Stages, Before
    <2>4. CASE Flushed(r)
        <3>1. /\ pc[r] = "flush" /\ frames[r] = 0 /\ pc' = [pc EXCEPT ![r] = "emit"]
              /\ UNCHANGED <<ring, frames, paid, outcome, kind>>
            BY <2>4 DEF Flushed, funnel
        <3> QED BY <2>1, <3>1, EndsStage DEF Stages, Before
    <2>5. CASE EmitRecord(r)
        <3>1. /\ pc[r] = "record" /\ pc' = [pc EXCEPT ![r] = "send"]
              /\ UNCHANGED <<ring, frames, paid, outcome, kind>>
            BY <2>5 DEF EmitRecord
        <3>2. "send" \in Stages /\ "send" \notin Before /\ pc[r] \notin {"running", "flush"}
            BY <3>1 DEF Stages, Before
        <3> QED BY <2>1, <3>1, <3>2, EndsStage
    <2>6. CASE EmitSend(r)
        <3>1. /\ pc[r] = "send" /\ pc' = [pc EXCEPT ![r] = "done"]
              /\ kind' = [kind EXCEPT ![r] = "none"]
              /\ UNCHANGED <<ring, frames, paid, outcome>>
            BY <2>6 DEF EmitSend
        <3> QED BY <2>1, <3>1, EndsStage DEF Stages, Before
    <2>7. CASE Disconnect(r)
        <3>1. /\ pc[r] \in {"prepare", "running"} /\ kind[r] = "rest"
              /\ pc' = [pc EXCEPT ![r] = "dropped"]
              /\ UNCHANGED <<ring, frames, paid, outcome, kind>>
            BY <2>7 DEF Disconnect, funnel
        <3> QED BY <2>1, <3>1, EndsStage DEF Stages, Before
    <2> QED BY <1>2, <2>2, <2>3, <2>4, <2>5, <2>6, <2>7
<1>3. ASSUME NEW r \in Requests, Frame(r) \/ Deliver(r) PROVE EndsInv'
    <2>1. /\ UNCHANGED <<ring, pc, kind, paid, outcome>>
          /\ \/ /\ pc[r] = "running" /\ kind[r] = "tool"
                /\ frames' = [frames EXCEPT ![r] = @ + 1]
             \/ frames[r] > 0 /\ frames' = [frames EXCEPT ![r] = @ - 1]
        BY <1>3 DEF Frame, Deliver, funnel
    <2>2. /\ frames' \in [Requests -> Nat]
          /\ \A q \in Requests :
                frames[q] = 0 /\ (pc[q] # "running" \/ kind[q] = "rest") => frames'[q] = 0
        BY <1>t, <2>1 DEF EndsTypeOK
    <2>3. EndsTypeOK' /\ PaidLast'
        BY <1>t, <2>1, <2>2 DEF EndsInv, EndsTypeOK, PaidLast
    <2>4. FramesInRace'
        BY <2>1, <2>2 DEF EndsInv, FramesInRace
    <2> QED BY <2>1, <2>3, <2>4, RowsUntouched DEF EndsInv
<1>4. CASE Alert \/ Tick \/ WriterStep \/ Shutdown \/ UNCHANGED vars
    <2>1. UNCHANGED <<ring, pc, kind, paid, outcome, frames>>
        BY <1>4 DEF Alert, AlertCheck, Tick, Minute, WriterStep, Writer, WriterTakes,
                    WriterEnds, WriterStops, WriterDrained, WriterGone, Shutdown,
                    vars, funnel, life
    <2> QED BY <2>1, RowsUntouched DEF EndsInv, EndsTypeOK, PaidLast, FramesInRace
<1> QED BY <1>1, <1>2, <1>3, <1>4, EndsPoll, EndsRow DEF Next, Step, Emit

LEMMA EndsInvariant == Spec => []EndsInv
BY EndsInitially, EndsStep, PTL DEF Spec

\* Whatever is ready in one poll, and whatever the other requests do, a paid
\* answer is served, its frames come first, and the request leaves one row
\* that only newer rows can push out (run_tool, emit).
THEOREM EndsOnceHolds == Spec => []EndsOnce
<1>1. EndsInv => EndsOnce
    <2> SUFFICES ASSUME EndsInv PROVE EndsOnce
        OBVIOUS
    <2>1. PaidAnswerServed /\ FramesFirst
        BY DEF EndsInv, PaidLast, FramesInRace, PaidAnswerServed, FramesFirst
    <2> QED BY <2>1 DEF EndsInv, EndsOnce
<1> QED BY <1>1, EndsInvariant, PTL

-----------------------------------------------------------------------------
(* The alert.  Whatever minute the loop will ever prune from, what then     *)
(* stays of the window is what was counted from that minute on: of all such *)
(* minutes, because the clock and the loop only move forward.               *)

Bucket == [minute : Nat, total : Nat, errors : Nat]

\* The i-th bucket is not in front of all that are of minute m or later.
Stays(bs, m, i) == \E j \in 1..i : bs[j].minute >= m

Totals(bs, m) == [i \in 1..Len(bs) |-> IF Stays(bs, m, i) THEN bs[i].total ELSE 0]
Errors(bs, m) == [i \in 1..Len(bs) |-> IF Stays(bs, m, i) THEN bs[i].errors ELSE 0]

WindowTypeOK ==
    /\ minute \in Nat
    /\ window \in Seq(Bucket)
    /\ stamp \in [Requests -> Nat]
    /\ ahead \in [Requests -> Nat]
    /\ newest \in Nat

\* The bucket of the newest minute is there as long as the loop looks at it.
NewestThere ==
    /\ \A i \in 1..Len(window) : window[i].minute <= newest
    /\ newest >= minute - Window =>
         newest = 0 \/ \E i \in 1..Len(window) : window[i].minute = newest

HeldIsRecent ==
    \A m \in Int : m >= minute - Window =>
        /\ Total(Totals(window, m)) = Cardinality(Recent(m))
        /\ Total(Errors(window, m)) = Cardinality({r \in Recent(m) : Failed(r)})

WindowInv == WindowTypeOK /\ NewestThere /\ HeldIsRecent

LEMMA WeightTypes ==
    ASSUME NEW bs \in Seq(Bucket), NEW M
    PROVE  /\ Totals(bs, M) \in Seq(Nat) /\ Len(Totals(bs, M)) = Len(bs)
           /\ Errors(bs, M) \in Seq(Nat) /\ Len(Errors(bs, M)) = Len(bs)
<1>1. Len(bs) \in Nat /\ \A i \in 1..Len(bs) : bs[i].total \in Nat /\ bs[i].errors \in Nat
    <2>1. \A i \in 1..Len(bs) : bs[i] \in Bucket
        OBVIOUS
    <2>2. \A b \in Bucket : b.total \in Nat /\ b.errors \in Nat
        BY DEF Bucket
    <2> QED BY <2>1, <2>2
<1>2. /\ Totals(bs, M) \in [1..Len(bs) -> Nat]
      /\ Errors(bs, M) \in [1..Len(bs) -> Nat]
    BY <1>1 DEF Totals, Errors
<1> QED BY <1>1, <1>2 DEF Totals, Errors

\* One more request is counted once.
LEMMA CountedAdds ==
    ASSUME NEW bs \in Seq(Bucket), NEW m \in Nat, NEW f \in BOOLEAN, NEW M \in Int
    PROVE  /\ Counted(bs, m, f) \in Seq(Bucket)
           /\ \A i \in 1..Len(Counted(bs, m, f)) :
                \/ Counted(bs, m, f)[i].minute = m
                \/ i \in 1..Len(bs) /\ Counted(bs, m, f)[i].minute = bs[i].minute
           /\ Len(Counted(bs, m, f)) > 0 /\ Len(Counted(bs, m, f)) >= Len(bs)
           /\ Counted(bs, m, f)[Len(Counted(bs, m, f))].minute = m
           /\ \A i \in 1..Len(bs) : Counted(bs, m, f)[i].minute = bs[i].minute
           /\ Total(Totals(Counted(bs, m, f), M))
                = Total(Totals(bs, M))
                    + (IF Stays(Counted(bs, m, f), M, Len(Counted(bs, m, f))) THEN 1 ELSE 0)
           /\ Total(Errors(Counted(bs, m, f), M))
                = Total(Errors(bs, M))
                    + (IF Stays(Counted(bs, m, f), M, Len(Counted(bs, m, f))) /\ f THEN 1 ELSE 0)
<1> DEFINE n == Len(bs)
           e == IF f THEN 1 ELSE 0
           cs == Counted(bs, m, f)
           d == IF Stays(cs, M, Len(cs)) THEN 1 ELSE 0
           g == IF Stays(cs, M, Len(cs)) /\ f THEN 1 ELSE 0
<1>1. n \in Nat /\ e \in {0, 1} /\ d \in Nat /\ g \in Nat
    OBVIOUS
<1>2. CASE n > 0 /\ bs[n].minute = m
    <2> DEFINE b == [minute |-> m, total |-> bs[n].total + 1, errors |-> bs[n].errors + e]
    <2>1. bs[n] \in Bucket /\ n \in 1..Len(bs)
        BY <1>2
    <2>2. b \in Bucket /\ [bs[n] EXCEPT !.total = @ + 1, !.errors = @ + e] = b
        <3> HIDE DEF e
        <3>1. ASSUME NEW c \in Bucket, c.minute = m
              PROVE  LET a == [minute |-> m, total |-> c.total + 1, errors |-> c.errors + e]
                     IN a \in Bucket /\ [c EXCEPT !.total = @ + 1, !.errors = @ + e] = a
            <4>1. /\ c = [minute |-> m, total |-> c.total, errors |-> c.errors]
                  /\ c.total + 1 \in Nat /\ c.errors + e \in Nat
                BY <1>1, <3>1 DEF Bucket
            <4> DEFINE x == c.total + 1
                       y == c.errors + e
            <4> HIDE DEF x, y
            <4>2. x \in Nat /\ y \in Nat
                BY <4>1 DEF x, y
            <4>3. [minute |-> m, total |-> x, errors |-> y] \in Bucket
                BY <4>2 DEF Bucket
            <4>4. [c EXCEPT !.total = x, !.errors = y] = [minute |-> m, total |-> x, errors |-> y]
                <5> DEFINE a == [c EXCEPT !.total = x]
                <5>1. a \in Bucket /\ a.minute = m /\ a.total = x
                    BY <3>1, <4>2 DEF Bucket
                <5> HIDE DEF a
                <5>2. [a EXCEPT !.errors = y] \in Bucket /\ [a EXCEPT !.errors = y].minute = m
                      /\ [a EXCEPT !.errors = y].total = x /\ [a EXCEPT !.errors = y].errors = y
                    BY <4>2, <5>1 DEF Bucket
                <5>3. \A p \in Bucket : p = [minute |-> p.minute, total |-> p.total, errors |-> p.errors]
                    BY DEF Bucket
                <5>4. [a EXCEPT !.errors = y] = [minute |-> m, total |-> x, errors |-> y]
                    BY <5>2, <5>3
                <5> QED BY <5>4 DEF a
            <4> QED BY <4>3, <4>4 DEF x, y
        <3> QED BY <1>2, <2>1, <3>1
    <2>3. cs = [bs EXCEPT ![n].total = @ + 1, ![n].errors = @ + e]
        BY <1>2, Zenon DEF Counted
    <2>4. cs = [bs EXCEPT ![n] = b]
        BY <2>1, <2>2, <2>3
    <2> HIDE DEF b, cs
    <2>5. /\ cs \in Seq(Bucket) /\ Len(cs) = n /\ cs[n] = b
          /\ \A i \in 1..(n - 1) : cs[i] = bs[i]
        BY <2>1, <2>2, <2>4
    <2>6. /\ b.minute = m /\ b.total = bs[n].total + 1 /\ b.errors = bs[n].errors + e
          /\ bs[n].total \in Nat /\ bs[n].errors \in Nat
        BY <2>1 DEF b, Bucket
    <2>m. \A i \in 1..n : cs[i].minute = bs[i].minute
        <3> SUFFICES ASSUME NEW i \in 1..n
                     PROVE  cs[i].minute = bs[i].minute
            OBVIOUS
        <3>1. i = n \/ i \in 1..(n - 1)
            BY <1>1
        <3> QED BY <1>2, <2>5, <2>6, <3>1
    <2>s. \A i \in 1..n : Stays(cs, M, i) <=> Stays(bs, M, i)
        <3> SUFFICES ASSUME NEW i \in 1..n
                     PROVE  Stays(cs, M, i) <=> Stays(bs, M, i)
            OBVIOUS
        <3>1. \A j \in 1..i : cs[j].minute = bs[j].minute
            BY <1>1, <2>m
        <3> QED BY <3>1, Zenon DEF Stays
    <2>t. /\ n \in 1..n /\ \A i \in 1..(n - 1) : i \in 1..n
          /\ d = IF Stays(bs, M, n) THEN 1 ELSE 0
          /\ g = IF Stays(bs, M, n) THEN e ELSE 0
        BY <1>1, <1>2, <2>5, <2>s
    <2> HIDE DEF d, g, e
    <2>7. /\ Totals(cs, M)[n] = Totals(bs, M)[n] + d
          /\ \A i \in 1..(n - 1) : Totals(cs, M)[i] = Totals(bs, M)[i]
        BY <2>5, <2>6, <2>s, <2>t DEF Totals
    <2>8. /\ Errors(cs, M)[n] = Errors(bs, M)[n] + g
          /\ \A i \in 1..(n - 1) : Errors(cs, M)[i] = Errors(bs, M)[i]
        BY <2>5, <2>6, <2>s, <2>t DEF Errors
    <2>9. /\ Len(Totals(cs, M)) = n /\ Len(Totals(bs, M)) = n /\ Totals(cs, M) \in Seq(Nat)
          /\ Totals(bs, M) \in Seq(Nat)
          /\ Len(Errors(cs, M)) = n /\ Len(Errors(bs, M)) = n /\ Errors(cs, M) \in Seq(Nat)
          /\ Errors(bs, M) \in Seq(Nat)
        BY <2>5, WeightTypes
    <2>10. n # 0
        BY <1>2
    <2> HIDE DEF n
    <2> DEFINE s == Totals(bs, M)
               t == Totals(cs, M)
               u == Errors(bs, M)
               v == Errors(cs, M)
    <2>a. /\ Len(s) = n /\ Len(t) = Len(s) /\ s \in Seq(Nat) /\ t \in Seq(Nat)
          /\ t[Len(s)] = s[Len(s)] + d /\ \A i \in 1..(Len(s) - 1) : t[i] = s[i]
        BY <2>7, <2>9
    <2>b. /\ Len(u) = n /\ Len(v) = Len(u) /\ u \in Seq(Nat) /\ v \in Seq(Nat)
          /\ v[Len(u)] = u[Len(u)] + g /\ \A i \in 1..(Len(u) - 1) : v[i] = u[i]
        BY <2>8, <2>9
    <2> HIDE DEF s, t, u, v
    <2>11. Total(t) = Total(s) + d
        BY <1>1, <2>a, <2>10, TotalBumped
    <2>12. Total(v) = Total(u) + g
        BY <1>1, <2>b, <2>10, TotalBumped
    <2>13. \A i \in 1..Len(cs) :
             cs[i].minute = m \/ (i \in 1..Len(bs) /\ cs[i].minute = bs[i].minute)
        <3> SUFFICES ASSUME NEW i \in 1..n, i # n
                     PROVE  i \in 1..Len(bs) /\ cs[i].minute = bs[i].minute
            BY <2>5, <2>6
        <3>1. i \in 1..(n - 1)
            BY <1>1
        <3> QED BY <2>5, <3>1 DEF n
    <2>14. Len(cs) > 0 /\ Len(cs) >= Len(bs) /\ cs[Len(cs)].minute = m
        BY <1>1, <2>5, <2>6, <2>10 DEF n
    <2> QED BY <2>5, <2>m, <2>11, <2>12, <2>13, <2>14 DEF cs, d, g, s, t, u, v, n
<1>3. CASE ~(n > 0 /\ bs[n].minute = m)
    <2> DEFINE b == [minute |-> m, total |-> 1, errors |-> e]
    <2>1. b \in Bucket /\ b.minute = m /\ b.total = 1 /\ b.errors = e
        BY <1>1 DEF Bucket
    <2>2. cs = Append(bs, b)
        BY <1>3, Zenon DEF Counted
    <2> HIDE DEF b, cs
    <2>3. /\ cs \in Seq(Bucket) /\ Len(cs) = n + 1 /\ cs[n + 1] = b
          /\ \A i \in 1..n : cs[i] = bs[i]
        BY <2>1, <2>2
    <2>s. \A i \in 1..n : Stays(cs, M, i) <=> Stays(bs, M, i)
        <3> SUFFICES ASSUME NEW i \in 1..n
                     PROVE  Stays(cs, M, i) <=> Stays(bs, M, i)
            OBVIOUS
        <3>1. \A j \in 1..i : cs[j] = bs[j]
            BY <1>1, <2>3
        <3> QED BY <3>1, Zenon DEF Stays
    <2>t. /\ n + 1 \in 1..(n + 1) /\ \A i \in 1..n : i \in 1..(n + 1)
          /\ d = IF Stays(cs, M, n + 1) THEN 1 ELSE 0
          /\ g = IF Stays(cs, M, n + 1) THEN e ELSE 0
        BY <1>1, <2>3
    <2> HIDE DEF d, g, e
    <2>4. /\ Totals(cs, M)[n + 1] = d
          /\ \A i \in 1..n : Totals(cs, M)[i] = Totals(bs, M)[i]
        BY <2>1, <2>3, <2>s, <2>t DEF Totals
    <2>5. /\ Errors(cs, M)[n + 1] = g
          /\ \A i \in 1..n : Errors(cs, M)[i] = Errors(bs, M)[i]
        BY <2>1, <2>3, <2>s, <2>t DEF Errors
    <2>6. /\ Len(Totals(cs, M)) = n + 1 /\ Len(Totals(bs, M)) = n /\ Totals(cs, M) \in Seq(Nat)
          /\ Totals(bs, M) \in Seq(Nat)
          /\ Len(Errors(cs, M)) = n + 1 /\ Len(Errors(bs, M)) = n /\ Errors(cs, M) \in Seq(Nat)
          /\ Errors(bs, M) \in Seq(Nat)
        BY <2>3, WeightTypes
    <2> HIDE DEF n
    <2>7. Total(Totals(cs, M)) = Total(Totals(bs, M)) + d
        BY <1>1, <2>4, <2>6, TotalLonger
    <2>8. Total(Errors(cs, M)) = Total(Errors(bs, M)) + g
        BY <1>1, <2>5, <2>6, TotalLonger
    <2>9. \A i \in 1..Len(cs) :
             cs[i].minute = m \/ (i \in 1..Len(bs) /\ cs[i].minute = bs[i].minute)
        <3> SUFFICES ASSUME NEW i \in 1..(n + 1), i # n + 1
                     PROVE  i \in 1..Len(bs) /\ cs[i].minute = bs[i].minute
            BY <2>1, <2>3
        <3>1. i \in 1..n
            BY <1>1
        <3> QED BY <2>3, <3>1 DEF n
    <2>10. /\ Len(cs) > 0 /\ Len(cs) >= Len(bs) /\ cs[Len(cs)].minute = m
           /\ \A i \in 1..Len(bs) : cs[i].minute = bs[i].minute
        BY <1>1, <2>1, <2>3 DEF n
    <2> QED BY <2>3, <2>7, <2>8, <2>9, <2>10 DEF cs, d, g
<1> QED BY <1>2, <1>3

\* Pruning drops nothing that any later look is for: what it drops is in front
\* of all buckets of the minutes that are looked at.
LEMMA PrunedKeeps ==
    ASSUME NEW bs \in Seq(Bucket), NEW now \in Nat
    PROVE  /\ Pruned(bs, now) \in Seq(Bucket)
           /\ \A i \in 1..Len(Pruned(bs, now)) :
                \E j \in 1..Len(bs) : Pruned(bs, now)[i] = bs[j]
           /\ Len(Pruned(bs, now)) > 0 => Pruned(bs, now)[1].minute >= now - Window
           /\ \A j \in 1..Len(bs) : bs[j].minute >= now - Window =>
                \E i \in 1..Len(Pruned(bs, now)) : Pruned(bs, now)[i] = bs[j]
           /\ \A M \in Int : M >= now - Window =>
                /\ Total(Totals(Pruned(bs, now), M)) = Total(Totals(bs, M))
                /\ Total(Errors(Pruned(bs, now), M)) = Total(Errors(bs, M))
<1> DEFINE n == Len(bs)
           In(i) == i <= n => bs[i].minute >= now - Window
           C == {i \in 1..(n + 1) : In(i)}
           k == FirstRecent(bs, now)
<1>1. n \in Nat /\ n + 1 \in C /\ C \subseteq Nat
    OBVIOUS
<1>2. \E i \in 1..(n + 1) : /\ \A j \in 1..(i - 1) : bs[j].minute < now - Window
                            /\ In(i)
    <2>1. PICK i \in C : \A j \in C : i <= j
        BY <1>1, LeastNumber
    <2>2. ASSUME NEW j \in 1..(i - 1)
          PROVE  bs[j].minute < now - Window
        <3>1. j \in 1..n /\ ~(i <= j)
            BY <1>1, <2>1
        <3>2. j \notin C
            BY <2>1, <3>1
        <3>a. bs[j] \in Bucket
            BY <3>1
        <3>3. bs[j].minute \in Nat /\ j \in 1..(n + 1)
            BY <1>1, <3>1, <3>a DEF Bucket
        <3> QED BY <3>1, <3>2, <3>3, FunnelAssumption
    <2> QED BY <1>1, <2>1, <2>2
<1>3. /\ k \in 1..(n + 1)
      /\ \A j \in 1..(k - 1) : bs[j].minute < now - Window
      /\ In(k)
    BY <1>2, Zenon DEF FirstRecent
<1>4. Pruned(bs, now) = SubSeq(bs, k, n)
    BY Zenon DEF Pruned
<1> DEFINE ps == Pruned(bs, now)
           z == k - 1
<1>a. \A j \in 1..n : bs[j] \in Bucket
    OBVIOUS
<1> HIDE DEF k, n, ps
<1>5. /\ z \in Nat /\ ps \in Seq(Bucket) /\ n = z + Len(ps)
      /\ \A i \in 1..Len(ps) : z + i \in 1..n /\ ps[i] = bs[z + i]
    <2>1. SubSeq(bs, k, n) \in Seq(Bucket) /\ Len(SubSeq(bs, k, n)) = (n - k) + 1
        BY <1>1, <1>3 DEF n
    <2>2. \A i \in 1..((n - k) + 1) : SubSeq(bs, k, n)[i] = bs[(k + i) - 1]
        BY <1>1, <1>3 DEF n
    <2> QED BY <1>1, <1>3, <1>4, <2>1, <2>2 DEF ps
<1> HIDE DEF z
<1>6. \A j \in 1..z : bs[j].minute < now - Window /\ j \in 1..n
    BY <1>1, <1>3, <1>5 DEF z
<1>b. Len(ps) > 0 => ps[1].minute >= now - Window
    <2> SUFFICES ASSUME Len(ps) > 0
                 PROVE  ps[1].minute >= now - Window
        OBVIOUS
    <2>1. 1 \in 1..Len(ps) /\ k <= n /\ z + 1 = k
        BY <1>1, <1>3, <1>5 DEF z
    <2> QED BY <1>3, <1>5, <2>1
<1>c. ASSUME NEW j \in 1..n, bs[j].minute >= now - Window
      PROVE  \E i \in 1..Len(ps) : ps[i] = bs[j]
    <2>1. bs[j].minute \in Nat
        BY <1>a DEF Bucket
    <2>2. j \notin 1..z
        BY <1>6, <1>c, <2>1, FunnelAssumption
    <2>3. j - z \in 1..Len(ps) /\ z + (j - z) = j
        BY <1>1, <1>5, <2>2
    <2>4. ps[j - z] = bs[j]
        BY <1>5, <2>3
    <2> QED BY <2>3, <2>4
<1>7. ASSUME NEW M \in Int, M >= now - Window
      PROVE  /\ Total(Totals(ps, M)) = Total(Totals(bs, M))
             /\ Total(Errors(ps, M)) = Total(Errors(bs, M))
    <2>1. \A j \in 1..z : ~(bs[j].minute >= M)
        <3> SUFFICES ASSUME NEW j \in 1..z, bs[j].minute >= M
                     PROVE  FALSE
            OBVIOUS
        <3>1. bs[j].minute \in Nat
            BY <1>a, <1>6 DEF Bucket
        <3> QED BY <1>6, <1>7, <3>1, FunnelAssumption
    <2>a. \A j \in 1..z : ~Stays(bs, M, j)
        <3> SUFFICES ASSUME NEW j \in 1..z, NEW h \in 1..j
                     PROVE  ~(bs[h].minute >= M)
            BY DEF Stays
        <3>1. h \in 1..z
            BY <1>5
        <3> QED BY <2>1, <3>1
    <2>b. ASSUME NEW i \in 1..Len(ps)
          PROVE  Stays(ps, M, i) <=> Stays(bs, M, z + i)
        <3>1. ASSUME NEW h \in 1..i, ps[h].minute >= M
              PROVE  Stays(bs, M, z + i)
            <4>1. z + h \in 1..(z + i) /\ bs[z + h].minute >= M
                <5>1. h \in 1..Len(ps) /\ z + h \in 1..(z + i)
                    BY <1>5
                <5> QED BY <1>5, <3>1, <5>1
            <4> QED BY <4>1, Zenon DEF Stays
        <3>2. ASSUME NEW h \in 1..(z + i), bs[h].minute >= M
              PROVE  Stays(ps, M, i)
            <4>1. h \notin 1..z
                BY <2>1, <3>2
            <4>2. h - z \in 1..i /\ z + (h - z) = h /\ h - z \in 1..Len(ps)
                BY <1>5, <4>1
            <4>3. ps[h - z].minute >= M
                BY <1>5, <3>2, <4>2
            <4> QED BY <4>2, <4>3, Zenon DEF Stays
        <3> QED BY <3>1, <3>2 DEF Stays
    <2>2. /\ \A j \in 1..z : Totals(bs, M)[j] = 0 /\ Errors(bs, M)[j] = 0
          /\ \A i \in 1..Len(ps) : /\ Totals(ps, M)[i] = Totals(bs, M)[z + i]
                                   /\ Errors(ps, M)[i] = Errors(bs, M)[z + i]
        BY <1>5, <1>6, <2>a, <2>b DEF Totals, Errors, n
    <2>3. /\ Len(Totals(ps, M)) = Len(ps) /\ Len(Totals(bs, M)) = n /\ Totals(ps, M) \in Seq(Nat)
          /\ Totals(bs, M) \in Seq(Nat)
          /\ Len(Errors(ps, M)) = Len(ps) /\ Len(Errors(bs, M)) = n /\ Errors(ps, M) \in Seq(Nat)
          /\ Errors(bs, M) \in Seq(Nat)
        BY <1>5, WeightTypes DEF n
    <2>4. /\ Len(Totals(bs, M)) = z + Len(Totals(ps, M))
          /\ Len(Errors(bs, M)) = z + Len(Errors(ps, M))
        BY <1>5, <2>3
    <2>5. Total(Totals(ps, M)) = Total(Totals(bs, M))
        BY <1>5, <2>2, <2>3, <2>4, TotalOfRest
    <2>6. Total(Errors(ps, M)) = Total(Errors(bs, M))
        BY <1>5, <2>2, <2>3, <2>4, TotalOfRest
    <2> QED BY <2>5, <2>6
<1>8. \A i \in 1..Len(ps) : \E j \in 1..n : ps[i] = bs[j]
    BY <1>5
<1> QED BY <1>5, <1>b, <1>c, <1>7, <1>8 DEF ps, n

LEMMA WindowInitially == Init => WindowInv
<1> SUFFICES ASSUME Init PROVE WindowInv
    OBVIOUS
<1>1. /\ window = <<>> /\ minute = 0 /\ stamp = [r \in Requests |-> 0]
      /\ newest = 0 /\ ahead = [r \in Requests |-> 0]
      /\ pc = [r \in Requests |-> "idle"]
    BY DEF Init, FunnelInit
<1>2. WindowTypeOK
    BY <1>1 DEF WindowTypeOK
<1>3. NewestThere
    BY <1>1 DEF NewestThere
<1>4. ASSUME NEW m \in Int
      PROVE  /\ Total(Totals(window, m)) = Cardinality(Recent(m))
             /\ Total(Errors(window, m)) = Cardinality({r \in Recent(m) : Failed(r)})
    <2>1. Recent(m) = {} /\ {r \in Recent(m) : Failed(r)} = {}
        BY <1>1 DEF Recent
    <2>2. Totals(window, m) = <<>> /\ Errors(window, m) = <<>>
        BY <1>1 DEF Totals, Errors
    <2> QED BY <2>1, <2>2, TotalEmpty, FS_EmptySet
<1> QED BY <1>2, <1>3, <1>4 DEF WindowInv, HeldIsRecent

\* A step that neither counts a request nor looks further back.
LEMMA WindowKeeps ==
    ASSUME WindowInv, WindowTypeOK', NewestThere',
           \A m \in Int : m >= minute' - Window =>
             /\ m >= minute - Window
             /\ Total(Totals(window', m)) = Total(Totals(window, m))
             /\ Total(Errors(window', m)) = Total(Errors(window, m))
             /\ Recent(m)' = Recent(m)
             /\ {r \in Recent(m)' : Failed(r)'} = {r \in Recent(m) : Failed(r)}
    PROVE  WindowInv'
<1>1. ASSUME NEW m \in Int, m >= minute' - Window
      PROVE  /\ Total(Totals(window', m)) = Cardinality(Recent(m)')
             /\ Total(Errors(window', m)) = Cardinality({r \in Recent(m)' : Failed(r)'})
    BY <1>1, Zenon DEF WindowInv, HeldIsRecent
<1>2. HeldIsRecent'
    BY <1>1 DEF HeldIsRecent, Recent, Failed, Totals, Errors, Stays
<1> QED BY <1>2 DEF WindowInv

\* A request whose stage or outcome changes, but nothing of what is counted.
LEMMA WindowStage ==
    ASSUME WindowInv, stamp' \in [Requests -> Nat],
           UNCHANGED <<window, minute, newest, ahead>>, NEW r \in Requests,
           \A q \in Requests :
              /\ q # r => pc'[q] = pc[q] /\ outcome'[q] = outcome[q] /\ stamp'[q] = stamp[q]
              /\ pc'[q] \in {"send", "done"} <=> pc[q] \in {"send", "done"},
           pc[r] \in {"send", "done"} => outcome'[r] = outcome[r] /\ stamp'[r] = stamp[r]
    PROVE  WindowInv'
<1>1. ASSUME NEW m \in Int
      PROVE  /\ Recent(m)' = Recent(m)
             /\ {q \in Recent(m)' : Failed(q)'} = {q \in Recent(m) : Failed(q)}
    BY DEF Recent, Failed
<1>2. WindowTypeOK' /\ NewestThere'
    BY DEF WindowInv, WindowTypeOK, NewestThere
<1> QED BY <1>1, <1>2, WindowKeeps

LEMMA WindowRecord ==
    ASSUME WindowInv, EndsInv, NEW r \in Requests, EmitRecord(r)
    PROVE  WindowInv'
<1> DEFINE s == stamp[r]
           f == Failed(r)
           cs == Counted(window, s, f)
<1>1. /\ pc[r] = "record" /\ window' = cs
      /\ newest' = IF s > newest THEN s ELSE newest
      /\ ahead' = [ahead EXCEPT ![r] = newest]
      /\ pc' = [pc EXCEPT ![r] = "send"] /\ UNCHANGED <<minute, stamp, outcome>>
    BY DEF EmitRecord
<1>2. /\ window \in Seq(Bucket) /\ s \in Nat /\ f \in BOOLEAN /\ minute \in Nat
      /\ newest \in Nat /\ ahead \in [Requests -> Nat]
    BY DEF WindowInv, WindowTypeOK, Failed
<1>3. \A q \in Requests : /\ pc'[q] = IF q = r THEN "send" ELSE pc[q]
                          /\ ahead'[q] = IF q = r THEN newest ELSE ahead[q]
    BY <1>1, <1>2 DEF EndsInv, EndsTypeOK
<1>4. /\ cs \in Seq(Bucket)
      /\ \A i \in 1..Len(cs) :
           cs[i].minute = s \/ (i \in 1..Len(window) /\ cs[i].minute = window[i].minute)
      /\ Len(cs) > 0 /\ Len(cs) >= Len(window) /\ cs[Len(cs)].minute = s
      /\ \A i \in 1..Len(window) : cs[i].minute = window[i].minute
    <2>1. minute \in Int
        BY <1>2
    <2> HIDE DEF s, f
    \* CountedAdds of the clock's minute, one conjunct at a time.
    <2> DEFINE More == Total(Totals(cs, minute))
                         = Total(Totals(window, minute))
                             + (IF Stays(cs, minute, Len(cs)) THEN 1 ELSE 0)
    <2>2. /\ cs \in Seq(Bucket)
          /\ More
        BY <1>2, <2>1, CountedAdds
    <2>3. /\ \A i \in 1..Len(cs) :
               cs[i].minute = s \/ (i \in 1..Len(window) /\ cs[i].minute = window[i].minute)
          /\ More
        BY <1>2, <2>1, CountedAdds
    <2>4. /\ Len(cs) > 0 /\ Len(cs) >= Len(window)
          /\ More
        BY <1>2, <2>1, CountedAdds
    <2>5. /\ cs[Len(cs)].minute = s
          /\ More
        BY <1>2, <2>1, CountedAdds
    <2>6. /\ \A i \in 1..Len(window) : cs[i].minute = window[i].minute
          /\ More
        BY <1>2, <2>1, CountedAdds
    <2> HIDE DEF cs, More
    <2> QED BY <2>2, <2>3, <2>4, <2>5, <2>6
<1> HIDE DEF cs
<1>5. /\ \A i \in 1..Len(window) : i \in 1..Len(cs) /\ window[i].minute \in Nat
                                  /\ window[i].minute <= newest
      /\ Len(cs) \in 1..Len(cs)
    <2>1. \A i \in 1..Len(window) : window[i] \in Bucket
        BY <1>2
    <2>2. \A b \in Bucket : b.minute \in Nat
        BY DEF Bucket
    <2>3. \A i \in 1..Len(window) : window[i].minute <= newest
        BY DEF WindowInv, NewestThere
    <2>4. Len(cs) \in Nat /\ Len(window) \in Nat
        BY <1>2, <1>4
    <2>5. 1..Len(window) \subseteq 1..Len(cs) /\ Len(cs) \in 1..Len(cs)
        BY <1>4, <2>4
    <2> QED BY <2>1, <2>2, <2>3, <2>5
<1>6. WindowTypeOK'
    <2>1. newest' \in Nat /\ ahead' \in [Requests -> Nat]
        BY <1>1, <1>2
    <2> QED BY <1>1, <1>4, <2>1 DEF WindowInv, WindowTypeOK
<1>7. NewestThere'
    <2>1. \A i \in 1..Len(cs) : cs[i].minute <= newest'
        BY <1>1, <1>2, <1>4, <1>5
    <2>2. CASE s > newest
        BY <1>1, <1>2, <1>4, <1>5, <2>1, <2>2 DEF NewestThere
    <2>3. CASE ~(s > newest)
        <3>1. newest' = newest /\ minute' = minute
            BY <1>1, <2>3
        <3>2. ASSUME newest >= minute - Window, newest # 0
              PROVE  \E i \in 1..Len(cs) : cs[i].minute = newest
            <4>1. PICK i \in 1..Len(window) : window[i].minute = newest
                BY <3>2 DEF WindowInv, NewestThere
            <4> QED BY <1>4, <1>5, <4>1
        <3> QED BY <1>1, <2>1, <3>1, <3>2 DEF NewestThere
    <2> QED BY <2>2, <2>3
\* What was recorded stays from m on exactly if it counts from m on.
<1>8. ASSUME NEW m \in Int, m >= minute - Window
      PROVE  Stays(cs, m, Len(cs)) <=> s >= m \/ newest >= m
    <2>1. ASSUME NEW i \in 1..Len(cs), cs[i].minute >= m
          PROVE  s >= m \/ newest >= m
        <3>1. CASE cs[i].minute = s
            BY <2>1, <3>1
        <3>2. CASE i \in 1..Len(window) /\ cs[i].minute = window[i].minute
            BY <1>2, <1>5, <2>1, <3>2
        <3> QED BY <1>4, <3>1, <3>2
    <2>2. CASE s >= m
        BY <1>4, <1>5, <2>2 DEF Stays
    <2>3. ASSUME newest >= m, ~(s >= m)
          PROVE  Stays(cs, m, Len(cs))
        <3>1. newest >= minute - Window /\ newest # 0
            BY <1>2, <1>8, <2>3, FunnelAssumption
        <3>2. PICK i \in 1..Len(window) : window[i].minute = newest
            BY <3>1 DEF WindowInv, NewestThere
        <3>3. i \in 1..Len(cs) /\ cs[i].minute >= m
            BY <1>4, <1>5, <2>3, <3>2
        <3> QED BY <3>3 DEF Stays
    <2> QED BY <2>1, <2>2, <2>3 DEF Stays
<1>9. ASSUME NEW m \in Int, m >= minute - Window
      PROVE  /\ Total(Totals(window', m)) = Cardinality(Recent(m)')
             /\ Total(Errors(window', m)) = Cardinality({q \in Recent(m)' : Failed(q)'})
    <2> DEFINE y == s >= m \/ newest >= m
               R == Recent(m)
               F == {q \in Recent(m) : Failed(q)}
               R1 == Recent(m)'
               F1 == {q \in Recent(m)' : Failed(q)'}
    <2>1. /\ Total(Totals(window', m)) = Total(Totals(window, m)) + (IF y THEN 1 ELSE 0)
          /\ Total(Errors(window', m)) = Total(Errors(window, m)) + (IF y /\ f THEN 1 ELSE 0)
        <3>1. /\ Total(Totals(cs, m)) = Total(Totals(window, m))
                     + (IF Stays(cs, m, Len(cs)) THEN 1 ELSE 0)
              /\ Total(Errors(cs, m)) = Total(Errors(window, m))
                     + (IF Stays(cs, m, Len(cs)) /\ f THEN 1 ELSE 0)
            <4> HIDE DEF s, f
            <4> QED BY <1>2, CountedAdds DEF cs
        <3>2. Stays(cs, m, Len(cs)) <=> y
            BY <1>8, <1>9
        <3> HIDE DEF y, f, s
        <3> QED BY <1>1, <3>1, <3>2
    <2>2. /\ Total(Totals(window, m)) = Cardinality(R)
          /\ Total(Errors(window, m)) = Cardinality(F)
        BY <1>9 DEF WindowInv, HeldIsRecent
    <2>3. /\ r \notin R /\ r \notin F
          /\ R1 = IF y THEN R \union {r} ELSE R
          /\ F1 = IF y /\ f THEN F \union {r} ELSE F
        BY <1>1, <1>3 DEF Recent, Failed
    <2>4. /\ IsFiniteSet(R) /\ IsFiniteSet(F)
          /\ Cardinality(R) \in Nat /\ Cardinality(F) \in Nat
        <3>1. R \subseteq Requests /\ F \subseteq Requests
            BY DEF Recent
        <3> QED BY <3>1, AdmissionAssumption, FS_Subset, FS_CardinalityType
    <2> HIDE DEF y, R, F, R1, F1, s, f
    <2>5. /\ Cardinality(R \union {r}) = Cardinality(R) + 1
          /\ Cardinality(F \union {r}) = Cardinality(F) + 1
        BY <2>3, <2>4, FS_AddElement
    <2>6. Total(Totals(window', m)) = Cardinality(R1)
        BY <2>1, <2>2, <2>3, <2>4, <2>5
    <2>7. Total(Errors(window', m)) = Cardinality(F1)
        BY <2>1, <2>2, <2>3, <2>4, <2>5
    <2> QED BY <2>6, <2>7 DEF R1, F1
<1>10. HeldIsRecent'
    BY <1>1, <1>9 DEF HeldIsRecent, Recent, Failed, Totals, Errors, Stays
<1> QED BY <1>6, <1>7, <1>10 DEF WindowInv

LEMMA WindowAlert == ASSUME WindowInv, Alert PROVE WindowInv'
<1>1. /\ window' = Pruned(window, minute)
      /\ UNCHANGED <<minute, pc, stamp, outcome, newest, ahead>>
    BY DEF Alert, AlertCheck, life, past
<1>2. window \in Seq(Bucket) /\ minute \in Nat /\ newest \in Nat
    BY DEF WindowInv, WindowTypeOK
<1>3. /\ window' \in Seq(Bucket)
      /\ \A i \in 1..Len(window') : \E j \in 1..Len(window) : window'[i] = window[j]
      /\ \A j \in 1..Len(window) : window[j].minute >= minute - Window =>
           \E i \in 1..Len(window') : window'[i] = window[j]
    BY <1>1, <1>2, PrunedKeeps
<1>4. WindowTypeOK'
    BY <1>1, <1>3 DEF WindowInv, WindowTypeOK
<1>5. NewestThere'
    <2>1. \A i \in 1..Len(window') : window'[i].minute <= newest
        BY <1>3 DEF WindowInv, NewestThere
    <2>2. ASSUME newest >= minute - Window, newest # 0
          PROVE  \E i \in 1..Len(window') : window'[i].minute = newest
        <3>1. PICK j \in 1..Len(window) : window[j].minute = newest
            BY <2>2 DEF WindowInv, NewestThere
        <3>2. PICK i \in 1..Len(window') : window'[i] = window[j]
            BY <1>3, <2>2, <3>1
        <3> QED BY <3>1, <3>2
    <2> QED BY <1>1, <2>1, <2>2 DEF NewestThere
<1>6. ASSUME NEW m \in Int, m >= minute - Window
      PROVE  /\ Total(Totals(window', m)) = Total(Totals(window, m))
             /\ Total(Errors(window', m)) = Total(Errors(window, m))
    BY <1>1, <1>2, <1>6, PrunedKeeps
<1>7. ASSUME NEW m \in Int
      PROVE  /\ Recent(m)' = Recent(m)
             /\ {q \in Recent(m)' : Failed(q)'} = {q \in Recent(m) : Failed(q)}
    BY <1>1 DEF Recent, Failed
<1> QED BY <1>1, <1>4, <1>5, <1>6, <1>7, WindowKeeps

LEMMA WindowTick == ASSUME WindowInv, Tick PROVE WindowInv'
<1>1. minute' = minute + 1 /\ UNCHANGED <<window, pc, stamp, outcome, newest, ahead>>
    BY DEF Tick, Minute
<1>2. minute \in Nat /\ newest \in Nat
    BY DEF WindowInv, WindowTypeOK
<1>3. WindowTypeOK'
    BY <1>1, <1>2 DEF WindowInv, WindowTypeOK
<1>4. \A m \in Int : m >= minute' - Window => m >= minute - Window
    BY <1>1, <1>2, FunnelAssumption
<1>5. NewestThere'
    BY <1>1, <1>2, <1>4 DEF WindowInv, NewestThere
<1>6. ASSUME NEW m \in Int
      PROVE  /\ Recent(m)' = Recent(m)
             /\ {q \in Recent(m)' : Failed(q)'} = {q \in Recent(m) : Failed(q)}
    BY <1>1 DEF Recent, Failed
<1> QED BY <1>1, <1>3, <1>4, <1>5, <1>6, WindowKeeps

LEMMA WindowStep == EndsInv /\ WindowInv /\ [Next]_vars => WindowInv'
<1> SUFFICES ASSUME EndsInv, WindowInv, [Next]_vars PROVE WindowInv'
    OBVIOUS
<1>t. EndsTypeOK /\ WindowTypeOK
    BY DEF EndsInv, WindowInv
<1> DEFINE Idly(r) ==
             /\ UNCHANGED <<window, minute, stamp, newest, ahead>>
             /\ \E s : pc' = [pc EXCEPT ![r] = s]
             /\ \E o : outcome' = [outcome EXCEPT ![r] = o]
             /\ pc[r] \notin {"send", "done"} /\ pc'[r] \notin {"send", "done"}
<1>1. ASSUME NEW r \in Requests, Idly(r)
      PROVE  WindowInv'
    <2>1. \A q \in Requests : q # r => pc'[q] = pc[q] /\ outcome'[q] = outcome[q]
        BY <1>t, <1>1 DEF EndsTypeOK
    <2>2. stamp' \in [Requests -> Nat]
        BY <1>t, <1>1 DEF WindowTypeOK
    <2> QED BY <1>t, <1>1, <2>1, <2>2, WindowStage
<1>2. ASSUME NEW r \in Requests,
             Arrive(r) \/ Find(r) \/ Try(r) \/ Prepare(r) \/ Poll(r) \/ Flushed(r) \/ Disconnect(r)
      PROVE  WindowInv'
    <2> DEFINE Same(o) == outcome' = [outcome EXCEPT ![r] = o]
    <2>1. outcome = [outcome EXCEPT ![r] = outcome[r]]
        BY <1>t DEF EndsTypeOK
    <2>2. \A s : pc' = [pc EXCEPT ![r] = s] => pc'[r] = s
        BY <1>t DEF EndsTypeOK
    <2>3. CASE Arrive(r)
        <3>1. /\ pc[r] = "idle" /\ UNCHANGED <<window, minute, stamp, newest, ahead>>
              /\ \E s \in {"emit", "prepare", "lookup"} : pc' = [pc EXCEPT ![r] = s]
              /\ UNCHANGED outcome \/ \E o : Same(o)
            BY <2>3 DEF Arrive, Unauthorized, BadBody, Refused, Health, CallsRest, CallsTool,
                        funnel, past
        <3> QED BY <1>1, <2>1, <2>2, <3>1
    <2>4. CASE Find(r)
        <3>1. /\ pc[r] = "lookup" /\ UNCHANGED <<window, minute, stamp, newest, ahead, outcome>>
              /\ pc' = [pc EXCEPT ![r] = "try"]
            BY <2>4 DEF Find, funnel, past
        <3> QED BY <1>1, <2>1, <2>2, <3>1
    <2>5. CASE Try(r)
        <3>1. /\ pc[r] = "try" /\ UNCHANGED <<window, minute, stamp, newest, ahead>>
              /\ \E s \in {"emit", "prepare"} : pc' = [pc EXCEPT ![r] = s]
              /\ UNCHANGED outcome \/ \E o : Same(o)
            BY <2>5 DEF Try, funnel, past
        <3> QED BY <1>1, <2>1, <2>2, <3>1
    <2>6. CASE Prepare(r)
        <3>1. /\ pc[r] = "prepare" /\ UNCHANGED <<window, minute, stamp, newest, ahead>>
              /\ \E s \in {"emit", "running"} : pc' = [pc EXCEPT ![r] = s]
              /\ UNCHANGED outcome \/ \E o : Same(o)
            BY <2>6 DEF Prepare, PrepareTool, PrepareRest, Refused, funnel, past
        <3> QED BY <1>1, <2>1, <2>2, <3>1
    <2>7. CASE Poll(r)
        <3>1. /\ pc[r] = "running" /\ UNCHANGED <<window, minute, stamp, newest, ahead>>
              /\ \E s \in {"emit", "flush"} : pc' = [pc EXCEPT ![r] = s]
              /\ \E o : Same(o)
            BY <2>7, Zenon DEF Poll, PollTool, PollRest, Decided, funnel, past
        <3> QED BY <1>1, <2>2, <3>1
    <2>8. CASE Flushed(r)
        <3>1. /\ pc[r] = "flush" /\ UNCHANGED <<window, minute, stamp, newest, ahead, outcome>>
              /\ pc' = [pc EXCEPT ![r] = "emit"]
            BY <2>8 DEF Flushed, funnel, past
        <3> QED BY <1>1, <2>1, <2>2, <3>1
    <2>9. CASE Disconnect(r)
        <3>1. /\ pc[r] \in {"prepare", "running"} /\ UNCHANGED <<window, minute, stamp, newest, ahead, outcome>>
              /\ pc' = [pc EXCEPT ![r] = "dropped"]
            BY <2>9 DEF Disconnect, funnel, past
        <3> QED BY <1>1, <2>1, <2>2, <3>1
    <2> QED BY <1>2, <2>3, <2>4, <2>5, <2>6, <2>7, <2>8, <2>9
<1>3. ASSUME NEW r \in Requests, EmitRow(r)
      PROVE  WindowInv'
    <2>1. /\ pc[r] = "emit" /\ UNCHANGED <<window, minute, newest, ahead>>
          /\ pc' = [pc EXCEPT ![r] = "record"] /\ stamp' = [stamp EXCEPT ![r] = minute]
          /\ \E o : outcome' = [outcome EXCEPT ![r] = o]
        BY <1>3, Zenon DEF EmitRow, past
    <2>2. \A q \in Requests : /\ pc'[q] = IF q = r THEN "record" ELSE pc[q]
                              /\ q # r => stamp'[q] = stamp[q] /\ outcome'[q] = outcome[q]
        BY <1>t, <2>1 DEF EndsTypeOK, WindowTypeOK
    <2>3. stamp' \in [Requests -> Nat]
        BY <1>t, <2>1 DEF WindowTypeOK
    <2> QED BY <1>t, <2>1, <2>2, <2>3, WindowStage
<1>4. ASSUME NEW r \in Requests, EmitSend(r)
      PROVE  WindowInv'
    <2>1. /\ pc[r] = "send" /\ UNCHANGED <<window, minute, outcome, stamp, newest, ahead>>
          /\ pc' = [pc EXCEPT ![r] = "done"]
        BY <1>4 DEF EmitSend, past
    <2>2. \A q \in Requests : pc'[q] = IF q = r THEN "done" ELSE pc[q]
        BY <1>t, <2>1 DEF EndsTypeOK
    <2>3. stamp' \in [Requests -> Nat]
        BY <1>t, <2>1 DEF WindowTypeOK
    <2> QED BY <1>t, <2>1, <2>2, <2>3, WindowStage
<1>5. ASSUME \/ \E r \in Requests : Frame(r) \/ Deliver(r)
             \/ WriterStep \/ Shutdown \/ UNCHANGED vars
      PROVE  WindowInv'
    <2>1. UNCHANGED <<window, minute, pc, outcome, stamp, newest, ahead>>
        BY <1>5 DEF Frame, Deliver, WriterStep, Writer, WriterTakes, WriterEnds, WriterStops,
                    WriterDrained, WriterGone, Shutdown, vars, funnel, life, past
    <2> QED BY <2>1 DEF WindowInv, WindowTypeOK, NewestThere, HeldIsRecent, Recent, Failed,
                        Totals, Errors, Stays
<1> QED BY <1>2, <1>3, <1>4, <1>5, WindowRecord, WindowAlert, WindowTick DEF Next, Step, Emit

\* The alert loop counts every request and every error of the minutes it looks
\* at once, and of older ones exactly those that were counted behind such a
\* minute; it raises the alarm exactly when more than half of enough of them
\* failed, for any number of requests, any window and any order of recording
\* (ErrorWindow::record_at, counts_at, check_error_rate).
THEOREM AlertsSeeRecent == Spec => []AlertSeesRecent
<1>1. WindowInv => AlertSeesRecent
    <2> SUFFICES ASSUME WindowInv PROVE AlertSeesRecent
        OBVIOUS
    <2> DEFINE m == minute - Window
               ps == Pruned(window, minute)
               R == Recent(minute - Window)
               F == {r \in Recent(minute - Window) : Failed(r)}
    <2>1. window \in Seq(Bucket) /\ minute \in Nat /\ m \in Int /\ m >= minute - Window
        BY FunnelAssumption DEF WindowInv, WindowTypeOK
    <2>2. /\ ps \in Seq(Bucket)
          /\ Len(ps) > 0 => ps[1].minute >= m
          /\ Total(Totals(ps, m)) = Cardinality(R)
          /\ Total(Errors(ps, m)) = Cardinality(F)
        <3>1. /\ Total(Totals(window, m)) = Cardinality(R)
              /\ Total(Errors(window, m)) = Cardinality(F)
            BY <2>1 DEF WindowInv, HeldIsRecent
        <3>2. /\ ps \in Seq(Bucket)
              /\ Len(ps) > 0 => ps[1].minute >= minute - Window
              /\ Total(Totals(ps, m)) = Total(Totals(window, m))
              /\ Total(Errors(ps, m)) = Total(Errors(window, m))
            <4> HIDE DEF m
            <4> QED BY <2>1, PrunedKeeps
        <3> HIDE DEF R, F
        <3> QED BY <3>1, <3>2
    <2> HIDE DEF ps
    <2>3. \A i \in 1..Len(ps) : Stays(ps, m, i)
        <3> SUFFICES ASSUME NEW i \in 1..Len(ps)
                     PROVE  Stays(ps, m, i)
            OBVIOUS
        <3>1. 1 \in 1..i /\ Len(ps) > 0
            BY <2>2
        <3> HIDE DEF m
        <3> QED BY <2>2, <3>1 DEF Stays
    <2> HIDE DEF m
    <2>4. CountsOf(ps) = [total |-> Cardinality(R), errors |-> Cardinality(F)]
        <3>1. DOMAIN ps = 1..Len(ps)
            BY <2>2
        <3>2. /\ [i \in DOMAIN ps |-> ps[i].total] = Totals(ps, m)
              /\ [i \in DOMAIN ps |-> ps[i].errors] = Errors(ps, m)
            BY <2>3, <3>1 DEF Totals, Errors
        <3> QED BY <2>2, <3>2, Zenon DEF CountsOf
    <2>5. /\ F \subseteq R /\ IsFiniteSet(R)
          /\ Cardinality(R) \in Nat /\ Cardinality(F) \in Nat
        <3>1. R \subseteq Requests /\ F \subseteq Requests /\ F \subseteq R
            BY DEF Recent
        <3> QED BY <3>1, AdmissionAssumption, FS_Subset, FS_CardinalityType
    <2> HIDE DEF R, F
    <2>6. Cardinality(R \ F) = Cardinality(R) - Cardinality(F)
        <3>1. R \intersect F = F
            BY <2>5
        <3> QED BY <2>5, <3>1, FS_Difference, FS_Subset
    <2>7. Alarm(window, minute) <=> High(Cardinality(R), Cardinality(F))
        BY <2>4 DEF Alarm, ps
    <2>8. High(Cardinality(R), Cardinality(F)) <=>
            Cardinality(R) >= MinTotal /\ Cardinality(F) > Cardinality(R \ F)
        BY <2>5, <2>6, FunnelAssumption DEF High
    <2>9. CountsOf(Pruned(window, minute)) = [total |-> Cardinality(R), errors |-> Cardinality(F)]
        BY <2>4 DEF ps
    <2> QED BY <2>7, <2>8, <2>9, Zenon DEF AlertSeesRecent, R, F
<1>2. Spec => []WindowInv
    BY WindowInitially, EndsInvariant, WindowStep, PTL DEF Spec
<1> QED BY <1>1, <1>2, PTL
=============================================================================
