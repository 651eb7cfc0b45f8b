---------------------------- MODULE McpAdmission ----------------------------
(***************************************************************************)
(* The per-token in-flight cap of the MCP tools (mcp/admission.rs): a map  *)
(* from token to a semaphore that is shared by reference count.  Buckets   *)
(* that only the map refers to are dropped at every call, under the map's  *)
(* lock; the permit is tried after the lock is released.                   *)
(***************************************************************************)
EXTENDS RequestEvents

CONSTANTS
    Tokens,       \* the rows of the tokens table the calls come with
    Buckets,      \* bound: semaphores that exist at once
    NoBucket,
    NoToken,
    MaxInflight   \* MCP_MAX_INFLIGHT_PER_TOKEN, max_inflight.max(1)

ASSUME AdmissionAssumption ==
    /\ MaxInflight \in Nat \ {0}
    /\ NoBucket \notin Buckets
    /\ NoToken \notin Tokens
    /\ IsFiniteSet(Requests)

VARIABLES
    bucketOf,  \* the map: the bucket of each token, or NoBucket
    clone,     \* the bucket a call has cloned and not yet tried
    permit,    \* the bucket of which a call holds a permit
    token      \* the token a call came with

admission == <<bucketOf, clone, permit, token>>

AdmissionInit ==
    /\ bucketOf = [t \in Tokens |-> NoBucket]
    /\ clone = [r \in Requests |-> NoBucket]
    /\ permit = [r \in Requests |-> NoBucket]
    /\ token = [r \in Requests |-> NoToken]

Permits(b) == {r \in Requests : permit[r] = b}

\* What a bug would look like: a bucket counts as idle while no permit of it
\* is out, whoever has just cloned it.
ReferencedByPermit(b) == Permits(b) # {}

\* Arc::strong_count(b) > 1: somebody but the map refers to b.
Referenced(b) == \E r \in Requests : b \in {clone[r], permit[r]}

\* A semaphore that nobody refers to stands for a newly made one.
Unused(b) == \A r \in Requests : b \notin {clone[r], permit[r]}

Live(t) == bucketOf[t] # NoBucket /\ Referenced(bucketOf[t])

\* Under the lock: drop the idle buckets, then clone the token's bucket or
\* insert a new one.
LookUp(r) ==
    \E t \in Tokens, b \in Buckets :
        /\ IF Live(t) THEN b = bucketOf[t]
           ELSE Unused(b) /\ b = CHOOSE x \in Buckets : Unused(x)
        /\ bucketOf' = [u \in Tokens |-> IF u = t THEN b
                                         ELSE IF Live(u) THEN bucketOf[u]
                                         ELSE NoBucket]
        /\ clone' = [clone EXCEPT ![r] = b]
        /\ token' = [token EXCEPT ![r] = t]
        /\ UNCHANGED permit

HasRoom(b) == Cardinality(Permits(b)) < MaxInflight

\* try_acquire_owned succeeds: the clone becomes the permit.
Admit(r) ==
    /\ HasRoom(clone[r])
    /\ permit' = [permit EXCEPT ![r] = clone[r]]
    /\ clone' = [clone EXCEPT ![r] = NoBucket]
    /\ UNCHANGED <<bucketOf, token>>

Refuse(r) ==
    /\ ~HasRoom(clone[r])
    /\ clone' = [clone EXCEPT ![r] = NoBucket]
    /\ UNCHANGED <<bucketOf, permit, token>>

\* The handler returns, or its future is dropped.
Return(r) ==
    /\ permit' = [permit EXCEPT ![r] = NoBucket]
    /\ token' = [token EXCEPT ![r] = NoToken]
    /\ UNCHANGED <<bucketOf, clone>>

Running(t) == {r \in Requests : token[r] = t /\ permit[r] # NoBucket}

\* No token ever has more tool calls running than its cap, whatever buckets
\* were dropped and recreated while its calls were looking theirs up.
TokenCap == \A t \in Tokens : Cardinality(Running(t)) <= MaxInflight

\* A token's calls all hold the bucket the map has for it: two buckets for
\* one token would each admit a full cap.
OneBucket ==
    \A r \in Requests : \A b \in {clone[r], permit[r]} :
        b # NoBucket => bucketOf[token[r]] = b
=============================================================================
