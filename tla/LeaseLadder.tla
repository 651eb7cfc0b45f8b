----------------------------- MODULE LeaseLadder -----------------------------
(***************************************************************************)
(* with_key_proxy: one attempt of a leg.  It leases a key, then a node     *)
(* unless the vendor is dialled directly, builds a client, makes one call  *)
(* and ends both leases as the outcome says.  It may be cancelled at any   *)
(* await (the request's deadline, a client that went away), any statement  *)
(* may fail, and then the hold guards release in the background.           *)
(*                                                                         *)
(* The node side is NodePool whole.  Of the key side only what an attempt  *)
(* sees is kept: which leases are in the table, and whether a verdict took *)
(* the key out of rotation or zeroed it.  KeyLeases has the rest.          *)
(***************************************************************************)
EXTENDS NodePool

CONSTANTS
  Legs,          \* the legs, each making one attempt after another
  MaxKeyToken,   \* bound: how many key leases a behaviour creates
  RequireProxy   \* REQUIRE_OUTBOUND_PROXY

ASSUME LadderAssumption ==
  /\ MaxKeyToken \in Nat
  /\ RequireProxy \in BOOLEAN
  /\ IsFiniteSet(Legs)

VARIABLES
  keyLeases,   \* the tokens in api_key_leases
  nextKey,     \* the next key token
  leg,         \* where each leg is and which holds it has armed
  drops,       \* releases that dropped guards have spawned and not yet run
  orphans,     \* history: leases that nobody but their expiry will end
  owed         \* history: transitions reported by a verdict, not yet in a meta

ladderVars == <<keyLeases, nextKey, leg, drops, orphans, owed>>
vars       == <<poolVars, ladderVars>>

KeyTokens == 1..MaxKeyToken
Holds     == ({"key"} \X KeyTokens) \cup ({"node"} \X Tokens)

\* The report modes, with the tunnel errors apart from the other retryable ones.
CallEnds == {"ok", "failure", "exhausted", "payment_required", "auth_failure",
             "banned", "retryable", "tunnel"}

\* The modes whose key report may be a transition.
Blames == {"exhausted", "payment_required", "auth_failure", "banned"}

Stages == {"idle", "keyless", "nodeless", "bail", "build", "calling",
           "endKey", "endNode", "note"}

\* key and node are the armed holds; flip is the key lease whose report was a
\* transition; each is 0 when there is none.
Leg == [pc : Stages, direct : BOOLEAN, end : CallEnds \cup {"none", "unbuilt"},
        key : KeyTokens \cup {0}, node : Tokens \cup {0},
        flip : KeyTokens \cup {0}]

IdleLeg == [pc |-> "idle", direct |-> FALSE, end |-> "none",
            key |-> 0, node |-> 0, flip |-> 0]

Types ==
  /\ PoolTypeOK
  /\ keyLeases \subseteq KeyTokens
  /\ nextKey \in 1..(MaxKeyToken + 1)
  /\ leg \in [Legs -> Leg]
  /\ drops \subseteq Holds
  /\ orphans \subseteq Holds
  /\ owed \subseteq KeyTokens

\* Types, and which holds are armed in which stage: none before the key is
\* leased, the key's from then until its report, the node's only while the leg
\* is past its acquire and never on a direct leg.
TypeOK ==
  /\ Types
  /\ \A l \in Legs :
       /\ leg[l].pc = "idle" => leg[l] = IdleLeg
       /\ leg[l].pc = "keyless" => leg[l].key = 0
       /\ leg[l].pc \in {"nodeless", "bail", "build", "calling", "endKey"} =>
            leg[l].key # 0
       /\ leg[l].pc \in {"keyless", "nodeless", "bail"} => leg[l].node = 0
       /\ leg[l].pc = "endNode" => leg[l].node # 0
       /\ leg[l].direct => leg[l].node = 0

Init ==
  /\ PoolInit
  /\ keyLeases = {}
  /\ nextKey = 1
  /\ leg = [l \in Legs |-> IdleLeg]
  /\ drops = {}
  /\ orphans = {}
  /\ owed = {}

-----------------------------------------------------------------------------
Armed(l) == {<<"key", leg[l].key>>, <<"node", leg[l].node>>} \cap Holds

InTable == ({"key"} \X keyLeases) \cup
           ({"node"} \X {t \in Tokens : lease[t].node # 0})

\* Mutant: the guards have no Drop.
UnwindSilent(l) ==
  /\ leg' = [leg EXCEPT ![l] = IdleLeg]
  /\ UNCHANGED drops

\* The future of leg l is dropped, and with it its guards: the armed ones spawn
\* a release.
Unwind(l) ==
  /\ leg' = [leg EXCEPT ![l] = IdleLeg]
  /\ drops' = drops \cup Armed(l)

Goto(l, stage) == leg' = [leg EXCEPT ![l].pc = stage]

-----------------------------------------------------------------------------
(* Acquiring.                                                               *)

Start(l, direct) ==
  /\ leg[l].pc = "idle"
  /\ leg' = [leg EXCEPT ![l] = [IdleLeg EXCEPT !.pc = "keyless", !.direct = direct]]
  /\ UNCHANGED <<poolVars, keyLeases, nextKey, drops, orphans, owed>>

KeyTx ==
  /\ nextKey <= MaxKeyToken
  /\ keyLeases' = keyLeases \cup {nextKey}
  /\ nextKey' = nextKey + 1

KeyGranted(l) ==
  /\ leg[l].pc = "keyless"
  /\ KeyTx
  /\ leg' = [leg EXCEPT ![l].key = nextKey,
                        ![l].pc = IF leg[l].direct THEN "build" ELSE "nodeless"]
  /\ UNCHANGED <<poolVars, drops, orphans, owed>>

\* Cancelled between the commit and the guard.
KeyAbandoned(l) ==
  /\ leg[l].pc = "keyless"
  /\ KeyTx
  /\ Unwind(l)
  /\ orphans' = orphans \cup {<<"key", nextKey>>}
  /\ UNCHANGED <<poolVars, owed>>

\* NoHealthyKey, AcquireTimeout or a database error.
KeyRefused(l) ==
  /\ leg[l].pc = "keyless"
  /\ leg' = [leg EXCEPT ![l] = IdleLeg]
  /\ UNCHANGED <<poolVars, keyLeases, nextKey, drops, orphans, owed>>

NodePicked(l) ==
  \E n \in NodeIds :
    /\ leg[l].pc = "nodeless"
    /\ PickTx(n)
    /\ leg' = [leg EXCEPT ![l].node = nextToken, ![l].pc = "build"]
    /\ UNCHANGED <<keyLeases, nextKey, drops, orphans, owed>>

NodeAbandoned(l) ==
  \E n \in NodeIds :
    /\ leg[l].pc = "nodeless"
    /\ PickTx(n)
    /\ Unwind(l)
    /\ orphans' = orphans \cup {<<"node", nextToken>>}
    /\ UNCHANGED <<keyLeases, nextKey, owed>>

\* Mutant: require_proxy is not looked at.
NoNodeGoesDirect(l) ==
  /\ leg[l].pc = "nodeless"
  /\ NonePicked
  /\ Goto(l, "build")
  /\ UNCHANGED <<keyLeases, nextKey, drops, orphans, owed>>

\* No enabled node: fail closed, or dial directly.
NoNode(l) ==
  /\ leg[l].pc = "nodeless"
  /\ NonePicked
  /\ Goto(l, IF RequireProxy THEN "bail" ELSE "build")
  /\ UNCHANGED <<keyLeases, nextKey, drops, orphans, owed>>

NodeError(l) ==
  /\ leg[l].pc = "nodeless"
  /\ Goto(l, "bail")
  /\ UNCHANGED <<poolVars, keyLeases, nextKey, drops, orphans, owed>>

-----------------------------------------------------------------------------
(* Calling.                                                                 *)

Build(l) ==
  /\ leg[l].pc = "build"
  /\ \/ Goto(l, "calling")
     \/ leg' = [leg EXCEPT ![l].end = "unbuilt", ![l].pc = "endKey"]
  /\ UNCHANGED <<poolVars, keyLeases, nextKey, drops, orphans, owed>>

\* ProxyRefresh of a long poll; KeyRefresh changes nothing that is kept here.
Refresh(l) ==
  /\ leg[l].pc = "calling"
  /\ leg[l].node # 0
  /\ RefreshTx(leg[l].node)
  /\ UNCHANGED ladderVars

Return(l) ==
  \E end \in CallEnds :
    /\ leg[l].pc = "calling"
    /\ leg' = [leg EXCEPT ![l].end = end, ![l].pc = "endKey"]
    /\ UNCHANGED <<poolVars, keyLeases, nextKey, drops, orphans, owed>>

-----------------------------------------------------------------------------
(* Ending both holds, the key's first.                                      *)

\* The report on the key, or its release.  A report on a lease that is still in
\* the table may be a transition; so may a ban, which deletes the row whatever
\* became of the lease, and every other lease of the key along with it.
EndKeyTx(l) ==
  /\ \E others \in SUBSET keyLeases :
       /\ others # {} => leg[l].end = "banned"
       /\ keyLeases' = keyLeases \ ({leg[l].key} \cup others)
  /\ \/ UNCHANGED owed
     \/ /\ leg[l].end \in Blames
        /\ leg[l].key \in keyLeases \/ leg[l].end = "banned"
        /\ owed' = owed \cup {leg[l].key}

AfterKey(l) ==
  IF leg[l].pc = "endKey" /\ leg[l].node # 0 THEN "endNode" ELSE "note"

\* The hold is disarmed, or its statement fails and it stays armed.  Either way
\* the ladder goes on to the node.
EndKey(l) ==
  /\ leg[l].pc \in {"bail", "endKey"}
  /\ \/ /\ EndKeyTx(l)
        /\ leg' = [leg EXCEPT ![l].key = 0, ![l].pc = AfterKey(l),
                              ![l].flip = IF owed' = owed THEN 0 ELSE leg[l].key]
     \/ /\ Goto(l, AfterKey(l))
        /\ UNCHANGED <<keyLeases, owed>>
  /\ UNCHANGED <<poolVars, nextKey, drops, orphans>>

\* Cancelled between the commit and disarm.
EndKeyCut(l) ==
  /\ leg[l].pc \in {"bail", "endKey"}
  /\ EndKeyTx(l)
  /\ Unwind(l)
  /\ UNCHANGED <<poolVars, nextKey, orphans>>

\* A tunnel error and a client that cannot be built are the node's fault; a
\* success is to its credit; whatever else happened is not about the node.
NodeOutcome(end) ==
  CASE end = "ok" -> "success"
    [] end \in {"tunnel", "unbuilt"} -> "failure"
    [] OTHER -> "release"

\* Mutant: the health is written by row id, and the release left to the guard.
EndNodeByRow(l) ==
  /\ leg[l].pc = "endNode"
  /\ LET n == lease[leg[l].node].node
     IN node' = IF n = 0 THEN node
                ELSE [node EXCEPT ![n] = Ended(@, NodeOutcome(leg[l].end))]
  /\ Goto(l, "note")
  /\ UNCHANGED <<present, inflight, lease, nextToken,
                 keyLeases, nextKey, drops, orphans, owed>>

EndNode(l) ==
  /\ leg[l].pc = "endNode"
  /\ \/ /\ EndTx(leg[l].node, NodeOutcome(leg[l].end))
        /\ leg' = [leg EXCEPT ![l].node = 0, ![l].pc = "note"]
     \/ /\ Goto(l, "note")
        /\ UNCHANGED poolVars
  /\ UNCHANGED <<keyLeases, nextKey, drops, orphans, owed>>

EndNodeCut(l) ==
  /\ leg[l].pc = "endNode"
  /\ EndTx(leg[l].node, NodeOutcome(leg[l].end))
  /\ Unwind(l)
  /\ UNCHANGED <<keyLeases, nextKey, orphans, owed>>

\* note_transition, note_attempt, observe_meta and the return, without an await
\* in between.
Note(l) ==
  /\ leg[l].pc = "note"
  /\ owed' = owed \ {leg[l].flip}
  /\ Unwind(l)
  /\ UNCHANGED <<poolVars, keyLeases, nextKey, orphans>>

-----------------------------------------------------------------------------
(* What happens to a leg, and around it.                                    *)

Cancel(l) ==
  /\ leg[l].pc # "idle"
  /\ Unwind(l)
  /\ UNCHANGED <<poolVars, keyLeases, nextKey, orphans, owed>>

\* The spawned release runs, or fails and leaves the lease to its expiry.
DropRelease(h) ==
  /\ h \in drops
  /\ drops' = drops \ {h}
  /\ \/ /\ h[1] = "key"
        /\ keyLeases' = keyLeases \ {h[2]}
        /\ UNCHANGED <<poolVars, orphans>>
     \/ /\ h[1] = "node"
        /\ EndTx(h[2], "release")
        /\ UNCHANGED <<keyLeases, orphans>>
     \/ /\ orphans' = orphans \cup {h}
        /\ UNCHANGED <<poolVars, keyLeases>>
  /\ UNCHANGED <<nextKey, leg, owed>>

\* Key leases expire and are reclaimed, or go with their row by the operator.
KeysGo ==
  \E gone \in (SUBSET keyLeases) \ {{}} :
    /\ keyLeases' = keyLeases \ gone
    /\ UNCHANGED <<poolVars, nextKey, leg, drops, orphans, owed>>

\* The process stops and boots; either zeroing may fail with a warning only.
Restart ==
  /\ leg' = [l \in Legs |-> IdleLeg]
  /\ drops' = {}
  /\ ZeroHolds \/ UNCHANGED poolVars
  /\ keyLeases' \in {{}, keyLeases}
  /\ orphans' = orphans \cup InTable
  /\ owed' = {}
  /\ UNCHANGED nextKey

PoolMoves ==
  /\ OperatorNext \/ Tick \/ ReenableStale
  /\ UNCHANGED ladderVars

LegStep(l) ==
  \/ KeyGranted(l) \/ KeyRefused(l)
  \/ NodePicked(l) \/ NoNode(l) \/ NodeError(l)
  \/ Build(l) \/ Return(l)
  \/ EndKey(l) \/ EndNode(l) \/ Note(l)

LegCut(l) ==
  \/ Cancel(l)
  \/ KeyAbandoned(l) \/ NodeAbandoned(l)
  \/ EndKeyCut(l) \/ EndNodeCut(l)

Next ==
  \/ \E l \in Legs :
       \/ \E direct \in BOOLEAN : Start(l, direct)
       \/ LegStep(l)
       \/ LegCut(l)
       \/ Refresh(l)
  \/ \E h \in Holds : DropRelease(h)
  \/ KeysGo
  \/ Restart
  \/ PoolMoves

Spec == Init /\ [][Next]_vars
-----------------------------------------------------------------------------
(* Safety.                                                                  *)

\* Every lease in either table has exactly one party that will end it: the leg
\* that holds it armed, a release that its dropped guard spawned, or, where the
\* holder was lost on the way, nobody but its expiry.  No early return, failed
\* statement or cancellation leaves one behind or hands it to two.
HoldsAccounted ==
  /\ InTable \subseteq drops \cup orphans \cup UNION {Armed(l) : l \in Legs}
  /\ \A l \in Legs :
       /\ Armed(l) \cap drops = {}
       /\ \A m \in Legs \ {l} : Armed(l) \cap Armed(m) = {}

\* With REQUIRE_OUTBOUND_PROXY no leg but a direct one is on the wire without
\* the node it leased, whatever is disabled, deleted or reclaimed under it.
NeverBare ==
  \A l \in Legs :
    RequireProxy /\ leg[l].pc = "calling" /\ ~leg[l].direct => leg[l].node # 0

\* docs/ops/api.md: "one increment per key-state transition caused by a provider
\* health report, from ExecMeta::key_transitions".  A transition that a report
\* caused is in the attempt's meta, or still on its way there.
TransitionsAreNoted ==
  \A t \in owed : \E l \in Legs : leg[l].flip = t

=============================================================================
