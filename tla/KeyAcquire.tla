----------------------------- MODULE KeyAcquire -----------------------------
(***************************************************************************)
(* How KeyPool::acquire waits for a slot of one service: the pool's mutex, *)
(* the Notify that finishes ring, the deadline, and the recheck after it.  *)
(*                                                                         *)
(* A lease is the caller's hold on a key here; the tables behind it, the   *)
(* order in which keys are picked and the health of the rows are in        *)
(* KeyLeases.  Notify is modelled by what tokio promises of it: a future   *)
(* that is enabled is woken by every later notify_waiters, and by no       *)
(* earlier one.                                                            *)
(***************************************************************************)
EXTENDS Naturals, FiniteSets

CONSTANTS
  Callers,   \* the tasks that call acquire, each again and again
  Keys,      \* the keys of the service
  PoolCap,   \* max_inflight
  NoKey,     \* no key
  Nobody     \* the mutex is free

ASSUME AcquireAssumption ==
  /\ PoolCap \in Nat \ {0}
  /\ IsFiniteSet(Callers)
  /\ NoKey \notin Keys
  /\ Nobody \notin Callers

VARIABLES
  active,    \* the keys in rotation
  key,       \* key[w]: the key that call w leased
  hold,      \* hold[w]: its lease row: none, live, or expired and not reclaimed
  pc,        \* where the call is
  owner,     \* the holder of the pool's mutex
  notified,  \* calls whose Notified future is ready
  late,      \* calls past their deadline
  excused,   \* history: asleep while something freed a slot and rang nobody
  sawFull    \* history: past the deadline and the pool was full at some time

acquireVars == <<active, key, hold, pc, owner, notified, late, excused, sawFull>>

Waiting == {"enabled", "trying", "counting", "unlocked", "asleep",
            "final", "finalTrying", "finalCounting"}

\* Stages in which the call holds the pool's mutex.
Locked == {"trying", "counting", "finalTrying", "finalCounting"}

Types ==
  /\ active \subseteq Keys
  /\ key \in [Callers -> Keys \cup {NoKey}]
  /\ hold \in [Callers -> {"none", "live", "expired"}]
  /\ pc \in [Callers -> Waiting \cup {"idle", "holding", "freed", "timeout", "noKey"}]
  /\ owner \in Callers \cup {Nobody}
  /\ notified \subseteq Callers /\ late \subseteq Callers
  /\ excused \subseteq Callers /\ sawFull \subseteq Callers

\* Types, and what belongs to a stage: the mutex to those that try, a lease to
\* none that waits, a key to every lease.
AcquireTypeOK ==
  /\ Types
  /\ \A w \in Callers :
       /\ owner = w <=> pc[w] \in Locked
       /\ pc[w] \in Waiting => hold[w] = "none"
       /\ hold[w] # "none" \/ pc[w] \in {"holding", "freed"} => key[w] \in Keys

AcquireInit ==
  /\ active \in SUBSET Keys
  /\ key = [w \in Callers |-> NoKey]
  /\ hold = [w \in Callers |-> "none"]
  /\ pc = [w \in Callers |-> "idle"]
  /\ owner = Nobody
  /\ notified = {} /\ late = {} /\ excused = {} /\ sawFull = {}

-----------------------------------------------------------------------------
\* The holders of k that an acquire would still find after its reclaim.
LiveHolders(k) == {w \in Callers : hold[w] = "live" /\ key[w] = k}

Free == {k \in active : Cardinality(LiveHolders(k)) < PoolCap}

\* Mutant: the future is enabled only by the select.
RegisteredWhenAsleep == {w \in Callers : pc[w] = "asleep"}

\* Calls that hold an enabled Notified future.
Registered ==
  {w \in Callers : pc[w] \in {"enabled", "trying", "counting", "unlocked", "asleep"}}

\* Before the lock: a fresh Notified future, enabled at once.
Enable(w) ==
  /\ pc' = [pc EXCEPT ![w] = "enabled"]
  /\ notified' = notified \ {w}
  /\ excused' = excused \ {w}

\* acquire is called; its deadline starts.
Start(w) ==
  /\ pc[w] = "idle" /\ hold[w] = "none"
  /\ Enable(w)
  /\ late' = late \ {w}
  /\ UNCHANGED <<active, key, hold, owner>>

Lock(w) ==
  /\ owner = Nobody
  /\ \/ pc[w] = "enabled" /\ pc' = [pc EXCEPT ![w] = "trying"]
     \/ pc[w] = "final" /\ pc' = [pc EXCEPT ![w] = "finalTrying"]
  /\ owner' = w
  /\ UNCHANGED <<active, key, hold, notified, late, excused>>

\* The rows that the transaction reclaims first.
Reclaimed == [w \in Callers |-> IF hold[w] = "expired" THEN "none" ELSE hold[w]]

\* The transaction finds a key with a free slot.
TakeTx(w) ==
  \E k \in Free :
    /\ pc[w] \in {"trying", "finalTrying"}
    /\ key' = [key EXCEPT ![w] = k]
    /\ hold' = [Reclaimed EXCEPT ![w] = "live"]
    /\ owner' = Nobody
    /\ UNCHANGED <<active, notified, late, excused>>

Take(w) == TakeTx(w) /\ pc' = [pc EXCEPT ![w] = "holding"]

\* It commits, and the call is cancelled before it has the lease.
TakeAbandoned(w) == TakeTx(w) /\ pc' = [pc EXCEPT ![w] = "idle"]

Miss(w) ==
  /\ Free = {}
  /\ \/ pc[w] = "trying" /\ pc' = [pc EXCEPT ![w] = "counting"]
     \/ pc[w] = "finalTrying" /\ pc' = [pc EXCEPT ![w] = "finalCounting"]
  /\ hold' = Reclaimed
  /\ UNCHANGED <<active, key, owner, notified, late, excused>>

\* count_active_keys, a statement of its own, and the end of the mutex.
Count(w) ==
  /\ \/ /\ pc[w] \in {"counting", "finalCounting"} /\ active = {}
        /\ pc' = [pc EXCEPT ![w] = "noKey"]
     \/ /\ pc[w] = "counting" /\ active # {}
        /\ pc' = [pc EXCEPT ![w] = "unlocked"]
     \/ /\ pc[w] = "finalCounting" /\ active # {}
        /\ pc' = [pc EXCEPT ![w] = "timeout"]
  /\ owner' = Nobody
  /\ UNCHANGED <<active, key, hold, notified, late, excused>>

\* The time that is left decides between the last try and the select.
Check(w) ==
  /\ pc[w] = "unlocked"
  /\ pc' = [pc EXCEPT ![w] = IF w \in late THEN "final" ELSE "asleep"]
  /\ UNCHANGED <<active, key, hold, owner, notified, late, excused>>

\* Mutant: the deadline is taken anew in every round of the loop.
WakeRearms(w) ==
  /\ pc[w] = "asleep" /\ w \in notified
  /\ Enable(w)
  /\ late' = late \ {w}
  /\ UNCHANGED <<active, key, hold, owner>>

\* Mutant: the bell is looked at only when the sleep is over.
WakeAtDeadline(w) ==
  /\ pc[w] = "asleep" /\ w \in notified /\ w \in late
  /\ Enable(w)
  /\ UNCHANGED <<active, key, hold, owner, late>>

\* Mutant: no recheck after the sleep.
SleepEndsUnchecked(w) ==
  /\ pc[w] = "asleep" /\ w \in late
  /\ pc' = [pc EXCEPT ![w] = "timeout"]
  /\ UNCHANGED <<active, key, hold, owner, notified, late, excused>>

\* The two branches of the select.
Wake(w) ==
  /\ pc[w] = "asleep" /\ w \in notified
  /\ Enable(w)
  /\ UNCHANGED <<active, key, hold, owner, late>>

SleepEnds(w) ==
  /\ pc[w] = "asleep" /\ w \in late
  /\ pc' = [pc EXCEPT ![w] = "final"]
  /\ UNCHANGED <<active, key, hold, owner, notified, late, excused>>

\* Cancelled, or a statement fails: the guard of the mutex is dropped.
Abort(w) ==
  /\ pc[w] \in Waiting
  /\ pc' = [pc EXCEPT ![w] = "idle"]
  /\ owner' = IF owner = w THEN Nobody ELSE owner
  /\ UNCHANGED <<active, key, hold, notified, late, excused>>

Return(w) ==
  /\ pc[w] \in {"timeout", "noKey"}
  /\ pc' = [pc EXCEPT ![w] = "idle"]
  /\ UNCHANGED <<active, key, hold, owner, notified, late, excused>>

-----------------------------------------------------------------------------
(* Finishes.  The table changes in one step, the bell rings in the next.    *)

\* Release or report; the report may take the row out of rotation.
FinishTx(w) ==
  /\ pc[w] = "holding"
  /\ \/ UNCHANGED active
     \/ hold[w] # "none" /\ active' = active \ {key[w]}
  /\ hold' = [hold EXCEPT ![w] = "none"]
  /\ pc' = [pc EXCEPT ![w] = "freed"]
  /\ UNCHANGED <<key, owner, notified, late, excused>>

\* A ban deletes the row and every lease on it.
BanTx(w) ==
  /\ pc[w] = "holding"
  /\ active' = active \ {key[w]}
  /\ hold' = [v \in Callers |-> IF key[v] = key[w] THEN "none" ELSE hold[v]]
  /\ pc' = [pc EXCEPT ![w] = "freed"]
  /\ UNCHANGED <<key, owner, notified, late, excused>>

\* notify_waiters.
Announce(w) ==
  /\ pc[w] = "freed"
  /\ notified' = notified \cup Registered
  /\ pc' = [pc EXCEPT ![w] = "idle"]
  /\ UNCHANGED <<active, key, hold, owner, late, excused>>

\* The finish fails or is cancelled, and the release that the guard spawns
\* fails too.  Committed or not, no bell rings.
FinishLost(w) ==
  /\ \/ pc[w] = "holding" /\ UNCHANGED excused
     \/ pc[w] = "freed" /\ excused' = excused \cup Registered
  /\ pc' = [pc EXCEPT ![w] = "idle"]
  /\ UNCHANGED <<active, key, hold, owner, notified, late>>

-----------------------------------------------------------------------------
(* What happens beside the pool, and rings nobody.                          *)

Deadline(w) ==
  /\ pc[w] \in Waiting /\ w \notin late
  /\ late' = late \cup {w}
  /\ UNCHANGED <<active, key, hold, pc, owner, notified, excused>>

Expire(w) ==
  /\ hold[w] = "live"
  /\ hold' = [hold EXCEPT ![w] = "expired"]
  /\ excused' = excused \cup Registered
  /\ UNCHANGED <<active, key, pc, owner, notified, late>>

RefreshHold(w) ==
  /\ pc[w] = "holding" /\ hold[w] = "expired"
  /\ hold' = [hold EXCEPT ![w] = "live"]
  /\ UNCHANGED <<active, key, pc, owner, notified, late, excused>>

\* The operator or the cron enables or disables a row.
Toggle(k) ==
  /\ active' = IF k \in active THEN active \ {k} ELSE active \cup {k}
  /\ excused' = excused \cup Registered
  /\ UNCHANGED <<key, hold, pc, owner, notified, late>>

-----------------------------------------------------------------------------
CallerNext(w) ==
  \/ Start(w) \/ Lock(w) \/ Take(w) \/ TakeAbandoned(w) \/ Miss(w) \/ Count(w)
  \/ Check(w) \/ Wake(w) \/ SleepEnds(w) \/ Abort(w) \/ Return(w)
  \/ FinishTx(w) \/ BanTx(w) \/ Announce(w) \/ FinishLost(w)
  \/ Deadline(w) \/ Expire(w) \/ RefreshHold(w)

Full == Free = {}

\* The history: who was past the deadline when the pool was full.
Watch ==
  sawFull' = {w \in Callers :
                /\ w \in late' /\ pc'[w] \in Waiting \cup {"timeout"}
                /\ w \in sawFull \/ Full'}

AcquireNext ==
  /\ \/ \E w \in Callers : CallerNext(w)
     \/ \E k \in Keys : Toggle(k)
  /\ Watch

AcquireSpec == AcquireInit /\ [][AcquireNext]_acquireVars

\* The runtime polls every task, statements end, and tokio's mutex is fair.
Polled(w) ==
  /\ WF_acquireVars((Take(w) \/ Miss(w) \/ Count(w) \/ Check(w) \/ Wake(w)
              \/ SleepEnds(w) \/ Announce(w)) /\ Watch)
  /\ SF_acquireVars(Lock(w) /\ Watch)

\* No deadline is ever assumed to pass.
AcquireLiveSpec == AcquireSpec /\ \A w \in Callers : Polled(w)
-----------------------------------------------------------------------------
\* A sleeper would learn something if it tried again now.
WorthWaking == Free # {} \/ active = {}

\* A call that sleeps with no bell rung for it has missed nothing that a finish
\* did, unless that finish is about to ring.  (An expiry, an operator's change
\* or a finish that fails rings nobody: excused.)
NoLostWakeup ==
  \A w \in Callers :
    pc[w] = "asleep" /\ w \notin notified /\ WorthWaking =>
      w \in excused \/ \E v \in Callers : pc[v] = "freed"

\* AcquireTimeout is answered only if the pool really was full at some moment
\* after the deadline, however the last wakeup and the sleep raced.
TimeoutSawFull == \A w \in Callers : pc[w] = "timeout" => w \in sawFull

\* What a call learns by waiting is sound: no wakeup is lost between its failed
\* try and its sleep, and no timeout is answered for a pool with a free slot.
WaitIsSound == NoLostWakeup /\ TimeoutSawFull

\* The cap holds for live leases while calls race, time out and are cancelled.
LiveCapHolds == \A k \in Keys : Cardinality(LiveHolders(k)) <= PoolCap

\* Once its deadline has passed an acquire comes back, with a key or an answer,
\* whatever bells keep ringing and whoever else takes the slots.
AcquireEnds ==
  \A w \in Callers : (pc[w] \in Waiting /\ w \in late) ~> pc[w] \notin Waiting

\* Even if its deadline never came, a call would not sleep for ever beside a
\* slot that a finish freed.
FreedSlotWakes ==
  \A w \in Callers :
    (pc[w] = "asleep" /\ WorthWaking /\ w \notin excused)
      ~> (pc[w] # "asleep" \/ ~WorthWaking \/ w \in excused)
=============================================================================
