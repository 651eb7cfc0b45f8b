--------------------------- MODULE KeyMaintenance ---------------------------
(***************************************************************************)
(* What works on the key rows beside the traffic and without a lease: the  *)
(* daily health probe (probe.rs), the credit sync (credit_sync.rs), the    *)
(* re-enable pass (cron.rs) and the operator's pages (admin/keys.rs).      *)
(* Each reads rows, waits for a vendor or an operator, and writes by row   *)
(* id what it has read or heard, while the others go on.                   *)
(*                                                                         *)
(* The rows are cut down to what these jobs look at; the columns and the   *)
(* leases are in KeyRows and KeyLeases.  A leg's report is LegReports.     *)
(* Which rows are cooling when the probe looks is left open.               *)
(***************************************************************************)
EXTENDS Integers, SequencesExt

CONSTANTS
    MaxKeyId,      \* bound: the largest row id
    MaxSecret,     \* bound: how many keys the operator ever enters
    Operators,     \* who may toggle at once
    SyncCap,       \* MAX_KEYS_PER_SERVICE
    RequireProxy,  \* REQUIRE_OUTBOUND_PROXY
    DeletesOnBan,  \* the vendor of these rows is one whose ban deletes
    Unreadable,    \* the secrets whose usage the vendor never tells
    Nobody         \* no row seen

ASSUME MaintenanceAssumption ==
    /\ MaxKeyId \in Nat /\ MaxSecret \in Nat
    /\ SyncCap \in Nat \ {0}
    /\ {RequireProxy, DeletesOnBan} \subseteq BOOLEAN
    /\ Unreadable \subseteq 1..MaxSecret

VARIABLES
    present,     \* ids of the rows of one service
    row,         \* secret and active of each
    nextSecret,  \* the next key the operator enters
    stamped,     \* rows with last_probe_at of today
    synced,      \* rows with usage_synced_at, the least recent first
    probe,       \* the pass: where it is, the row it is at, the rows to come
                 \* as it has read them
    sync,        \* the sync: the rows to come as it has read them
    seen,        \* what an operator's toggle has read
    asked        \* history: the keys the probe has asked about since midnight
                 \* whose outcome it has not failed to record

keys == <<present, row, nextSecret>>
vars == <<present, row, nextSecret, stamped, synced, probe, sync, seen, asked>>

KeyIds  == 1..MaxKeyId
Secrets == 1..MaxSecret
Blank   == [secret |-> 0, active |-> FALSE]
NoRow   == [key |-> 0, secret |-> 0]
NoPass  == [pc |-> "idle", at |-> NoRow, rows |-> {}]

Init ==
    /\ present = {} /\ nextSecret = 1
    /\ row = [k \in KeyIds |-> Blank]
    /\ stamped = {} /\ synced = <<>>
    /\ probe = NoPass /\ sync = <<>>
    /\ seen = [o \in Operators |-> Nobody]
    /\ asked = {}

\* A row goes, and its columns with it.
RowGoes(k) ==
    /\ present' = present \ {k}
    /\ row' = [row EXCEPT ![k] = Blank]
    /\ stamped' = stamped \ {k}
    /\ synced' = SelectSeq(synced, LAMBDA j : j # k)

Write(k, r) ==
    /\ row' = IF k \in present THEN [row EXCEPT ![k] = r] ELSE row
    /\ UNCHANGED <<present, stamped, synced>>

-----------------------------------------------------------------------------
(* The operator's pages.                                                   *)

\* create_key and each key of a bulk import; the id of a deleted last row is
\* given out again.
CreateKey ==
    \E k \in KeyIds :
        /\ nextSecret <= MaxSecret
        /\ \A j \in present : j < k
        /\ k = 1 \/ k - 1 \in present
        /\ present' = present \union {k}
        /\ row' = [row EXCEPT ![k] =
               [secret |-> nextSecret, active |-> TRUE]]
        /\ nextSecret' = nextSecret + 1
        /\ UNCHANGED <<stamped, synced, probe, sync, seen, asked>>

\* update_key with a new secret: the row stays where it is and as it is; where
\* the form names the service too, the row counts as never synced.
UpdateKey(k) ==
    /\ k \in present /\ nextSecret <= MaxSecret
    /\ row' = [row EXCEPT ![k].secret = nextSecret]
    /\ nextSecret' = nextSecret + 1
    /\ synced' \in {synced, SelectSeq(synced, LAMBDA j : j # k)}
    /\ UNCHANGED <<present, stamped, probe, sync, seen, asked>>

DeleteKey(k) ==
    /\ k \in present
    /\ RowGoes(k)
    /\ UNCHANGED <<nextSecret, probe, sync, seen, asked>>

\* toggle_key reads the row,
ToggleReads(o, k) ==
    /\ seen[o] = Nobody /\ k \in present
    /\ seen' = [seen EXCEPT ![o] = [key |-> k, active |-> row[k].active]]
    /\ UNCHANGED <<keys, stamped, synced, probe, sync, asked>>

\* and writes the opposite of what it has read.
ToggleWrites(o) ==
    /\ seen[o] # Nobody
    /\ LET k == seen[o].key
       IN  Write(k, [row[k] EXCEPT !.active = ~seen[o].active])
    /\ seen' = [seen EXCEPT ![o] = Nobody]
    /\ UNCHANGED <<nextSecret, probe, sync, asked>>

-----------------------------------------------------------------------------
(* The traffic, the clock and the re-enable pass.                          *)

\* A verdict of a leg may take the row out of rotation.
LegReports(k) ==
    /\ k \in present
    /\ \E stays \in BOOLEAN : Write(k, [row[k] EXCEPT !.active = @ /\ stays])
    /\ UNCHANGED <<nextSecret, probe, sync, seen, asked>>

\* run_maintenance_once; which rows are old enough is left open.
ReenableStale ==
    \E stale \in SUBSET {k \in present : ~row[k].active} :
        /\ row' = [k \in KeyIds |->
                      IF k \in stale THEN [row[k] EXCEPT !.active = TRUE] ELSE row[k]]
        /\ UNCHANGED <<present, nextSecret, stamped, synced, probe, sync, seen,
                       asked>>

\* date('now') moves on.
Midnight ==
    /\ stamped' = {} /\ asked' = {}
    /\ UNCHANGED <<keys, synced, probe, sync, seen>>

-----------------------------------------------------------------------------
(* The daily probe: probe_due_keys, one row after another.                 *)

\* Mutant: a row is due although it is stamped.
DueAnyDay == {k \in present : row[k].active}

\* due_probe_keys, its test of the cooldown aside.
Due == {k \in present : row[k].active /\ k \notin stamped}

\* The snapshot the pass works through: the due rows that are not cooling.
ProbeStarts ==
    \E warm \in SUBSET Due :
        /\ probe.pc = "idle" /\ warm # {}
        /\ probe' = [NoPass EXCEPT !.pc = "next",
               !.rows = {[key |-> k, secret |-> row[k].secret] : k \in warm}]
        /\ UNCHANGED <<keys, stamped, synced, sync, seen, asked>>

\* ORDER BY id ASC.
IsNext(r) == r \in probe.rows /\ \A other \in probe.rows : r.key <= other.key

Onward(rows) == IF rows = {} THEN NoPass
                ELSE [NoPass EXCEPT !.pc = "next", !.rows = rows]

\* A node is leased, or none is needed, and the vendor is asked about the key
\* that the snapshot has.
ProbeAsks(r) ==
    /\ probe.pc = "next" /\ IsNext(r)
    /\ probe' = [probe EXCEPT !.pc = "calling", !.at = r, !.rows = @ \ {r}]
    /\ asked' = asked \union {r.secret}
    /\ UNCHANGED <<keys, stamped, synced, sync, seen>>

\* The statement that leases a node fails: this row is left for another pass;
\* no node where one is required: all that remain are.
ProbeUnleased(r) ==
    /\ probe.pc = "next" /\ IsNext(r)
    /\ \/ probe' = Onward(probe.rows \ {r})
       \/ RequireProxy /\ probe' = NoPass
    /\ UNCHANGED <<keys, stamped, synced, sync, seen, asked>>

\* classify, over the answers of a vendor: a 401 is looked at before the
\* verdict of the ladder.
Disposition(answer) ==
    CASE answer = "401"                  -> "delete"
      [] answer = "ban" /\ DeletesOnBan  -> "delete"
      [] answer = "ban" /\ ~DeletesOnBan -> "suspend"
      [] answer = "403"                  -> "auth_fail"
      [] OTHER                           -> "keep"

\* The vendor answers, and apply writes by row id and with no lease.  A verdict
\* that keeps the row writes columns that are not looked at here.
ProbeApplies ==
    /\ probe.pc = "calling"
    /\ \E answer \in {"ok", "401", "ban", "403", "429", "402", "other"} :
          LET k     == probe.at.key
              heard == Disposition(answer)
          IN  \/ /\ heard = "delete"
                 /\ IF k \in present THEN RowGoes(k)
                    ELSE UNCHANGED <<present, row, stamped, synced>>
              \/ /\ heard = "suspend"
                 /\ Write(k, [row[k] EXCEPT !.active = FALSE])
              \/ /\ heard = "auth_fail"
                 /\ \E stays \in BOOLEAN :
                       Write(k, [row[k] EXCEPT !.active = @ /\ stays])
              \/ /\ heard = "keep"
                 /\ UNCHANGED <<present, row, stamped, synced>>
    /\ probe' = [probe EXCEPT !.pc = "stamp"]
    /\ UNCHANGED <<nextSecret, sync, seen, asked>>

ProbeStamps ==
    /\ probe.pc = "stamp"
    /\ stamped' = stamped \union ({probe.at.key} \intersect present)
    /\ probe' = Onward(probe.rows)
    /\ UNCHANGED <<keys, synced, sync, seen, asked>>

\* The write or the stamp fails: the row stays due.
ProbeWriteFails ==
    /\ probe.pc \in {"calling", "stamp"}
    /\ probe' = Onward(probe.rows)
    /\ asked' = asked \ {probe.at.secret}
    /\ UNCHANGED <<keys, stamped, synced, sync, seen>>

-----------------------------------------------------------------------------
(* The credit sync: sync_credits_for_services, for one service.            *)

Active == {k \in present : row[k].active}

\* Mutant: the list is ordered by id alone.
ListById == SetToSortSeq(Active, <)

\* list_active_keys_for_service: never synced first, then the least recent.
List == SetToSortSeq(Active \ Range(synced), <)
          \o SelectSeq(synced, LAMBDA k : k \in Active)

\* What a pass works through: the first rows of the list, as many as the cap.
Batch == [i \in 1..(IF Len(List) < SyncCap THEN Len(List) ELSE SyncCap) |->
            [key |-> List[i], secret |-> row[List[i]].secret]]

\* The cron's pass, or an operator's.
SyncStarts ==
    /\ sync = <<>> /\ Active # {}
    /\ sync' = Batch
    /\ UNCHANGED <<keys, stamped, synced, probe, seen, asked>>

\* The vendor's usage endpoint answers for the key that was listed, and
\* update_api_key_usage writes by id and stamps the row.
SyncWrites(k) ==
    /\ sync # <<>> /\ Head(sync).key = k
    /\ Head(sync).secret \notin Unreadable
    /\ synced' = IF k \in present
                   THEN Append(SelectSeq(synced, LAMBDA j : j # k), k)
                   ELSE synced
    /\ sync' = Tail(sync)
    /\ UNCHANGED <<keys, stamped, probe, seen, asked>>

\* A fetch or a write that fails is counted and stamps nothing: the row keeps its
\* place in the list.
SyncFails ==
    /\ sync # <<>>
    /\ sync' = Tail(sync)
    /\ UNCHANGED <<keys, stamped, synced, probe, seen, asked>>

-----------------------------------------------------------------------------
\* The process stops, and what its jobs and its operators' requests held goes.
Restart ==
    /\ probe' = NoPass /\ sync' = <<>>
    /\ seen' = [o \in Operators |-> Nobody]
    /\ asked' = IF probe.pc \in {"calling", "stamp"}
                  THEN asked \ {probe.at.secret} ELSE asked
    /\ UNCHANGED <<keys, stamped, synced>>

OperatorNext ==
    \/ CreateKey
    \/ \E k \in KeyIds :
          \/ UpdateKey(k) \/ DeleteKey(k)
          \/ \E o \in Operators : ToggleReads(o, k)
    \/ \E o \in Operators : ToggleWrites(o)

ProbeNext ==
    \/ ProbeStarts
    \/ \E r \in probe.rows : ProbeAsks(r) \/ ProbeUnleased(r)
    \/ ProbeApplies \/ ProbeStamps \/ ProbeWriteFails

SyncNext ==
    \/ SyncStarts \/ SyncFails
    \/ \E k \in KeyIds : SyncWrites(k)

Next ==
    \/ OperatorNext \/ ProbeNext \/ SyncNext
    \/ \E k \in KeyIds : LegReports(k)
    \/ ReenableStale \/ Midnight \/ Restart

Spec == Init /\ [][Next]_vars

\* The loop ticks on, and a request to a vendor or the database ends.
SyncRuns == WF_vars(SyncNext)

LoopSpec == Spec /\ SyncRuns

\* And a key whose usage can be had is not refused it every time, nor its write.
AnsweredSpec ==
    /\ LoopSpec
    /\ \A k \in KeyIds : SF_vars(SyncWrites(k))

-----------------------------------------------------------------------------
\* The probe asks a vendor about a key at most once a day, through restarts,
\* two passes in one day and a pass that runs over midnight, unless it could
\* not record the outcome (due_probe_keys, stamp_key_probe).
ProbedOnceADay ==
    [][\A r \in probe.rows : ProbeAsks(r) => r.secret \notin asked]_vars

\* The active rows whose usage cannot be had fill every pass: none of them is
\* ever stamped, so they stay first in the list.
Clogged ==
    Cardinality({k \in Active : row[k].secret \in Unreadable}) >= SyncCap

\* The cap of a sync defers keys and starves none: a key that stays active and
\* readable is synced again and again, however often the others fail, while
\* fewer keys than the cap are unreadable and the process is not stopped again
\* and again (list_active_keys_for_service).
SyncReachesAll ==
    \A k \in KeyIds :
        \/ []<><<SyncWrites(k)>>_vars
        \/ []<>(k \notin Active \/ row[k].secret \in Unreadable)
        \/ []<>Clogged
        \/ []<><<Restart>>_vars
=============================================================================
