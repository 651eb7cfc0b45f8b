------------------------------- MODULE KeyRows -------------------------------
(***************************************************************************)
(* One row of the api_keys table and the statements that write it, as pure *)
(* operators: the five health verdicts, the admin writes, the re-enable    *)
(* cron's predicate and the transition a report returns.                   *)
(*                                                                         *)
(* Columns that only order ties or feed a page are abstracted: last_used_at *)
(* is the Boolean "used" (NULL or not), cooldown_until is the Boolean      *)
(* "cooling" (later than now), the key text is a secret number that no two *)
(* rows ever share.  credits_limit, usage_synced_at, last_probe_at and the *)
(* fingerprint are left out.                                               *)
(***************************************************************************)
EXTENDS Integers

CONSTANTS
  Services,      \* the vendors a key can belong to
  MaxFails,      \* MAX_CONSECUTIVE_FAILURES: auth failures that disable a row
  MaxCredits,    \* bound: the largest credit balance a sync ever stores
  MaxSecret      \* bound: how many distinct secrets the operator ever enters

ASSUME RowAssumption ==
  /\ Services # {}
  /\ MaxFails \in Nat \ {0}
  /\ MaxCredits \in Nat
  /\ MaxSecret \in Nat \ {0}

Unknown == -1    \* credits_remaining IS NULL: untracked, never conflated with 0

Balance == {Unknown} \cup 0..MaxCredits

Reasons == {"none", "manual", "auth_fail", "vendor_suspended"}

Row == [service : Services, secret : 0..MaxSecret, active : BOOLEAN,
        fails : Nat, credits : Balance, reason : Reasons,
        cooling : BOOLEAN, used : BOOLEAN]

\* INSERT INTO api_keys (service, key, key_fingerprint): every other column
\* takes its default.
FreshRow(s, secret) ==
  [service |-> s, secret |-> secret, active |-> TRUE, fails |-> 0,
   credits |-> Unknown, reason |-> "none", cooling |-> FALSE, used |-> FALSE]

-----------------------------------------------------------------------------
(* Health verdicts (enum KeyHealth).                                        *)

Verdicts == {"success", "failure", "exhausted", "payment_required", "suspended"}

\* Mutant: the balance is burned without the floor at 0.
SuccessRowNoFloor(r) ==
  [r EXCEPT !.fails = 0, !.used = TRUE,
            !.credits = IF @ = Unknown THEN Unknown ELSE @ - 1]

\* A tracked balance burns one credit per success and stops at 0.
SuccessRow(r) ==
  [r EXCEPT !.fails = 0, !.used = TRUE,
            !.credits = IF @ <= 0 THEN @ ELSE @ - 1]

\* The flip at MaxFails and the auth_fail stamp are one statement; the stamp
\* never replaces a reason already recorded.
FailureRow(r) ==
  LET reached == r.fails + 1 >= MaxFails
  IN [r EXCEPT !.fails = @ + 1, !.used = TRUE,
               !.active = @ /\ ~reached,
               !.reason = IF @ = "none" /\ reached THEN "auth_fail" ELSE @]

\* A 429.  "cools" is FALSE for a Retry-After of zero seconds.
ExhaustedRow(r, cools) ==
  [r EXCEPT !.credits = IF @ = Unknown THEN Unknown ELSE 0,
            !.used = TRUE, !.cooling = cools]

\* A 402 sinks an untracked balance too.
PaymentRequiredRow(r) == [r EXCEPT !.credits = 0, !.used = TRUE]

\* The vendor closed the account: overwrites any other reason.
SuspendedRow(r) ==
  [r EXCEPT !.active = FALSE, !.reason = "vendor_suspended", !.used = TRUE]

\* The rows a verdict may leave behind.
HealthWrites(v, r) ==
  CASE v = "success"          -> {SuccessRow(r)}
    [] v = "failure"          -> {FailureRow(r)}
    [] v = "exhausted"        -> {ExhaustedRow(r, cools) : cools \in BOOLEAN}
    [] v = "payment_required" -> {PaymentRequiredRow(r)}
    [] v = "suspended"        -> {SuspendedRow(r)}

\* Mutant: the transition is derived from the row after the report alone.
TransitionFromPostOnly(v, pre, post) ==
  CASE v = "success"   -> "none"
    [] v = "suspended" -> "suspended"
    [] OTHER           -> IF ~post.active THEN "disabled"
                          ELSE IF post.credits = 0 THEN "credits_zeroed" ELSE "none"

\* transition_for and the gate of report_suspended: what one report tells the
\* metrics it did, from the row before and after its own transaction.
Transition(v, pre, post) ==
  LET leftRotation == pre.active /\ ~post.active
      zeroed       == post.credits = 0 /\ pre.credits # 0
  IN CASE v = "success"   -> "none"
       [] v = "suspended" -> IF leftRotation THEN "suspended" ELSE "none"
       [] OTHER           -> IF leftRotation THEN "disabled"
                             ELSE IF zeroed THEN "credits_zeroed" ELSE "none"

-----------------------------------------------------------------------------
(* Admin and cron writes.                                                   *)

\* set_api_key_active: enabling wipes the history, disabling records 'manual'
\* only where no reason stands.
ToggledRow(r, on) ==
  IF on THEN [r EXCEPT !.active = TRUE, !.fails = 0, !.reason = "none"]
        ELSE [r EXCEPT !.active = FALSE,
                       !.reason = IF @ = "none" THEN "manual" ELSE @]

\* update_api_key with a new secret: fails and reason go, active stays.
RotatedRow(r, secret) ==
  [r EXCEPT !.secret = secret, !.fails = 0, !.reason = "none"]

\* update_api_key with a new service: the balance and the reason go.
MovedRow(r, s) ==
  [r EXCEPT !.service = s, !.credits = Unknown, !.reason = "none"]

SyncedRow(r, balance) == [r EXCEPT !.credits = balance]

\* Mutant: the predicate from before schema 18, blind to the reason.
RevivableAnyReason(r) == ~r.active /\ r.used

\* reenable_stale_keys, its age test aside.
Revivable(r) == ~r.active /\ r.reason # "vendor_suspended" /\ r.used

\* Mutant: the revived row keeps its failures.
RevivedRowKeepsFails(r) == [r EXCEPT !.active = TRUE, !.reason = "none"]

RevivedRow(r) == [r EXCEPT !.active = TRUE, !.fails = 0, !.reason = "none"]
=============================================================================
