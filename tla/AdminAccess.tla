----------------------------- MODULE AdminAccess -----------------------------
(***************************************************************************)
(* The operators' door: bootstrap, login, logout, the change of a password *)
(* and the revocation of sessions, statement by statement, with the        *)
(* throttle of failed attempts, the expiry of sessions, failing statements *)
(* and requests that are dropped.                                          *)
(***************************************************************************)
EXTENDS Picks, Functions

CONSTANTS Requests,    \* requests in flight
          Clients,     \* addresses
          Names,       \* user names
          Passwords,
          LOGIN_FAILURE_LIMIT,
          LOGIN_FAILURE_WINDOW,
          MAX_TRACKED_CLIENTS,
          SESSION_TTL,
          MaxRequests  \* bound: requests in one behaviour

ASSUME AccessAssumption ==
  /\ {LOGIN_FAILURE_LIMIT, LOGIN_FAILURE_WINDOW, MAX_TRACKED_CLIENTS, SESSION_TTL} \subseteq Nat \ {0}
  /\ MaxRequests \in Nat

VARIABLES
  window,    \* FailureWindow: the ages of the failures of a client, oldest first
  order,     \* its insertion_order
  users,     \* admin_users, by id: [name, password]
  sessions,  \* admin_sessions, by token: [user, left] and what it was opened with
  request,
  left       \* requests still to come

accessVars == <<window, order, users, sessions, request, left>>

-----------------------------------------------------------------------------
(* FailureWindow.                                                           *)

Without(s, gone) == Picked(s, {i \in DOMAIN s : s[i] \notin gone})

Store == [window |-> window, order |-> order]

Kept(store, gone) ==
  [window |-> Restrict(store.window, DOMAIN store.window \ gone), order |-> Without(store.order, gone)]

\* Mutant: a failure counts on for one step more.
PruneLate(store, who) ==
  LET failures == store.window[who]
      recent == Picked(failures, {i \in DOMAIN failures : failures[i] <= LOGIN_FAILURE_WINDOW})
  IN CASE who \notin DOMAIN store.window -> store
       [] who \in DOMAIN store.window /\ recent = <<>> -> Kept(store, {who})
       [] OTHER -> [store EXCEPT !.window[who] = recent]

\* prune: lapsed failures go, and with the last of them the client.
Prune(store, who) ==
  LET failures == store.window[who]
      recent == Picked(failures, {i \in DOMAIN failures : failures[i] < LOGIN_FAILURE_WINDOW})
  IN CASE who \notin DOMAIN store.window -> store
       [] who \in DOMAIN store.window /\ recent = <<>> -> Kept(store, {who})
       [] OTHER -> [store EXCEPT !.window[who] = recent]

\* is_blocked, on the pruned store.
IsBlocked(store, who) ==
  who \in DOMAIN store.window /\ Len(store.window[who]) >= LOGIN_FAILURE_LIMIT

Lapsed(failures) == failures[Len(failures)] >= LOGIN_FAILURE_WINDOW

\* sweep_expired: the clients whose newest failure has lapsed.
SweepExpired(store) == Kept(store, {who \in DOMAIN store.window : Lapsed(store.window[who])})

\* Mutant: the oldest client goes, locked out or not.
VictimsAny(store) == store.order

\* The clients that may be evicted, oldest first: never one that is locked out.
Victims(store) ==
  LET Loose(who) == \/ Len(store.window[who]) < LOGIN_FAILURE_LIMIT
                    \/ Lapsed(store.window[who])
  IN Picked(store.order, {i \in DOMAIN store.order : Loose(store.order[i])})

Full(store, who) ==
  Cardinality(DOMAIN store.window) >= MAX_TRACKED_CLIENTS /\ who \notin DOMAIN store.window

\* evict_if_full, where it makes room: a sweep, then one victim.
EvictIfFull(store, who) ==
  LET swept == SweepExpired(store)
  IN CASE ~Full(store, who) -> store
       [] Full(store, who) /\ Full(swept, who) /\ Victims(swept) # <<>> -> Kept(swept, {Victims(swept)[1]})
       [] OTHER -> swept

\* record_failure: with every tracked client locked out the record is dropped.
RecordFailure(store, who) ==
  LET room == EvictIfFull(Prune(store, who), who)
  IN CASE Full(room, who) -> room
       [] who \in DOMAIN room.window -> [room EXCEPT !.window[who] = Append(@, 0)]
       [] OTHER -> [window |-> [x \in DOMAIN room.window \cup {who} |->
                                  IF x = who THEN <<0>> ELSE room.window[x]],
                    order  |-> Append(room.order, who)]

\* forget.
Forget(store, who) == Kept(store, {who})

StoreBecomes(store) == window' = store.window /\ order' = store.order

-----------------------------------------------------------------------------
(* Requests.  A request is at the statement it waits for.  "from" is the    *)
(* password the handler has read or checked, "excused" a ghost: see         *)
(* RevocationReaches.                                                       *)

Idle == [at |-> "idle", who |-> "none", name |-> "none", password |-> "none", new |-> "none",
         user |-> 0, from |-> "none", left |-> 0, keep |-> 0, excused |-> FALSE]

Goes(r, at) == request' = [request EXCEPT ![r].at = at]
Ends(r)     == request' = [request EXCEPT ![r] = Idle]

\* A login that has read the user's row and has no session yet.
LoggingIn(r) == request[r].at \in {"verify", "stamp", "insert"}

Valid(token) == token \in DOMAIN sessions /\ sessions[token].left > 0

\* The credentials of a request: the configured secret (0) or a session token.
\* require_admin.
Credentials == {0} \cup DOMAIN sessions
Authorized(credential) == credential = 0 \/ Valid(credential)

AccessInit ==
  /\ window = <<>>
  /\ order = <<>>
  /\ users = <<>>
  /\ sessions = <<>>
  /\ request = [r \in Requests |-> Idle]
  /\ left = MaxRequests

Arrives(r) == request[r].at = "idle" /\ left > 0 /\ left' = left - 1

\* Both doors look at the throttle first: a client that is locked out is
\* answered 429.
Throttled(r, who) ==
  LET seen == Prune(Store, who)
  IN /\ Arrives(r)
     /\ IsBlocked(seen, who)
     /\ StoreBecomes(seen)
     /\ UNCHANGED <<users, sessions, request>>

LoginStarts(r, who, name, password) ==
  LET seen == Prune(Store, who)
  IN /\ Arrives(r)
     /\ ~IsBlocked(seen, who)
     /\ StoreBecomes(seen)
     /\ request' = [request EXCEPT ![r] = [Idle EXCEPT !.at = "read", !.who = who, !.name = name,
                                                       !.password = password]]
     /\ UNCHANGED <<users, sessions>>

\* get_admin_user_by_username.
LoginReads(r) ==
  LET ids == {u \in DOMAIN users : users[u].name = request[r].name}
  IN /\ request[r].at = "read"
     /\ request' = [request EXCEPT
          ![r] = IF ids = {} THEN [@ EXCEPT !.at = "verify", !.user = 0]
                 ELSE LET u == CHOOSE u \in ids : TRUE
                      IN [@ EXCEPT !.at = "verify", !.user = u, !.from = users[u].password]]
     /\ UNCHANGED <<window, order, users, sessions, left>>

\* No such user, or another password: the failure is on the client's record.
LoginRefused(r) ==
  /\ request[r].at = "verify"
  /\ request[r].user = 0 \/ request[r].from # request[r].password
  /\ StoreBecomes(RecordFailure(Store, request[r].who))
  /\ Ends(r)
  /\ UNCHANGED <<users, sessions, left>>

LoginVerified(r) ==
  /\ request[r].at = "verify"
  /\ request[r].user # 0 /\ request[r].from = request[r].password
  /\ Goes(r, "stamp")
  /\ UNCHANGED <<window, order, users, sessions, left>>

\* datetime_now_plus_days.
LoginStamps(r) ==
  /\ request[r].at = "stamp"
  /\ request' = [request EXCEPT ![r].at = "insert", ![r].left = SESSION_TTL]
  /\ UNCHANGED <<window, order, users, sessions, left>>

\* insert_admin_session, under a token never seen before.
Session(r) == [user |-> request[r].user, left |-> request[r].left, opened |-> request[r].from,
               excused |-> request[r].excused]

LoginInserts(r) ==
  /\ request[r].at = "insert"
  /\ \E token \in 1..MaxRequests \ DOMAIN sessions :
       sessions' = [t \in DOMAIN sessions \cup {token} |->
                      IF t = token THEN Session(r) ELSE sessions[t]]
  /\ Goes(r, "clear")
  /\ UNCHANGED <<window, order, users, left>>

\* A success clears the client's failures.
Clears(r) ==
  /\ request[r].at = "clear"
  /\ StoreBecomes(Forget(Store, request[r].who))
  /\ Ends(r)
  /\ UNCHANGED <<users, sessions, left>>

\* POST /api/admin/bootstrap: without the secret it counts as a failed login.
BootstrapRefused(r, who) ==
  LET seen == Prune(Store, who)
  IN /\ Arrives(r)
     /\ ~IsBlocked(seen, who)
     /\ StoreBecomes(RecordFailure(seen, who))
     /\ UNCHANGED <<users, sessions, request>>

BootstrapStarts(r, who, name, password) ==
  LET seen == Prune(Store, who)
  IN /\ Arrives(r)
     /\ ~IsBlocked(seen, who)
     /\ StoreBecomes(seen)
     /\ request' = [request EXCEPT ![r] = [Idle EXCEPT !.at = "count", !.who = who, !.name = name,
                                                       !.password = password]]
     /\ UNCHANGED <<users, sessions>>

\* count_admin_users: 409 if there is one.
BootstrapCounts(r) ==
  /\ request[r].at = "count"
  /\ IF users = <<>> THEN Goes(r, "create") ELSE Ends(r)
  /\ UNCHANGED <<window, order, users, sessions, left>>

\* insert_admin_user: a second row of the same name is refused by the table.
BootstrapCreates(r) ==
  /\ request[r].at = "create"
  /\ IF \E u \in DOMAIN users : users[u].name = request[r].name
     THEN Ends(r) /\ UNCHANGED users
     ELSE /\ users' = Append(users, [name |-> request[r].name, password |-> request[r].password])
          /\ Goes(r, "clear")
  /\ UNCHANGED <<window, order, sessions, left>>

\* POST /api/admin/change-password, past require_admin.
ChangeStarts(r, credential, current, new) ==
  /\ Arrives(r)
  /\ Authorized(credential)
  /\ request' = [request EXCEPT ![r] = [Idle EXCEPT !.at = "list", !.password = current, !.new = new,
                                                    !.keep = credential]]
  /\ UNCHANGED <<window, order, users, sessions>>

\* list_admin_users: the first user of that password, if the new one differs.
ChangeLists(r) ==
  LET ids == {u \in DOMAIN users : users[u].password = request[r].password}
  IN /\ request[r].at = "list"
     /\ IF ids = {} \/ request[r].new = request[r].password THEN Ends(r)
        ELSE request' = [request EXCEPT ![r].at = "update",
                                        ![r].user = CHOOSE u \in ids : \A v \in ids : u <= v]
     /\ UNCHANGED <<window, order, users, sessions, left>>

\* update_admin_password_hash.
ChangeUpdates(r) ==
  /\ request[r].at = "update"
  /\ users' = [users EXCEPT ![request[r].user].password = request[r].new]
  /\ Goes(r, "revoke")
  /\ UNCHANGED <<window, order, sessions, left>>

\* Ghost: what was open or about to open when a revocation came, or should have.
Excused(request1) == [x \in Requests |-> [request1[x] EXCEPT !.excused = @ \/ LoggingIn(x)]]

\* Mutant: the comparison is turned round.
ChangeRevokesOwn(r) ==
  /\ request[r].at = "revoke"
  /\ sessions' = [t \in DOMAIN sessions \ {request[r].keep} |-> sessions[t]]
  /\ request' = Excused([request EXCEPT ![r] = Idle])
  /\ UNCHANGED <<window, order, users, left>>

\* revoke_admin_sessions_except: all but the caller's own, if it has one.
ChangeRevokes(r) ==
  /\ request[r].at = "revoke"
  /\ sessions' = [t \in DOMAIN sessions \cap {request[r].keep} |-> [sessions[t] EXCEPT !.excused = TRUE]]
  /\ request' = Excused([request EXCEPT ![r] = Idle])
  /\ UNCHANGED <<window, order, users, left>>

\* POST /api/admin/logout needs no more than the token; DELETE
\* /api/admin/sessions/{id} needs any credential.
Logout(r, token) ==
  /\ Arrives(r)
  /\ sessions' = Restrict(sessions, DOMAIN sessions \ {token})
  /\ UNCHANGED <<window, order, users, request>>

RevokeStarts(r, credential, token) ==
  /\ Arrives(r)
  /\ Authorized(credential)
  /\ request' = [request EXCEPT ![r] = [Idle EXCEPT !.at = "delete", !.keep = token]]
  /\ UNCHANGED <<window, order, users, sessions>>

\* revoke_admin_session.
RevokeDeletes(r) ==
  /\ request[r].at = "delete"
  /\ sessions' = Restrict(sessions, DOMAIN sessions \ {request[r].keep})
  /\ Ends(r)
  /\ UNCHANGED <<window, order, users, left>>

\* A statement fails, or the client leaves, at an await; "clear" is the await
\* whose row is in.
Drop(r) ==
  /\ request[r].at \notin {"idle", "verify"}
  /\ IF request[r].at = "revoke"
     THEN /\ request' = Excused([request EXCEPT ![r] = Idle])
          /\ sessions' = [t \in DOMAIN sessions |-> [sessions[t] EXCEPT !.excused = TRUE]]
     ELSE Ends(r) /\ UNCHANGED sessions
  /\ UNCHANGED <<window, order, users, left>>

\* purge_expired_admin_sessions, from the maintenance tick.
Purge ==
  /\ sessions' = Restrict(sessions, {t \in DOMAIN sessions : sessions[t].left >= 0})
  /\ UNCHANGED <<window, order, users, request, left>>

Older(age)    == IF age < LOGIN_FAILURE_WINDOW THEN age + 1 ELSE age
Shorter(days) == IF days >= 0 THEN days - 1 ELSE days

Tick ==
  /\ window' = [who \in DOMAIN window |-> [i \in DOMAIN window[who] |-> Older(window[who][i])]]
  /\ sessions' = [t \in DOMAIN sessions |-> [sessions[t] EXCEPT !.left = Shorter(@)]]
  /\ request' = [r \in Requests |->
                   [request[r] EXCEPT !.left = IF request[r].at = "insert" THEN Shorter(@) ELSE @]]
  /\ UNCHANGED <<order, users, left>>

AccessNext ==
  \/ \E r \in Requests, who \in Clients :
       \/ Throttled(r, who) \/ BootstrapRefused(r, who)
       \/ \E name \in Names, password \in Passwords :
            LoginStarts(r, who, name, password) \/ BootstrapStarts(r, who, name, password)
  \/ \E r \in Requests :
       \/ LoginReads(r) \/ LoginRefused(r) \/ LoginVerified(r) \/ LoginStamps(r) \/ LoginInserts(r)
       \/ Clears(r) \/ BootstrapCounts(r) \/ BootstrapCreates(r)
       \/ ChangeLists(r) \/ ChangeUpdates(r) \/ ChangeRevokes(r) \/ RevokeDeletes(r) \/ Drop(r)
       \/ \E credential \in Credentials :
            \/ \E current, new \in Passwords : ChangeStarts(r, credential, current, new)
            \/ \E token \in DOMAIN sessions : RevokeStarts(r, credential, token)
       \/ \E token \in DOMAIN sessions : Logout(r, token)
  \/ Purge
  \/ Tick

AccessSpec == AccessInit /\ [][AccessNext]_accessVars

-----------------------------------------------------------------------------
(* Properties.                                                              *)

Recent(who) == {i \in DOMAIN window[who] : window[who][i] < LOGIN_FAILURE_WINDOW}

LockedOut(who) == who \in DOMAIN window /\ Cardinality(Recent(who)) >= LOGIN_FAILURE_LIMIT

StoreIsSound ==
  /\ \A who \in Clients : IsBlocked(Prune(Store, who), who) <=> LockedOut(who)
  /\ Cardinality(DOMAIN window) <= MAX_TRACKED_CLIENTS
  /\ Len(order) = Cardinality(DOMAIN window) /\ Range(order) = DOMAIN window

Releases(who) ==
  \/ Tick
  \/ \E r \in Requests : request[r].at = "clear" /\ request[r].who = who /\ Clears(r)

\* The throttle refuses exactly the clients with a limit's worth of failures in
\* the window, tracks no more clients than it may, and a lockout ends by age or
\* by the client's own success and by nothing else: "a flood of distinct
\* addresses cannot release another client's block" (session.rs).
ThrottleHolds ==
  [][/\ StoreIsSound'
     /\ \A who \in Clients : LockedOut(who) /\ ~LockedOut(who)' => Releases(who)]_accessVars

\* After a change of password no session opened with the old one is left, but
\* the one the change came from, one whose login had read the old row when the
\* revocation came, and those of a change that was cut short between its two
\* statements: "revoke every OTHER session" (session.rs).
RevocationReaches ==
  \A t \in DOMAIN sessions :
    LET s == sessions[t]
    IN s.opened # users[s.user].password =>
         s.excused \/ \E r \in Requests : request[r].at = "revoke"

=============================================================================
