-------------------------- MODULE AdminPlane_proofs --------------------------
(***************************************************************************)
(* Proofs about the administrative plane, for any number of requests,      *)
(* clients, names, passwords, rows, keys and operators: which sessions     *)
(* outlive a change of the password and whom the throttle of failed        *)
(* logins holds (AdminAccess), and how often the daily pass asks a vendor  *)
(* about a key (KeyMaintenance).                                           *)
(***************************************************************************)
EXTENDS KeyMaintenance, AdminAccess, Picks_proofs

-----------------------------------------------------------------------------
(* Sessions and the change of the password.                                *)

Places == {"idle", "read", "verify", "stamp", "insert", "clear", "count", "create",
           "list", "update", "revoke", "delete"}

Texts    == Passwords \cup {"none"}
Users    == [name : Names \cup {"none"}, password : Texts]
Opened   == [user : Nat, left : Int, opened : Texts, excused : BOOLEAN]
Handlers == [at : Places, who : Clients \cup {"none"}, name : Names \cup {"none"},
             password : Texts, new : Texts, user : Nat, from : Texts, left : Int,
             keep : Nat, excused : BOOLEAN]

Types ==
  /\ users \in Seq(Users)
  /\ request \in [Requests -> Handlers]
  /\ sessions \in [DOMAIN sessions -> Opened]
  /\ DOMAIN sessions \subseteq Nat

\* A change of the password has written it and has not revoked yet.
Pending == \E r \in Requests : request[r].at = "revoke"

\* User u's password was x and is it still, or a revocation is under way or has
\* seen this.
Fresh(u, x, excused) ==
  u \in DOMAIN users /\ (x = users[u].password \/ excused \/ Pending)

SessionsAreFresh ==
  \A t \in DOMAIN sessions : Fresh(sessions[t].user, sessions[t].opened, sessions[t].excused)

\* What a handler has read of a user: a login its password, a change its row.
Sound(q) ==
  /\ q.at \in {"stamp", "insert"} => q.user # 0
  /\ q.at \in {"verify", "stamp", "insert"} /\ q.user # 0 => Fresh(q.user, q.from, q.excused)
  /\ q.at = "update" => q.user \in DOMAIN users

HandlersAreSound == \A r \in Requests : Sound(request[r])

IInv == Types /\ SessionsAreFresh /\ HandlersAreSound

\* Ids are numbers, and every row has a name and a password.
LEMMA UserRows ==
  ASSUME IInv
  PROVE  \A u \in DOMAIN users : u \in Nat /\ users[u].password \in Texts
<1>1. \A u \in DOMAIN users : u \in Nat /\ users[u] \in Users
  BY DEF IInv, Types
<1> QED BY <1>1 DEF Users, Texts

-----------------------------------------------------------------------------
\* A handler that is not at its revocation moves on.
LEMMA Moves ==
  ASSUME IInv, UNCHANGED <<users, sessions>>, NEW r \in Requests, NEW q \in Handlers,
         request' = [request EXCEPT ![r] = q], request[r].at # "revoke", Sound(q)
  PROVE  IInv'
<1>1. request' \in [Requests -> Handlers]
  BY DEF IInv, Types
<1>2. Pending => Pending'
  BY DEF Pending, IInv, Types
<1>3. \A x \in Requests : Sound(request'[x])
  BY DEF IInv, Types, HandlersAreSound
<1>4. \A x \in Requests : Sound(request[x])'
  BY <1>2, <1>3 DEF Sound, Fresh
<1>5. SessionsAreFresh'
  BY <1>2 DEF IInv, SessionsAreFresh, Fresh
<1> QED BY <1>1, <1>4, <1>5 DEF IInv, Types, HandlersAreSound

LEMMA IdleSound == Idle \in Handlers /\ Sound(Idle) /\ Idle.at = "idle"
BY DEF Idle, Handlers, Places, Texts, Sound

\* So does one that ends.
LEMMA EndsMoves ==
  ASSUME IInv, UNCHANGED <<users, sessions>>, NEW r \in Requests, Ends(r),
         request[r].at # "revoke"
  PROVE  IInv'
BY Moves, IdleSound DEF Ends

\* Or goes from one statement to the next.
LEMMA GoesMoves ==
  ASSUME IInv, UNCHANGED <<users, sessions>>, NEW r \in Requests, NEW at \in Places,
         Goes(r, at), request[r].at # "revoke", Sound([request[r] EXCEPT !.at = at])
  PROVE  IInv'
<1>1. [request[r] EXCEPT !.at = at] \in Handlers
  BY DEF IInv, Types, Handlers
<1>2. request' = [request EXCEPT ![r] = [request[r] EXCEPT !.at = at]]
  BY DEF Goes
<1> QED BY <1>1, <1>2, Moves

\* Sessions that go or get older, and handlers that are as they were.
LEMMA Fewer ==
  ASSUME IInv, UNCHANGED users, request' \in [Requests -> Handlers],
         \A r \in Requests : /\ request'[r].at = request[r].at
                             /\ request'[r].user = request[r].user
                             /\ request'[r].from = request[r].from
                             /\ request'[r].excused = request[r].excused,
         sessions' \in [DOMAIN sessions' -> Opened],
         DOMAIN sessions' \subseteq DOMAIN sessions,
         \A t \in DOMAIN sessions' : /\ sessions'[t].user = sessions[t].user
                                     /\ sessions'[t].opened = sessions[t].opened
                                     /\ sessions'[t].excused = sessions[t].excused
  PROVE  IInv'
<1>1. Pending' <=> Pending
  BY DEF Pending
<1>2. SessionsAreFresh'
  BY <1>1 DEF IInv, SessionsAreFresh, Fresh
<1>3. ASSUME NEW r \in Requests
      PROVE  Sound(request[r])'
  <2>1. Sound(request[r])
    BY DEF IInv, HandlersAreSound
  <2> QED BY <1>1, <2>1 DEF Sound, Fresh
<1> QED BY <1>2, <1>3 DEF IInv, Types, HandlersAreSound

\* A session may go at any time.
LEMMA Restricted ==
  ASSUME IInv, NEW S, sessions' = Restrict(sessions, S), S \subseteq DOMAIN sessions
  PROVE  /\ sessions' \in [DOMAIN sessions' -> Opened]
         /\ DOMAIN sessions' \subseteq DOMAIN sessions
         /\ \A t \in DOMAIN sessions' : sessions'[t] = sessions[t]
BY DEF IInv, Types, Restrict

LEMMA SessionsGo ==
  ASSUME IInv, UNCHANGED <<users, request>>, NEW S, sessions' = Restrict(sessions, S),
         S \subseteq DOMAIN sessions
  PROVE  IInv'
<1>1. request' \in [Requests -> Handlers]
  BY DEF IInv, Types
<1> QED BY <1>1, Restricted, Fewer

-----------------------------------------------------------------------------
(* One lemma per operation.                                                 *)

\* A request that arrives brings names and passwords and knows no user.
LEMMA StartMoves ==
  ASSUME IInv, UNCHANGED <<users, sessions>>, NEW r \in Requests, request[r].at = "idle",
         NEW q \in Handlers, request' = [request EXCEPT ![r] = q],
         q.at \in {"read", "count", "list", "delete"}
  PROVE  IInv'
BY Moves DEF Sound

LEMMA LoginReadsInv ==
  ASSUME IInv, NEW r \in Requests, LoginReads(r)
  PROVE  IInv'
<1> DEFINE ids == {u \in DOMAIN users : users[u].name = request[r].name}
           u == CHOOSE x \in ids : TRUE
           nobody == [request[r] EXCEPT !.at = "verify", !.user = 0]
           found == [request[r] EXCEPT !.at = "verify", !.user = u, !.from = users[u].password]
<1>1. /\ request[r] \in Handlers /\ request[r].at = "read"
      /\ UNCHANGED <<users, sessions>>
  BY DEF IInv, Types, LoginReads
<1>2. CASE ids = {}
  <2>1. request' = [request EXCEPT ![r] = nobody]
    BY Zenon, <1>2 DEF LoginReads
  <2>2. nobody \in Handlers /\ Sound(nobody)
    BY <1>1 DEF Handlers, Places, Sound
  <2> QED BY <1>1, <2>1, <2>2, Moves
<1>3. CASE ids # {}
  <2>1. request' = [request EXCEPT ![r] = found]
    BY Zenon, <1>3 DEF LoginReads
  <2>2. u \in DOMAIN users
    BY <1>3
  <2>3. users[u].password \in Texts /\ u \in Nat
    BY Zenon, <2>2, UserRows
  <2> HIDE DEF u
  <2>4. found \in Handlers
    BY <1>1, <2>3 DEF Handlers, Places
  <2>5. Sound(found)
    BY <1>1, <2>2, <2>4 DEF Sound, Fresh, Handlers
  <2> QED BY <1>1, <2>1, <2>4, <2>5, Moves
<1> QED BY <1>2, <1>3

LEMMA LoginGoesInv ==
  ASSUME IInv, NEW r \in Requests,
         LoginRefused(r) \/ LoginVerified(r) \/ LoginStamps(r) \/ Clears(r)
  PROVE  IInv'
<1>1. request[r] \in Handlers /\ Sound(request[r])
  BY DEF IInv, Types, HandlersAreSound
<1>2. CASE LoginRefused(r) \/ Clears(r)
  BY <1>2, EndsMoves DEF LoginRefused, Clears
<1>3. CASE LoginVerified(r)
  <2>1. Sound([request[r] EXCEPT !.at = "stamp"])
    BY <1>1, <1>3 DEF LoginVerified, Sound, Handlers
  <2> QED BY <1>3, <2>1, GoesMoves DEF LoginVerified, Places
<1>4. CASE LoginStamps(r)
  <2> DEFINE q == [request[r] EXCEPT !.at = "insert", !.left = SESSION_TTL]
  <2>1. SESSION_TTL \in Int
    BY AccessAssumption
  <2>2. q \in Handlers
    BY <1>1, <2>1 DEF Handlers, Places
  <2>3. Sound(q)
    BY <1>1, <1>4 DEF LoginStamps, Sound, Handlers
  <2>4. request' = [request EXCEPT ![r] = q]
    BY <1>1, <1>4 DEF LoginStamps, IInv, Types
  <2> QED BY <1>4, <2>2, <2>3, <2>4, Moves DEF LoginStamps
<1> QED BY <1>2, <1>3, <1>4

\* The session that is opened is as fresh as the login was.
LEMMA LoginInsertsInv ==
  ASSUME IInv, NEW r \in Requests, LoginInserts(r)
  PROVE  IInv'
<1> DEFINE q == [request[r] EXCEPT !.at = "clear"]
<1>1. /\ request[r] \in Handlers /\ Sound(request[r]) /\ request[r].at = "insert"
      /\ UNCHANGED users
      /\ request' = [request EXCEPT ![r] = q]
  BY DEF IInv, Types, HandlersAreSound, LoginInserts, Goes
<1>2. q \in Handlers /\ Sound(q)
  BY <1>1 DEF Handlers, Places, Sound
<1>3. PICK token \in 1..MaxRequests \ DOMAIN sessions :
        sessions' = [t \in DOMAIN sessions \cup {token} |->
                       IF t = token THEN Session(r) ELSE sessions[t]]
  BY DEF LoginInserts
<1>4. Session(r) \in Opened
  BY <1>1 DEF Session, Opened, Handlers
<1>5. /\ sessions' \in [DOMAIN sessions' -> Opened]
      /\ DOMAIN sessions' \subseteq Nat
  BY <1>3, <1>4, AccessAssumption DEF IInv, Types
<1>6. Pending' <=> Pending
  BY <1>1 DEF Pending, IInv, Types
<1>7. Fresh(Session(r).user, Session(r).opened, Session(r).excused)
  BY <1>1 DEF Sound, Session
<1>8. SessionsAreFresh'
  <2> SUFFICES ASSUME NEW t \in DOMAIN sessions'
               PROVE  Fresh(sessions'[t].user, sessions'[t].opened, sessions'[t].excused)
    BY <1>1, <1>6 DEF SessionsAreFresh, Fresh
  <2>1. CASE t = token
    BY <1>3, <1>7, <2>1
  <2>2. CASE t # token
    BY <1>3, <2>2 DEF IInv, SessionsAreFresh
  <2> QED BY <2>1, <2>2
<1>9. ASSUME NEW x \in Requests
      PROVE  Sound(request[x])'
  <2>1. Sound(request'[x])
    BY <1>1, <1>2 DEF IInv, Types, HandlersAreSound
  <2> QED BY <1>1, <1>6, <2>1 DEF Sound, Fresh
<1>10. request' \in [Requests -> Handlers]
  BY <1>1, <1>2 DEF IInv, Types
<1> QED BY <1>1, <1>5, <1>8, <1>9, <1>10 DEF IInv, Types, HandlersAreSound

LEMMA BootstrapInv ==
  ASSUME IInv, NEW r \in Requests, BootstrapCounts(r) \/ BootstrapCreates(r)
  PROVE  IInv'
<1> DEFINE next(at) == [request[r] EXCEPT !.at = at]
<1>1. request[r] \in Handlers
  BY DEF IInv, Types
<1>2. \A at \in {"create", "clear"} : next(at) \in Handlers /\ Sound(next(at))
  BY <1>1 DEF Handlers, Places, Sound
<1>3. CASE BootstrapCounts(r)
  BY <1>2, <1>3, EndsMoves, GoesMoves DEF BootstrapCounts, Places
<1>4. CASE BootstrapCreates(r) /\ UNCHANGED users
  BY <1>2, <1>4, EndsMoves, GoesMoves DEF BootstrapCreates, Places
<1>5. CASE BootstrapCreates(r) /\ ~UNCHANGED users
  <2> DEFINE new == [name |-> request[r].name, password |-> request[r].password]
  <2>1. /\ users' = Append(users, new)
        /\ request' = [request EXCEPT ![r] = next("clear")]
        /\ request[r].at = "create" /\ UNCHANGED sessions
    BY <1>5 DEF BootstrapCreates, Goes
  <2>2. new \in Users
    BY <1>1 DEF Users, Handlers
  <2>3. /\ users' \in Seq(Users)
        /\ \A u \in DOMAIN users : u \in DOMAIN users' /\ users'[u] = users[u]
    BY <2>1, <2>2 DEF IInv, Types
  <2>4. Pending' <=> Pending
    BY <2>1 DEF Pending, IInv, Types
  <2>5. SessionsAreFresh'
    BY <2>1, <2>3, <2>4 DEF IInv, SessionsAreFresh, Fresh
  <2>6. ASSUME NEW x \in Requests
        PROVE  Sound(request[x])'
    <3>1. Sound(request'[x])
      BY <1>2, <2>1 DEF IInv, Types, HandlersAreSound
    <3> QED BY <2>3, <2>4, <3>1 DEF Sound, Fresh
  <2>7. request' \in [Requests -> Handlers]
    BY <1>2, <2>1 DEF IInv, Types
  <2> QED BY <2>1, <2>3, <2>5, <2>6, <2>7 DEF IInv, Types, HandlersAreSound
<1> QED BY <1>3, <1>4, <1>5

\* A change finds the first user of its password.
LEMMA ChangeListsInv ==
  ASSUME IInv, NEW r \in Requests, ChangeLists(r)
  PROVE  IInv'
<1> DEFINE ids == {u \in DOMAIN users : users[u].password = request[r].password}
           u == CHOOSE x \in ids : \A v \in ids : x <= v
           q == [request[r] EXCEPT !.at = "update", !.user = u]
<1>1. request[r] \in Handlers /\ request[r].at = "list" /\ UNCHANGED <<users, sessions>>
  BY DEF IInv, Types, ChangeLists
<1>2. CASE Ends(r)
  BY <1>1, <1>2, EndsMoves
<1>3. CASE ids # {} /\ ~Ends(r)
  <2>1. request' = [request EXCEPT ![r].at = "update", ![r].user = u]
    BY Zenon, <1>3 DEF ChangeLists
  <2>2. u \in DOMAIN users
    <3>1. ids \subseteq Nat
      BY UserRows
    <3>2. \E x \in ids : \A v \in ids : x <= v
      BY Zenon, <1>3, <3>1, LeastNumber
    <3> QED BY Zenon, <3>2
  <2> HIDE DEF u
  <2>3. request' = [request EXCEPT ![r] = q]
    BY <1>1, <2>1 DEF IInv, Types
  <2>4. q \in Handlers /\ Sound(q)
    BY <1>1, <2>2, UserRows DEF Handlers, Places, Sound
  <2> QED BY <1>1, <2>3, <2>4, Moves
<1> QED BY <1>2, <1>3, Zenon DEF ChangeLists

\* From the new password on a revocation is under way.
LEMMA ChangeUpdatesInv ==
  ASSUME IInv, NEW r \in Requests, ChangeUpdates(r)
  PROVE  IInv'
<1> DEFINE q == [request[r] EXCEPT !.at = "revoke"]
<1>1. /\ request[r] \in Handlers /\ request[r].at = "update"
      /\ request[r].user \in DOMAIN users
      /\ UNCHANGED sessions
      /\ request' = [request EXCEPT ![r] = q]
  BY DEF IInv, Types, HandlersAreSound, Sound, ChangeUpdates, Goes
<1>2. users' \in Seq(Users) /\ DOMAIN users' = DOMAIN users
  <2>1. /\ users[request[r].user] \in Users
        /\ request[r].new \in Texts
    BY <1>1 DEF IInv, Types, Handlers
  <2>2. [users[request[r].user] EXCEPT !.password = request[r].new] \in Users
    BY <2>1 DEF Users
  <2>3. users' = [users EXCEPT ![request[r].user] =
                    [users[request[r].user] EXCEPT !.password = request[r].new]]
    BY DEF ChangeUpdates
  <2> QED BY <1>1, <2>2, <2>3 DEF IInv, Types
<1>3. q \in Handlers
  BY <1>1 DEF Handlers, Places
<1>4. request' \in [Requests -> Handlers]
  BY <1>1, <1>3 DEF IInv, Types
<1>5. Pending'
  BY <1>1 DEF Pending, IInv, Types
<1>6. SessionsAreFresh'
  BY <1>1, <1>2, <1>5 DEF IInv, SessionsAreFresh, Fresh
<1>7. ASSUME NEW x \in Requests
      PROVE  Sound(request[x])'
  <2>1. CASE x = r
    BY <1>1, <1>3, <2>1 DEF Sound, IInv, Types
  <2>2. CASE x # r
    <3>1. request'[x] = request[x] /\ Sound(request[x])
      BY <1>1, <2>2 DEF IInv, Types, HandlersAreSound
    <3> QED BY <1>2, <1>5, <3>1 DEF Sound, Fresh
  <2> QED BY <2>1, <2>2
<1> QED BY <1>1, <1>2, <1>4, <1>6, <1>7 DEF IInv, Types, HandlersAreSound

\* A revocation, or the loss of one, excuses whatever it leaves behind.
LEMMA RevocationInv ==
  ASSUME IInv, UNCHANGED users, NEW r \in Requests, request[r].at = "revoke",
         request' = Excused([request EXCEPT ![r] = Idle]),
         sessions' \in [DOMAIN sessions' -> Opened],
         DOMAIN sessions' \subseteq DOMAIN sessions,
         \A t \in DOMAIN sessions' :
           sessions'[t].user = sessions[t].user /\ sessions'[t].excused
  PROVE  IInv'
<1> DEFINE base == [request EXCEPT ![r] = Idle]
<1>1. /\ base \in [Requests -> Handlers]
      /\ \A x \in Requests : base[x] = IF x = r THEN Idle ELSE request[x]
  BY IdleSound DEF IInv, Types
<1> HIDE DEF base
<1>2. ASSUME NEW x \in Requests
      PROVE  /\ request'[x] \in Handlers
             /\ request'[x].at = base[x].at
             /\ request'[x].user = base[x].user
             /\ LoggingIn(x) => request'[x].excused
  <2>1. request'[x] = [base[x] EXCEPT !.excused = @ \/ LoggingIn(x)]
    BY DEF Excused, base
  <2>2. base[x] \in Handlers
    BY <1>1
  <2>3. LoggingIn(x) \in BOOLEAN
    BY DEF LoggingIn
  <2> QED BY <2>1, <2>2, <2>3 DEF Handlers
<1>3. request' \in [Requests -> Handlers]
  BY <1>2 DEF Excused
<1>4. SessionsAreFresh'
  BY DEF IInv, SessionsAreFresh, Fresh
<1>5. ASSUME NEW x \in Requests
      PROVE  Sound(request[x])'
  <2>1. CASE x = r
    <3>1. request'[x].at = "idle"
      BY <1>1, <1>2, <2>1, IdleSound
    <3> QED BY <3>1 DEF Sound
  <2>2. CASE x # r
    <3>1. base[x] = request[x] /\ Sound(request[x])
      BY <1>1, <2>2 DEF IInv, HandlersAreSound
    <3> QED BY <1>2, <3>1 DEF Sound, Fresh, LoggingIn
  <2> QED BY <2>1, <2>2
<1> QED BY <1>3, <1>4, <1>5 DEF IInv, Types, HandlersAreSound

LEMMA ChangeRevokesInv ==
  ASSUME IInv, NEW r \in Requests, ChangeRevokes(r)
  PROVE  IInv'
<1>1. sessions' = [t \in DOMAIN sessions \cap {request[r].keep} |-> [sessions[t] EXCEPT !.excused = TRUE]]
  BY DEF ChangeRevokes
<1>2. \A t \in DOMAIN sessions :
        LET s == [sessions[t] EXCEPT !.excused = TRUE]
        IN  s \in Opened /\ s.user = sessions[t].user /\ s.excused
  BY DEF IInv, Types, Opened
<1>3. /\ DOMAIN sessions' = DOMAIN sessions \cap {request[r].keep}
      /\ sessions' \in [DOMAIN sessions' -> Opened]
      /\ \A t \in DOMAIN sessions' : sessions'[t].user = sessions[t].user /\ sessions'[t].excused
  BY <1>1, <1>2
<1> QED BY <1>3, RevocationInv DEF ChangeRevokes

LEMMA DropInv ==
  ASSUME IInv, NEW r \in Requests, Drop(r)
  PROVE  IInv'
<1>1. CASE request[r].at # "revoke"
  BY <1>1, EndsMoves DEF Drop
<1>2. CASE request[r].at = "revoke"
  <2>1. sessions' = [t \in DOMAIN sessions |-> [sessions[t] EXCEPT !.excused = TRUE]]
    BY <1>2 DEF Drop
  <2>2. \A t \in DOMAIN sessions :
          LET s == [sessions[t] EXCEPT !.excused = TRUE]
          IN  s \in Opened /\ s.user = sessions[t].user /\ s.excused
    BY DEF IInv, Types, Opened
  <2>3. /\ DOMAIN sessions' = DOMAIN sessions
        /\ sessions' \in [DOMAIN sessions' -> Opened]
        /\ \A t \in DOMAIN sessions' : sessions'[t].user = sessions[t].user /\ sessions'[t].excused
    BY <2>1, <2>2
  <2> QED BY <1>2, <2>3, RevocationInv DEF Drop
<1> QED BY <1>1, <1>2

LEMMA RevokeDeletesInv ==
  ASSUME IInv, NEW r \in Requests, RevokeDeletes(r)
  PROVE  IInv'
<1>1. request[r] \in Handlers /\ request[r].at = "delete" /\ UNCHANGED users
      /\ request' = [request EXCEPT ![r] = Idle]
  BY DEF IInv, Types, RevokeDeletes, Ends
<1>2. /\ sessions' \in [DOMAIN sessions' -> Opened]
      /\ DOMAIN sessions' \subseteq DOMAIN sessions
      /\ \A t \in DOMAIN sessions' : sessions'[t] = sessions[t]
  BY Restricted DEF RevokeDeletes
<1>3. Pending' <=> Pending
  BY <1>1 DEF Pending, Idle, IInv, Types
<1>4. SessionsAreFresh'
  BY <1>1, <1>2, <1>3 DEF IInv, SessionsAreFresh, Fresh
<1>5. ASSUME NEW x \in Requests
      PROVE  Sound(request[x])'
  <2>1. Sound(request'[x])
    BY <1>1, IdleSound DEF IInv, Types, HandlersAreSound
  <2> QED BY <1>1, <1>3, <2>1 DEF Sound, Fresh
<1>6. request' \in [Requests -> Handlers]
  BY <1>1, IdleSound DEF IInv, Types
<1> QED BY <1>1, <1>2, <1>4, <1>5, <1>6 DEF IInv, Types, HandlersAreSound

LEMMA TickInv ==
  ASSUME IInv, Tick
  PROVE  IInv'
<1>1. \A n \in Int : Shorter(n) \in Int
  BY DEF Shorter
<1>2. \A t \in DOMAIN sessions :
        LET s == [sessions[t] EXCEPT !.left = Shorter(sessions[t].left)]
        IN  /\ s \in Opened
            /\ s.user = sessions[t].user /\ s.opened = sessions[t].opened
            /\ s.excused = sessions[t].excused
  BY <1>1 DEF IInv, Types, Opened
<1>3. sessions' = [t \in DOMAIN sessions |-> [sessions[t] EXCEPT !.left = Shorter(sessions[t].left)]]
  BY DEF Tick
<1>4. /\ sessions' \in [DOMAIN sessions' -> Opened]
      /\ DOMAIN sessions' \subseteq DOMAIN sessions
      /\ \A t \in DOMAIN sessions' : /\ sessions'[t].user = sessions[t].user
                                     /\ sessions'[t].opened = sessions[t].opened
                                     /\ sessions'[t].excused = sessions[t].excused
  BY <1>2, <1>3
<1>5. ASSUME NEW r \in Requests
      PROVE  \E n \in Int : request'[r] = [request[r] EXCEPT !.left = n]
  <2> DEFINE n == IF request[r].at = "insert" THEN Shorter(request[r].left) ELSE request[r].left
  <2>1. n \in Int
    BY <1>1 DEF IInv, Types, Handlers
  <2>2. request'[r] = [request[r] EXCEPT !.left = n]
    BY Zenon DEF Tick
  <2> QED BY <2>1, <2>2
<1>6. ASSUME NEW r \in Requests
      PROVE  /\ request'[r] \in Handlers
             /\ request'[r].at = request[r].at
             /\ request'[r].user = request[r].user
             /\ request'[r].from = request[r].from
             /\ request'[r].excused = request[r].excused
  BY <1>5 DEF IInv, Types, Handlers
<1>7. request' \in [Requests -> Handlers]
  BY <1>6 DEF Tick
<1>8. UNCHANGED users
  BY DEF Tick
<1> QED BY <1>4, <1>6, <1>7, <1>8, Fewer
-----------------------------------------------------------------------------
(* Together.                                                                *)

\* Whatever a request brings, it knows no user yet.
LEMMA ArrivalInv ==
  ASSUME IInv, NEW r \in Requests, NEW who \in Clients, NEW name \in Names,
         NEW password \in Passwords,
         LoginStarts(r, who, name, password) \/ BootstrapStarts(r, who, name, password)
  PROVE  IInv'
<1> DEFINE q(at) == [Idle EXCEPT !.at = at, !.who = who, !.name = name, !.password = password]
<1>1. \A at \in {"read", "count"} : q(at) \in Handlers /\ q(at).at = at
  BY IdleSound DEF Handlers, Places, Texts
<1>2. /\ UNCHANGED <<users, sessions>> /\ request[r].at = "idle"
      /\ request' = [request EXCEPT ![r] = q("read")] \/ request' = [request EXCEPT ![r] = q("count")]
  BY DEF LoginStarts, BootstrapStarts, Arrives
<1> HIDE DEF q
<1> QED BY <1>1, <1>2, StartMoves

LEMMA CredentialInv ==
  ASSUME IInv, NEW r \in Requests, NEW credential \in Credentials,
         \/ \E current, new \in Passwords : ChangeStarts(r, credential, current, new)
         \/ \E token \in DOMAIN sessions : RevokeStarts(r, credential, token)
  PROVE  IInv'
<1>1. credential \in Nat
  BY DEF Credentials, IInv, Types
<1>2. ASSUME NEW current \in Passwords, NEW new \in Passwords,
             ChangeStarts(r, credential, current, new)
      PROVE  IInv'
  <2> DEFINE q == [Idle EXCEPT !.at = "list", !.password = current, !.new = new,
                               !.keep = credential]
  <2>1. q \in Handlers /\ q.at = "list"
    BY <1>1, IdleSound DEF Handlers, Places, Texts
  <2>2. /\ UNCHANGED <<users, sessions>> /\ request[r].at = "idle"
        /\ request' = [request EXCEPT ![r] = q]
    BY <1>2 DEF ChangeStarts, Arrives
  <2> HIDE DEF q
  <2> QED BY <2>1, <2>2, StartMoves
<1>3. ASSUME NEW token \in DOMAIN sessions, RevokeStarts(r, credential, token)
      PROVE  IInv'
  <2> DEFINE q == [Idle EXCEPT !.at = "delete", !.keep = token]
  <2>1. q \in Handlers /\ q.at = "delete"
    BY IdleSound DEF Handlers, Places, Texts, IInv, Types
  <2>2. /\ UNCHANGED <<users, sessions>> /\ request[r].at = "idle"
        /\ request' = [request EXCEPT ![r] = q]
    BY <1>3 DEF RevokeStarts, Arrives
  <2> HIDE DEF q
  <2> QED BY <2>1, <2>2, StartMoves
<1> QED BY <1>2, <1>3

\* Steps that leave users, sessions and handlers alone.
LEMMA KeepsInv ==
  ASSUME IInv, UNCHANGED <<users, sessions, request>>
  PROVE  IInv'
BY DEF IInv, Types, SessionsAreFresh, HandlersAreSound, Sound, Fresh, Pending

LEMMA StepInv ==
  ASSUME IInv, [AccessNext]_accessVars
  PROVE  IInv'
<1>1. ASSUME NEW r \in Requests, NEW who \in Clients,
             \/ Throttled(r, who) \/ BootstrapRefused(r, who)
             \/ \E name \in Names, password \in Passwords :
                  LoginStarts(r, who, name, password) \/ BootstrapStarts(r, who, name, password)
      PROVE  IInv'
  <2>1. CASE Throttled(r, who) \/ BootstrapRefused(r, who)
    BY <2>1, KeepsInv DEF Throttled, BootstrapRefused
  <2> QED BY <1>1, <2>1, ArrivalInv
<1>2. ASSUME NEW r \in Requests,
             \/ LoginReads(r) \/ LoginRefused(r) \/ LoginVerified(r) \/ LoginStamps(r)
             \/ LoginInserts(r) \/ Clears(r)
      PROVE  IInv'
  BY <1>2, LoginReadsInv, LoginGoesInv, LoginInsertsInv
<1>3. ASSUME NEW r \in Requests,
             \/ BootstrapCounts(r) \/ BootstrapCreates(r) \/ ChangeLists(r) \/ ChangeUpdates(r)
             \/ ChangeRevokes(r) \/ RevokeDeletes(r) \/ Drop(r)
      PROVE  IInv'
  BY <1>3, BootstrapInv, ChangeListsInv, ChangeUpdatesInv, ChangeRevokesInv, RevokeDeletesInv,
     DropInv
<1>4. ASSUME NEW r \in Requests, NEW token \in DOMAIN sessions, Logout(r, token)
      PROVE  IInv'
  BY <1>4, SessionsGo DEF Logout
<1>5. CASE Purge
  BY <1>5, SessionsGo DEF Purge
<1>6. CASE UNCHANGED accessVars
  BY <1>6, KeepsInv DEF accessVars
<1> QED BY <1>1, <1>2, <1>3, <1>4, <1>5, <1>6, CredentialInv, TickInv DEF AccessNext

LEMMA SpecInv == AccessSpec => []IInv
<1>1. AccessInit => IInv
  BY IdleSound DEF AccessInit, IInv, Types, SessionsAreFresh, HandlersAreSound
<1> QED BY <1>1, StepInv, PTL DEF AccessSpec

\* Once a change of the password has revoked, no session opened with the old
\* one is left but those it could not have met, for any number of users,
\* sessions and requests in any order: "revoke every OTHER session".
THEOREM RevocationsReach == AccessSpec => []RevocationReaches
<1>1. IInv => RevocationReaches
  BY DEF IInv, SessionsAreFresh, Fresh, Pending, RevocationReaches
<1> QED BY <1>1, SpecInv, PTL

-----------------------------------------------------------------------------
(* The throttle.                                                           *)
(*                                                                         *)
(* Tracks is what makes the window and its insertion order one store: the  *)
(* order names every tracked client once, and the ages of a client's       *)
(* failures never rise along its list, so that the newest is the last.     *)

Ages(f) ==
  /\ f \in Seq(0..LOGIN_FAILURE_WINDOW) /\ f # <<>>
  /\ \A i, j \in 1..Len(f) : i < j => f[j] <= f[i]

Tracks(s) ==
  /\ s = [window |-> s.window, order |-> s.order]
  /\ s.window = [x \in DOMAIN s.window |-> s.window[x]]
  /\ s.order \in Seq(DOMAIN s.window)
  /\ \A i, j \in 1..Len(s.order) : s.order[i] = s.order[j] => i = j
  /\ \A x \in DOMAIN s.window : \E i \in 1..Len(s.order) : s.order[i] = x
  /\ \A x \in DOMAIN s.window : Ages(s.window[x])
  /\ Len(s.order) <= MAX_TRACKED_CLIENTS

\* The places of the failures that still count.
Counted(f) == {i \in DOMAIN f : f[i] < LOGIN_FAILURE_WINDOW}

Barred(s, who) ==
  who \in DOMAIN s.window /\ Cardinality(Counted(s.window[who])) >= LOGIN_FAILURE_LIMIT

StoreInv == Tracks(Store)

LEMMA BarredIsLockedOut ==
  ASSUME NEW who
  PROVE  Barred(Store, who) <=> LockedOut(who)
BY DEF Barred, Store, LockedOut, Recent, Counted

\* The order is as long as the window is wide.
LEMMA TrackedCount ==
  ASSUME NEW s, Tracks(s)
  PROVE  /\ IsFiniteSet(DOMAIN s.window)
         /\ Cardinality(DOMAIN s.window) = Len(s.order)
<1> DEFINE n == Len(s.order)
<1>1. n \in Nat /\ s.order \in [1..n -> DOMAIN s.window]
  BY DEF Tracks
<1>2. s.order \in Bijection(1..n, DOMAIN s.window)
  BY <1>1 DEF Tracks, Bijection, Injection, Surjection, IsInjective
<1> HIDE DEF n
<1>3. IsFiniteSet(1..n) /\ Cardinality(1..n) = n
  BY <1>1, FS_Interval
<1>4. ExistsBijection(1..n, DOMAIN s.window)
  BY <1>2 DEF ExistsBijection
<1> QED BY <1>3, <1>4, FS_Bijection, FS_SameCardinalityBij DEF n

\* The places of a list are no more than its length.
LEMMA PlacesCount ==
  ASSUME NEW n \in Nat, NEW I, I \subseteq 1..n
  PROVE  IsFiniteSet(I) /\ Cardinality(I) \in Nat /\ Cardinality(I) <= n
<1>1. IsFiniteSet(1..n) /\ Cardinality(1..n) = n
  BY FS_Interval
<1>2. I \in SUBSET (1..n)
  OBVIOUS
<1>3. IsFiniteSet(I) /\ Cardinality(I) <= Cardinality(1..n)
  BY <1>1, <1>2, FS_Subset, Zenon
<1> QED BY <1>1, <1>3, FS_CardinalityType

\* What is left of a client's failures when the lapsed ones go.
LEMMA PrunedAges ==
  ASSUME NEW f, Ages(f)
  PROVE  LET recent == Picked(f, Counted(f))
         IN /\ Cardinality(Counted(f)) \in Nat
            /\ Len(recent) = Cardinality(Counted(f))
            /\ recent = <<>> <=> Cardinality(Counted(f)) = 0
            /\ recent # <<>> => Ages(recent)
            /\ Counted(recent) = DOMAIN recent
            /\ Cardinality(Counted(recent)) = Cardinality(Counted(f))
<1> DEFINE A == 0..LOGIN_FAILURE_WINDOW
           I == Counted(f)
           c == Cardinality(I)
           g == Picked(f, I)
<1>1. f \in Seq(A) /\ Len(f) \in Nat /\ DOMAIN f = 1..Len(f) /\ I \subseteq DOMAIN f
  BY DEF Ages, Counted
<1>2. c \in Nat
  BY <1>1, PlacesCount
<1>3. PICK at \in [1..c -> I] : /\ g \in Seq(A) /\ Len(g) = c
                                /\ Ascends(at, c)
                                /\ \A k \in 1..c : g[k] = f[at[k]]
  BY <1>1, PickedIs
<1>4. \A i \in I : i \in 1..Len(f) /\ f[i] < LOGIN_FAILURE_WINDOW
  BY <1>1 DEF Counted
<1> HIDE DEF A, I, c, g
<1>5. DOMAIN g = 1..c
  BY <1>2, <1>3
<1>6. \A k \in 1..c : g[k] < LOGIN_FAILURE_WINDOW
  BY <1>3, <1>4
<1>7. \A i, j \in 1..c : i < j => g[j] <= g[i]
  BY <1>3, <1>4 DEF Ages, Ascends
<1>8. Counted(g) = DOMAIN g
  BY <1>5, <1>6 DEF Counted
<1>9. Cardinality(DOMAIN g) = c
  BY <1>2, <1>5, FS_Interval
<1>10. g = <<>> <=> c = 0
  BY <1>2, <1>3
<1>11. g # <<>> => Ages(g)
  BY <1>3, <1>7 DEF Ages, A
<1> QED BY <1>2, <1>3, <1>8, <1>9, <1>10, <1>11 DEF c, I, g

\* Whoever is taken off the window is taken off the order.
LEMMA KeptTracks ==
  ASSUME NEW s, Tracks(s), NEW gone
  PROVE  /\ Tracks(Kept(s, gone))
         /\ DOMAIN Kept(s, gone).window = DOMAIN s.window \ gone
         /\ \A x \in DOMAIN s.window \ gone : Kept(s, gone).window[x] = s.window[x]
<1> DEFINE D == DOMAIN s.window
           I == {i \in DOMAIN s.order : s.order[i] \notin gone}
           c == Cardinality(I)
           w == Restrict(s.window, D \ gone)
           o == Picked(s.order, I)
<1>1. s.order \in Seq(D) /\ Len(s.order) \in Nat /\ DOMAIN s.order = 1..Len(s.order)
  BY DEF Tracks
<1>2. I \subseteq 1..Len(s.order) /\ I \subseteq DOMAIN s.order
  BY <1>1
<1>3. c \in Nat /\ c <= Len(s.order)
  BY <1>1, <1>2, PlacesCount
<1>4. PICK at \in [1..c -> I] : /\ o \in Seq(D) /\ Len(o) = c
                                /\ Ascends(at, c)
                                /\ \A k \in 1..c : o[k] = s.order[at[k]]
                                /\ \A i \in I : \E k \in 1..c : at[k] = i
  <2> DEFINE q == s.order
  <2> HIDE DEF D, I, q
  <2>1. q \in Seq(D) /\ I \subseteq DOMAIN q
    BY <1>1, <1>2 DEF q
  <2>2. /\ Picked(q, I) \in Seq(D) /\ Len(Picked(q, I)) = Cardinality(I)
        /\ \E at \in [1..Cardinality(I) -> I] :
              /\ Ascends(at, Cardinality(I))
              /\ \A k \in 1..Cardinality(I) : Picked(q, I)[k] = q[at[k]]
              /\ \A i \in I : \E k \in 1..Cardinality(I) : at[k] = i
    BY <2>1, PickedIs
  <2> QED BY <2>2, Zenon DEF q
<1>5. \A i \in I : i \in 1..Len(s.order) /\ s.order[i] \in D \ gone
  BY <1>1
<1>6. \A i \in 1..Len(s.order) : s.order[i] \notin gone => i \in I
  BY <1>1
<1>7. /\ DOMAIN w = D \ gone
      /\ w = [x \in D \ gone |-> s.window[x]]
  BY DEF Restrict
<1>8. Kept(s, gone) = [window |-> w, order |-> o]
  BY DEF Kept, Without
<1> HIDE DEF I, c, w, o, D
<1>9. o \in Seq(D \ gone)
  <2>1. \A k \in 1..c : o[k] \in D \ gone
    BY <1>4, <1>5
  <2>2. o \in [1..c -> D \ gone]
    BY <1>3, <1>4, <2>1
  <2> QED BY <1>3, <2>2
<1>10. ASSUME NEW i \in 1..c, NEW j \in 1..c, o[i] = o[j]
       PROVE  i = j
  <2>1. at[i] = at[j]
    BY <1>4, <1>5, <1>10 DEF Tracks
  <2>2. at[i] \in Nat /\ at[j] \in Nat
    BY <1>1, <1>2, <1>4
  <2>3. ~(i < j) /\ ~(j < i)
    BY <1>4, <2>1, <2>2 DEF Ascends
  <2> QED BY <1>3, <2>3
<1>11. ASSUME NEW x \in D \ gone
       PROVE  \E k \in 1..c : o[k] = x
  <2>1. PICK i \in 1..Len(s.order) : s.order[i] = x
    BY DEF Tracks, D
  <2>2. PICK k \in 1..c : at[k] = i
    BY <1>4, <1>6, <1>11, <2>1
  <2> QED BY <1>4, <2>1, <2>2
<1>12. \A x \in D \ gone : w[x] = s.window[x] /\ Ages(w[x])
  BY <1>7 DEF Tracks, D
<1>13. Len(o) <= MAX_TRACKED_CLIENTS
  BY <1>1, <1>3, <1>4, AccessAssumption DEF Tracks
<1>14. Tracks([window |-> w, order |-> o])
  BY <1>4, <1>7, <1>9, <1>10, <1>11, <1>12, <1>13 DEF Tracks
<1> QED BY <1>7, <1>8, <1>12, <1>14 DEF D

\* A step of the store that holds it together and lets nobody in.
Follows(s, t) == Tracks(t) /\ \A who : Barred(s, who) => Barred(t, who)

LEMMA KeptFollows ==
  ASSUME NEW s, Tracks(s), NEW gone, \A who \in gone : ~Barred(s, who)
  PROVE  Follows(s, Kept(s, gone))
BY KeptTracks DEF Follows, Barred

LEMMA FollowsItself ==
  ASSUME NEW s, Tracks(s)
  PROVE  Follows(s, s)
BY DEF Follows

LEMMA FollowsOn ==
  ASSUME NEW s, NEW t, NEW u, Follows(s, t), Follows(t, u)
  PROVE  Follows(s, u)
BY DEF Follows

\* A tracked client gets another list of failures.
LEMMA ListTracks ==
  ASSUME NEW s, Tracks(s), NEW who \in DOMAIN s.window, NEW f, Ages(f)
  PROVE  LET t == [s EXCEPT !.window[who] = f]
         IN /\ Tracks(t)
            /\ DOMAIN t.window = DOMAIN s.window
            /\ t.window[who] = f
            /\ \A x \in DOMAIN s.window : x # who => t.window[x] = s.window[x]
<1> DEFINE w == [s.window EXCEPT ![who] = f]
<1>1. [s EXCEPT !.window[who] = f] = [window |-> w, order |-> s.order]
  <2>1. s = [window |-> s.window, order |-> s.order]
    BY DEF Tracks
  <2> QED BY <2>1
<1>2. /\ DOMAIN w = DOMAIN s.window
      /\ w[who] = f
      /\ \A x \in DOMAIN s.window : x # who => w[x] = s.window[x]
      /\ w = [x \in DOMAIN w |-> w[x]]
  OBVIOUS
<1> HIDE DEF w
<1>3. Tracks([window |-> w, order |-> s.order])
  BY <1>2 DEF Tracks
<1> QED BY <1>1, <1>2, <1>3

-----------------------------------------------------------------------------
(* prune, sweep_expired, evict_if_full and record_failure.                 *)

\* A pruned client is blocked exactly if enough of its failures still count.
LEMMA PruneIs ==
  ASSUME NEW s, Tracks(s), NEW who
  PROVE  /\ Follows(s, Prune(s, who))
         /\ IsBlocked(Prune(s, who), who) <=> Barred(s, who)
<1> DEFINE f == s.window[who]
           g == Picked(f, Counted(f))
<1>1. CASE who \notin DOMAIN s.window
  <2>1. Prune(s, who) = s
    BY <1>1, Zenon DEF Prune
  <2> QED BY <1>1, <2>1, FollowsItself DEF IsBlocked, Barred
<1>2. CASE who \in DOMAIN s.window
  <2>1. Ages(f)
    BY <1>2 DEF Tracks
  <2>2. /\ Len(g) = Cardinality(Counted(f)) /\ Cardinality(Counted(f)) \in Nat
        /\ g = <<>> <=> Cardinality(Counted(f)) = 0
        /\ g # <<>> => Ages(g)
        /\ Cardinality(Counted(g)) = Cardinality(Counted(f))
    <3> HIDE DEF f
    <3> QED BY <2>1, PrunedAges
  <2>3. CASE g = <<>>
    <3>1. Prune(s, who) = Kept(s, {who})
      BY <1>2, <2>3, Zenon DEF Prune, Counted
    <3>2. ~Barred(s, who)
      BY <2>2, <2>3, AccessAssumption DEF Barred
    <3>3. who \notin DOMAIN Kept(s, {who}).window
      BY KeptTracks
    <3> HIDE DEF g, f
    <3> QED BY <3>1, <3>2, <3>3, KeptFollows DEF IsBlocked
  <2>4. CASE g # <<>>
    <3> DEFINE t == [s EXCEPT !.window[who] = g]
    <3>1. Prune(s, who) = t
      BY <1>2, <2>4, Zenon DEF Prune, Counted
    <3>2. Ages(g)
      BY <2>2, <2>4
    <3>3. /\ Tracks(t)
          /\ DOMAIN t.window = DOMAIN s.window
          /\ t.window[who] = g
          /\ \A x \in DOMAIN s.window : x # who => t.window[x] = s.window[x]
      <4> HIDE DEF g
      <4> QED BY <1>2, <3>2, ListTracks
    <3> HIDE DEF g, t
    <3>4. \A x : Barred(s, x) => Barred(t, x)
      BY <2>2, <3>3 DEF Barred
    <3>5. IsBlocked(t, who) <=> Barred(s, who)
      BY <1>2, <2>2, <3>3 DEF IsBlocked, Barred
    <3> QED BY <3>1, <3>3, <3>4, <3>5 DEF Follows
  <2> QED BY <2>3, <2>4
<1> QED BY <1>1, <1>2

\* The newest failure is the last: if it has lapsed, all have.
LEMMA LapsedIsLoose ==
  ASSUME NEW s, Tracks(s), NEW who \in DOMAIN s.window, Lapsed(s.window[who])
  PROVE  ~Barred(s, who)
<1> DEFINE f == s.window[who]
<1>1. Ages(f)
  BY DEF Tracks
<1>2. Lapsed(f)
  OBVIOUS
<1> HIDE DEF f
<1>3. /\ Len(f) \in Nat \ {0} /\ DOMAIN f = 1..Len(f)
      /\ \A i \in 1..Len(f) : f[i] \in 0..LOGIN_FAILURE_WINDOW
  <2> DEFINE A == 0..LOGIN_FAILURE_WINDOW
  <2>1. f \in Seq(A) /\ f # <<>>
    BY <1>1 DEF Ages
  <2> HIDE DEF A
  <2>2. /\ Len(f) \in Nat \ {0} /\ DOMAIN f = 1..Len(f)
        /\ \A i \in 1..Len(f) : f[i] \in A
    BY <2>1
  <2> QED BY <2>2 DEF A
<1>4. ASSUME NEW i \in 1..Len(f)
      PROVE  ~(f[i] < LOGIN_FAILURE_WINDOW)
  <2>1. f[Len(f)] <= f[i]
    BY <1>1, <1>3 DEF Ages
  <2> QED BY <1>2, <1>3, <2>1, AccessAssumption DEF Lapsed
<1>5. Counted(f) = {}
  BY <1>3, <1>4 DEF Counted
<1> QED BY <1>5, FS_EmptySet, AccessAssumption DEF Barred, f

LEMMA SweepFollows ==
  ASSUME NEW s, Tracks(s)
  PROVE  Follows(s, SweepExpired(s))
<1> DEFINE gone == {who \in DOMAIN s.window : Lapsed(s.window[who])}
<1>1. \A who \in gone : ~Barred(s, who)
  BY LapsedIsLoose
<1>2. SweepExpired(s) = Kept(s, gone)
  BY DEF SweepExpired
<1> HIDE DEF gone
<1> QED BY <1>1, <1>2, KeptFollows

\* Nobody that is locked out is a victim.
LEMMA VictimIsLoose ==
  ASSUME NEW s, Tracks(s), Victims(s) # <<>>
  PROVE  ~Barred(s, Victims(s)[1])
<1> DEFINE Loose(who) == Len(s.window[who]) < LOGIN_FAILURE_LIMIT \/ Lapsed(s.window[who])
           I == {i \in DOMAIN s.order : Loose(s.order[i])}
           q == s.order
<1>1. /\ q \in Seq(DOMAIN s.window) /\ I \subseteq DOMAIN q
      /\ \A i \in I : Loose(q[i]) /\ q[i] \in DOMAIN s.window
  BY DEF Tracks
<1>2. Victims(s) = Picked(q, I)
  BY DEF Victims
<1>3. PICK i \in I : Picked(q, I)[1] = q[i]
  <2> HIDE DEF I, q
  <2>1. /\ Picked(q, I) \in Seq(DOMAIN s.window) /\ Len(Picked(q, I)) = Cardinality(I)
        /\ \E at \in [1..Cardinality(I) -> I] :
              \A k \in 1..Cardinality(I) : Picked(q, I)[k] = q[at[k]]
    BY <1>1, PickedIs
  <2>2. 1 \in 1..Cardinality(I)
    BY <1>2, <2>1
  <2> QED BY <2>1, <2>2
<1> DEFINE who == q[i]
<1>4. who \in DOMAIN s.window /\ Loose(who)
  BY <1>1, <1>3
<1>5. CASE Len(s.window[who]) < LOGIN_FAILURE_LIMIT
  <2> DEFINE f == s.window[who]
  <2>1. Ages(f)
    BY <1>4 DEF Tracks
  <2>2. Len(f) < LOGIN_FAILURE_LIMIT
    BY <1>5
  <2> HIDE DEF f
  <2>3. Len(f) \in Nat /\ Counted(f) \subseteq 1..Len(f)
    BY <2>1 DEF Ages, Counted
  <2>4. Cardinality(Counted(f)) \in Nat /\ Cardinality(Counted(f)) <= Len(f)
    BY <2>3, PlacesCount
  <2>5. ~(Cardinality(Counted(f)) >= LOGIN_FAILURE_LIMIT)
    BY <2>2, <2>3, <2>4, AccessAssumption
  <2> QED BY <1>2, <1>3, <2>5 DEF Barred, f
<1>6. CASE Lapsed(s.window[who])
  BY <1>2, <1>3, <1>4, <1>6, LapsedIsLoose
<1> QED BY <1>4, <1>5, <1>6

LEMMA EvictFollows ==
  ASSUME NEW s, Tracks(s), NEW who
  PROVE  Follows(s, EvictIfFull(s, who))
<1> DEFINE swept == SweepExpired(s)
           v == Victims(swept)
<1>1. Follows(s, swept) /\ Tracks(swept)
  BY SweepFollows DEF Follows
<1> HIDE DEF swept
<1>2. CASE ~Full(s, who)
  <2>1. EvictIfFull(s, who) = s
    BY <1>2, Zenon DEF EvictIfFull
  <2> QED BY <2>1, FollowsItself
<1>3. CASE Full(s, who) /\ Full(swept, who) /\ v # <<>>
  <2>1. EvictIfFull(s, who) = Kept(swept, {v[1]})
    BY <1>3, Zenon DEF EvictIfFull, swept
  <2>2. \A x \in {v[1]} : ~Barred(swept, x)
    BY <1>1, <1>3, VictimIsLoose
  <2>3. Follows(swept, Kept(swept, {v[1]}))
    BY <1>1, <2>2, KeptFollows
  <2> QED BY <1>1, <2>1, <2>3, FollowsOn
<1>4. CASE Full(s, who) /\ ~(Full(swept, who) /\ v # <<>>)
  <2>1. EvictIfFull(s, who) = swept
    BY <1>4, Zenon DEF EvictIfFull, swept
  <2> QED BY <1>1, <2>1
<1> QED BY <1>2, <1>3, <1>4

\* One more failure of a client that is tracked.
LEMMA AppendedAges ==
  ASSUME NEW f, Ages(f)
  PROVE  /\ Ages(Append(f, 0))
         /\ Cardinality(Counted(Append(f, 0))) \in Nat
         /\ Cardinality(Counted(f)) \in Nat
         /\ Cardinality(Counted(f)) <= Cardinality(Counted(Append(f, 0)))
<1> DEFINE A == 0..LOGIN_FAILURE_WINDOW
           g == Append(f, 0)
<1>1. f \in Seq(A) /\ 0 \in A
  BY AccessAssumption DEF Ages
<1>2. \A i \in 1..Len(f) : 0 <= f[i]
  <2> HIDE DEF A
  <2>1. \A i \in 1..Len(f) : f[i] \in A
    BY <1>1
  <2> QED BY <2>1 DEF A
<1> HIDE DEF A
<1>3. /\ g \in Seq(A) /\ g # <<>> /\ Len(g) = Len(f) + 1 /\ Len(f) \in Nat
      /\ \A i \in 1..Len(f) : g[i] = f[i]
      /\ g[Len(f) + 1] = 0
  BY <1>1
<1> HIDE DEF g
<1>4. ASSUME NEW i \in 1..Len(g), NEW j \in 1..Len(g), i < j
      PROVE  g[j] <= g[i]
  <2>1. i \in 1..Len(f)
    BY <1>3, <1>4
  <2>2. CASE j \in 1..Len(f)
    BY <1>3, <1>4, <2>1, <2>2 DEF Ages
  <2>3. CASE j = Len(f) + 1
    BY <1>2, <1>3, <2>1, <2>3
  <2> QED BY <1>3, <2>2, <2>3
<1>5. Ages(g)
  BY <1>3, <1>4 DEF Ages, A
<1>6. DOMAIN f = 1..Len(f) /\ DOMAIN g = 1..Len(g)
  BY <1>1, <1>3
<1>7. Counted(f) \subseteq Counted(g) /\ Counted(g) \subseteq 1..Len(g) /\ Len(g) \in Nat
  BY <1>3, <1>6 DEF Counted
<1>8. IsFiniteSet(Counted(g)) /\ Cardinality(Counted(g)) \in Nat
  BY <1>7, PlacesCount
<1>9. Cardinality(Counted(f)) <= Cardinality(Counted(g))
  BY <1>7, <1>8, FS_Subset, Zenon
<1>10. Cardinality(Counted(f)) \in Nat
  BY <1>3, <1>6, PlacesCount DEF Counted
<1> QED BY <1>5, <1>8, <1>9, <1>10 DEF g

\* A client's first failure, where there is room for it.
LEMMA FirstFailure ==
  ASSUME NEW s, Tracks(s), NEW who, who \notin DOMAIN s.window, ~Full(s, who)
  PROVE  LET t == [window |-> [x \in DOMAIN s.window \cup {who} |->
                                  IF x = who THEN <<0>> ELSE s.window[x]],
                   order  |-> Append(s.order, who)]
         IN  Follows(s, t)
<1> DEFINE D == DOMAIN s.window
           w == [x \in D \cup {who} |-> IF x = who THEN <<0>> ELSE s.window[x]]
           o == Append(s.order, who)
           n == Len(s.order)
<1>1. s.order \in Seq(D) /\ n \in Nat
  BY DEF Tracks
<1>2. n < MAX_TRACKED_CLIENTS
  <2>1. Cardinality(D) = n
    BY TrackedCount
  <2>2. ~(Cardinality(D) >= MAX_TRACKED_CLIENTS)
    BY DEF Full
  <2> QED BY <1>1, <2>1, <2>2, AccessAssumption
<1>3. /\ DOMAIN w = D \cup {who} /\ w[who] = <<0>>
      /\ \A x \in D : w[x] = s.window[x]
      /\ w = [x \in D \cup {who} |-> w[x]]
  OBVIOUS
<1>4. /\ o \in Seq(D \cup {who}) /\ Len(o) = n + 1
      /\ \A i \in 1..n : o[i] = s.order[i] /\ o[i] \in D
      /\ o[n + 1] = who
  <2>1. s.order \in Seq(D \cup {who})
    BY <1>1
  <2> QED BY <1>1, <2>1
<1>5. Ages(<<0>>)
  <2>1. 0 \in 0..LOGIN_FAILURE_WINDOW
    BY AccessAssumption
  <2>2. <<0>> \in Seq(0..LOGIN_FAILURE_WINDOW) /\ Len(<<0>>) = 1
    BY <2>1
  <2> QED BY <2>2 DEF Ages
<1>6. ASSUME NEW i \in 1..Len(o), NEW j \in 1..Len(o), o[i] = o[j]
      PROVE  i = j
  <2>1. \A a, b \in 1..n : s.order[a] = s.order[b] => a = b
    BY DEF Tracks
  <2> HIDE DEF o, D, n
  <2> QED BY <1>1, <1>4, <1>6, <2>1 DEF D
<1>7. \A x \in D \cup {who} : \E i \in 1..Len(o) : o[i] = x
  <2>1. \A x \in D : \E i \in 1..n : s.order[i] = x
    BY DEF Tracks
  <2>2. 1..n \subseteq 1..Len(o) /\ n + 1 \in 1..Len(o)
    BY <1>1, <1>4
  <2> HIDE DEF o, D, n
  <2> QED BY <1>4, <2>1, <2>2
<1>8. \A x \in D \cup {who} : Ages(w[x])
  BY <1>3, <1>5 DEF Tracks
<1> HIDE DEF w, o
<1>9. Tracks([window |-> w, order |-> o])
  <2>1. Len(o) <= MAX_TRACKED_CLIENTS
    BY <1>1, <1>2, <1>4, AccessAssumption
  <2>2. w = [x \in DOMAIN w |-> w[x]] /\ o \in Seq(DOMAIN w)
    BY <1>3, <1>4
  <2>3. /\ \A x \in DOMAIN w : \E i \in 1..Len(o) : o[i] = x
        /\ \A x \in DOMAIN w : Ages(w[x])
    BY <1>3, <1>7, <1>8
  <2> QED BY <1>6, <2>1, <2>2, <2>3 DEF Tracks
<1>10. \A x : Barred(s, x) => Barred([window |-> w, order |-> o], x)
  BY <1>3 DEF Barred
<1> QED BY <1>9, <1>10 DEF Follows, w, o

LEMMA RecordFollows ==
  ASSUME NEW s, Tracks(s), NEW who
  PROVE  Follows(s, RecordFailure(s, who))
<1> DEFINE room == EvictIfFull(Prune(s, who), who)
<1>1. Follows(s, room) /\ Tracks(room)
  BY PruneIs, EvictFollows, FollowsOn DEF Follows
<1> HIDE DEF room
<1>2. CASE Full(room, who)
  <2>1. RecordFailure(s, who) = room
    BY <1>2, Zenon DEF RecordFailure, room, Full
  <2> QED BY <1>1, <2>1
<1>3. CASE ~Full(room, who) /\ who \in DOMAIN room.window
  <2> DEFINE f == room.window[who]
             t == [room EXCEPT !.window[who] = Append(f, 0)]
  <2>1. RecordFailure(s, who) = t
    BY <1>3, Zenon DEF RecordFailure, room
  <2>2. Ages(f)
    BY <1>1, <1>3 DEF Tracks
  <2>3. /\ Ages(Append(f, 0))
        /\ Cardinality(Counted(Append(f, 0))) \in Nat
        /\ Cardinality(Counted(f)) \in Nat
        /\ Cardinality(Counted(f)) <= Cardinality(Counted(Append(f, 0)))
    <3> HIDE DEF f
    <3> QED BY <2>2, AppendedAges
  <2>4. /\ Tracks(t)
        /\ DOMAIN t.window = DOMAIN room.window
        /\ t.window[who] = Append(f, 0)
        /\ \A x \in DOMAIN room.window : x # who => t.window[x] = room.window[x]
    <3> DEFINE g == Append(f, 0)
    <3>1. Ages(g)
      BY <2>3
    <3> HIDE DEF g
    <3>2. LET u == [room EXCEPT !.window[who] = g]
          IN /\ Tracks(u)
             /\ DOMAIN u.window = DOMAIN room.window
             /\ u.window[who] = g
             /\ \A x \in DOMAIN room.window : x # who => u.window[x] = room.window[x]
      BY <1>1, <1>3, <3>1, ListTracks
    <3> QED BY <3>2, Zenon DEF g
  <2> HIDE DEF t
  <2>5. ASSUME NEW x, Barred(room, x)
        PROVE  Barred(t, x)
    <3>1. CASE x = who
      <4>1. Cardinality(Counted(f)) >= LOGIN_FAILURE_LIMIT
        BY <2>5, <3>1 DEF Barred
      <4>2. Cardinality(Counted(Append(f, 0))) >= LOGIN_FAILURE_LIMIT
        <5> HIDE DEF f
        <5> QED BY <2>3, <4>1, AccessAssumption
      <4> HIDE DEF f
      <4> QED BY <1>3, <2>4, <3>1, <4>2 DEF Barred
    <3>2. CASE x # who
      BY <2>4, <2>5, <3>2 DEF Barred
    <3> QED BY <3>1, <3>2
  <2>6. Follows(room, t)
    BY <2>4, <2>5 DEF Follows
  <2> QED BY <1>1, <2>1, <2>6, FollowsOn
<1>4. CASE ~Full(room, who) /\ who \notin DOMAIN room.window
  <2> DEFINE t == [window |-> [x \in DOMAIN room.window \cup {who} |->
                                  IF x = who THEN <<0>> ELSE room.window[x]],
                   order  |-> Append(room.order, who)]
  <2>1. RecordFailure(s, who) = t
    BY <1>4, Zenon DEF RecordFailure, room
  <2>2. Follows(room, t)
    BY <1>1, <1>4, FirstFailure
  <2> HIDE DEF t
  <2> QED BY <1>1, <2>1, <2>2, FollowsOn
<1> QED BY <1>2, <1>3, <1>4

-----------------------------------------------------------------------------
(* The store along a behaviour.                                            *)

LEMMA ForgetTracks ==
  ASSUME NEW s, Tracks(s), NEW who
  PROVE  /\ Tracks(Forget(s, who))
         /\ \A x : x # who /\ Barred(s, x) => Barred(Forget(s, who), x)
BY KeptTracks DEF Forget, Barred

LEMMA StoreIs ==
  ASSUME NEW s, StoreBecomes(s), Tracks(s)
  PROVE  Store' = s
BY DEF StoreBecomes, Store, Tracks

\* A store that follows lets nobody in.
LEMMA FollowsStep ==
  ASSUME NEW s, StoreBecomes(s), Follows(Store, s)
  PROVE  StoreInv' /\ \A who \in Clients : LockedOut(who) => LockedOut(who)'
<1>1. Store' = s
  BY StoreIs DEF Follows
<1>2. StoreInv'
  BY <1>1 DEF StoreInv, Follows, Tracks, Ages
<1>3. ASSUME NEW who \in Clients, LockedOut(who)
      PROVE  LockedOut(who)'
  <2>1. Barred(s, who)
    BY <1>3, BarredIsLockedOut DEF Follows
  <2> QED BY <1>1, <2>1 DEF Barred, Store, LockedOut, Recent, Counted
<1> QED BY <1>2, <1>3

LEMMA OlderAges ==
  ASSUME NEW f, Ages(f)
  PROVE  Ages([i \in DOMAIN f |-> Older(f[i])])
<1> DEFINE A == 0..LOGIN_FAILURE_WINDOW
           g == [i \in DOMAIN f |-> Older(f[i])]
<1>1. \A a \in A : Older(a) \in A
  BY AccessAssumption DEF Older
<1>2. \A a, b \in A : b <= a => Older(b) <= Older(a)
  BY AccessAssumption DEF Older
<1> HIDE DEF A
<1>3. f \in Seq(A) /\ f # <<>>
  BY DEF Ages, A
<1>4. /\ Len(f) \in Nat /\ Len(f) # 0 /\ DOMAIN f = 1..Len(f)
      /\ \A i \in 1..Len(f) : f[i] \in A
  BY <1>3
<1>5. g \in [1..Len(f) -> A] /\ \A i \in 1..Len(f) : g[i] = Older(f[i])
  BY <1>1, <1>4
<1> HIDE DEF g
<1>6. g \in Seq(A) /\ Len(g) = Len(f) /\ g # <<>>
  BY <1>4, <1>5
<1>7. \A i, j \in 1..Len(f) : i < j => g[j] <= g[i]
  BY <1>2, <1>4, <1>5 DEF Ages
<1> QED BY <1>6, <1>7 DEF Ages, A, g

LEMMA TickTracks ==
  ASSUME StoreInv, Tick
  PROVE  StoreInv'
<1> DEFINE w == [who \in DOMAIN window |-> [i \in DOMAIN window[who] |-> Older(window[who][i])]]
<1>1. window' = w /\ order' = order
  BY DEF Tick
<1>2. DOMAIN w = DOMAIN window /\ w = [x \in DOMAIN w |-> w[x]]
  OBVIOUS
<1>3. \A x \in DOMAIN window : Ages(w[x])
  <2> SUFFICES ASSUME NEW x \in DOMAIN window PROVE Ages(w[x])
    OBVIOUS
  <2> DEFINE f == window[x]
  <2>1. Ages(f)
    BY DEF StoreInv, Tracks, Store
  <2>2. w[x] = [i \in DOMAIN f |-> Older(f[i])]
    OBVIOUS
  <2> HIDE DEF f
  <2> QED BY <2>1, <2>2, OlderAges
<1> HIDE DEF w
<1>4. Tracks([window |-> w, order |-> order])
  BY <1>2, <1>3 DEF StoreInv, Tracks, Store
<1> QED BY <1>1, <1>4 DEF StoreInv, Tracks, Store, Ages

\* Every step keeps the store together, and one that lets a client in is the
\* clock's or that client's own.
LEMMA ThrottleStep ==
  ASSUME StoreInv, [AccessNext]_accessVars
  PROVE  /\ StoreInv'
         /\ \A who \in Clients : LockedOut(who) /\ ~LockedOut(who)' => Releases(who)
<1> DEFINE Holds == \A who \in Clients : LockedOut(who) => LockedOut(who)'
<1>1. Tracks(Store)
  BY DEF StoreInv
<1>2. ASSUME NEW r \in Requests, NEW who \in Clients,
             \/ Throttled(r, who)
             \/ \E name \in Names, password \in Passwords :
                  LoginStarts(r, who, name, password) \/ BootstrapStarts(r, who, name, password)
      PROVE  StoreInv' /\ Holds
  <2>1. StoreBecomes(Prune(Store, who))
    BY <1>2 DEF Throttled, LoginStarts, BootstrapStarts
  <2>2. Follows(Store, Prune(Store, who))
    BY <1>1, PruneIs
  <2> QED BY <2>1, <2>2, FollowsStep
<1>3. ASSUME NEW r \in Requests, NEW who \in Clients, BootstrapRefused(r, who)
      PROVE  StoreInv' /\ Holds
  <2> DEFINE pruned == Prune(Store, who)
  <2>1. StoreBecomes(RecordFailure(pruned, who))
    BY <1>3 DEF BootstrapRefused
  <2>2. Follows(Store, pruned) /\ Tracks(pruned)
    BY <1>1, PruneIs DEF Follows
  <2> HIDE DEF pruned
  <2>3. Follows(Store, RecordFailure(pruned, who))
    BY <2>2, RecordFollows, FollowsOn
  <2> QED BY <2>1, <2>3, FollowsStep
<1>4. ASSUME NEW r \in Requests, LoginRefused(r)
      PROVE  StoreInv' /\ Holds
  <2>1. StoreBecomes(RecordFailure(Store, request[r].who))
    BY <1>4 DEF LoginRefused
  <2>2. Follows(Store, RecordFailure(Store, request[r].who))
    BY <1>1, RecordFollows
  <2> QED BY <2>1, <2>2, FollowsStep
<1>5. ASSUME NEW r \in Requests, Clears(r)
      PROVE  /\ StoreInv'
             /\ \A who \in Clients : LockedOut(who) /\ ~LockedOut(who)' => Releases(who)
  <2> DEFINE s == Forget(Store, request[r].who)
  <2>1. StoreBecomes(s) /\ request[r].at = "clear"
    BY <1>5 DEF Clears
  <2>2. Tracks(s) /\ \A x : x # request[r].who /\ Barred(Store, x) => Barred(s, x)
    BY <1>1, ForgetTracks
  <2> HIDE DEF s
  <2>3. Store' = s
    BY <2>1, <2>2, StoreIs
  <2>4. StoreInv'
    BY <2>2, <2>3 DEF StoreInv, Tracks, Ages
  <2>5. ASSUME NEW who \in Clients, LockedOut(who), ~LockedOut(who)'
        PROVE  Releases(who)
    <3>1. ~Barred(s, who)
      BY <2>3, <2>5 DEF Barred, Store, LockedOut, Recent, Counted
    <3>2. request[r].who = who
      BY <2>2, <2>5, <3>1, BarredIsLockedOut
    <3> QED BY <1>5, <2>1, <3>2 DEF Releases
  <2> QED BY <2>4, <2>5
<1>6. CASE Tick
  BY <1>6, TickTracks DEF Releases
<1>7. CASE UNCHANGED <<window, order>>
  <2>1. StoreBecomes(Store)
    BY <1>7 DEF StoreBecomes, Store
  <2>2. Follows(Store, Store)
    BY <1>1, FollowsItself
  <2> QED BY <2>1, <2>2, FollowsStep
<1>8. ASSUME NEW r \in Requests,
             \/ LoginReads(r) \/ LoginVerified(r) \/ LoginStamps(r) \/ LoginInserts(r)
             \/ BootstrapCounts(r) \/ BootstrapCreates(r)
             \/ ChangeLists(r) \/ ChangeUpdates(r) \/ ChangeRevokes(r) \/ RevokeDeletes(r) \/ Drop(r)
             \/ \E credential \in Credentials :
                  \/ \E current, new \in Passwords : ChangeStarts(r, credential, current, new)
                  \/ \E token \in DOMAIN sessions : RevokeStarts(r, credential, token)
             \/ \E token \in DOMAIN sessions : Logout(r, token)
      PROVE  UNCHANGED <<window, order>>
  BY <1>8, Zenon DEF LoginReads, LoginVerified, LoginStamps, LoginInserts, BootstrapCounts,
     BootstrapCreates, ChangeLists, ChangeUpdates, ChangeRevokes, RevokeDeletes, Drop,
     ChangeStarts, RevokeStarts, Logout
<1>9. Purge \/ UNCHANGED accessVars => UNCHANGED <<window, order>>
  BY DEF Purge, accessVars
<1>10. \/ \E r \in Requests, who \in Clients :
            \/ Throttled(r, who) \/ BootstrapRefused(r, who)
            \/ \E name \in Names, password \in Passwords :
                 LoginStarts(r, who, name, password) \/ BootstrapStarts(r, who, name, password)
       \/ \E r \in Requests : LoginRefused(r) \/ Clears(r)
       \/ Tick \/ UNCHANGED <<window, order>>
  BY <1>8, <1>9, Zenon DEF AccessNext
<1> HIDE DEF Holds
<1>11. StoreInv' /\ Holds
       => /\ StoreInv'
          /\ \A who \in Clients : LockedOut(who) /\ ~LockedOut(who)' => Releases(who)
  BY DEF Holds
<1> QED BY <1>2, <1>3, <1>4, <1>5, <1>6, <1>7, <1>10, <1>11, Zenon

LEMMA StoreIsTracked == AccessSpec => []StoreInv
<1>1. AccessInit => StoreInv
  <2> SUFFICES ASSUME AccessInit PROVE StoreInv
    OBVIOUS
  <2>1. window = <<>> /\ order = <<>>
    BY DEF AccessInit
  <2>2. /\ DOMAIN window = {} /\ window = [x \in DOMAIN window |-> window[x]]
        /\ order \in Seq(DOMAIN window) /\ Len(order) = 0
    BY <2>1
  <2> QED BY <2>2, AccessAssumption DEF StoreInv, Tracks, Store
<1>2. StoreInv /\ [AccessNext]_accessVars => StoreInv'
  BY ThrottleStep
<1> QED BY <1>1, <1>2, PTL DEF AccessSpec

LEMMA TrackedIsSound == StoreInv => StoreIsSound
<1> SUFFICES ASSUME StoreInv PROVE StoreIsSound
  OBVIOUS
<1>1. Tracks(Store)
  BY DEF StoreInv
<1>2. \A who \in Clients : IsBlocked(Prune(Store, who), who) <=> LockedOut(who)
  BY <1>1, PruneIs, BarredIsLockedOut
<1>3. Cardinality(DOMAIN window) = Len(order)
  BY <1>1, TrackedCount DEF Store
<1>4. Len(order) <= MAX_TRACKED_CLIENTS
  BY <1>1 DEF Tracks, Store
<1>5. Range(order) = DOMAIN window
  <2>1. /\ order \in Seq(DOMAIN window)
        /\ \A x \in DOMAIN window : \E i \in 1..Len(order) : order[i] = x
    BY <1>1 DEF Tracks, Store
  <2>2. Range(order) = {order[i] : i \in DOMAIN order}
    BY DEF Range
  <2>3. DOMAIN order = 1..Len(order) /\ \A i \in 1..Len(order) : order[i] \in DOMAIN window
    BY <2>1
  <2> QED BY <2>1, <2>2, <2>3
<1> QED BY <1>2, <1>3, <1>4, <1>5 DEF StoreIsSound

\* The throttle refuses exactly the clients with a limit's worth of failures in
\* the window and tracks no more than it may, and nothing but age and the
\* client's own success ends a lockout, for any number of clients and requests
\* and any limit, window and capacity: "a flood of distinct addresses cannot
\* release another client's block".
THEOREM ThrottleIsSound == AccessSpec => ThrottleHolds
<1>1. StoreInv /\ [AccessNext]_accessVars
      => [/\ StoreIsSound'
          /\ \A who \in Clients : LockedOut(who) /\ ~LockedOut(who)' => Releases(who)]_accessVars
  <2> SUFFICES ASSUME StoreInv, [AccessNext]_accessVars
               PROVE  /\ StoreIsSound'
                      /\ \A who \in Clients : LockedOut(who) /\ ~LockedOut(who)' => Releases(who)
    OBVIOUS
  <2>1. StoreInv'
    BY ThrottleStep
  <2>2. StoreIsSound'
    BY <2>1, TrackedIsSound, PTL
  <2> QED BY <2>2, ThrottleStep
<1> QED BY <1>1, StoreIsTracked, PTL DEF AccessSpec, ThrottleHolds

-----------------------------------------------------------------------------
(* ProbedOnceADay.                                                         *)
(*                                                                         *)
(* A key is named by its secret, which is entered once and never moves to  *)
(* another row; a row's id may be given out again.  The argument is about  *)
(* secrets: the rows still to come of a pass were not asked since midnight *)
(* (StillToAsk), and a row whose secret was asked is either stamped or the *)
(* one the pass is at (AskedIsStamped).                                    *)

Row   == [secret : Nat, active : BOOLEAN]
Entry == [key : Nat, secret : Nat]
Pass  == [pc : {"idle", "next", "calling", "stamp"}, at : Entry, rows : SUBSET Entry]

MaintTypeOK ==
    /\ present \subseteq KeyIds /\ nextSecret \in Nat
    /\ row \in [KeyIds -> Row]
    /\ probe \in Pass
    /\ asked \subseteq Nat
    /\ stamped \subseteq KeyIds

Asking == probe.pc \in {"calling", "stamp"}

\* What the pass holds of the rows: those to come and the one it is at.
Entries == probe.rows \union (IF Asking THEN {probe.at} ELSE {})

\* A secret is of one row, and was entered before.
SecretsAreOwn ==
    /\ \A k \in present : row[k].secret < nextSecret
    /\ \A j, k \in present : row[j].secret = row[k].secret => j = k
    /\ \A s \in asked : s < nextSecret

\* So it is in the snapshot, which may be of a row that is gone or rotated.
EntriesAreOwn ==
    /\ \A r \in Entries :
          /\ r.secret < nextSecret
          /\ \A k \in present : row[k].secret = r.secret => k = r.key
    /\ \A q, r \in Entries : q.secret = r.secret => q = r
    /\ Asking => probe.at \notin probe.rows

StillToAsk == \A r \in probe.rows : r.secret \notin asked

AskedIsStamped ==
    \A k \in present :
        row[k].secret \in asked =>
            k \in stamped \/ (Asking /\ probe.at.secret = row[k].secret)

ProbeInv ==
    /\ MaintTypeOK
    /\ SecretsAreOwn /\ EntriesAreOwn /\ StillToAsk /\ AskedIsStamped

-----------------------------------------------------------------------------
\* Rows may go, and what remains keeps its secret and its stamp.
RowsKept ==
    /\ present' \subseteq present
    /\ row' \in [KeyIds -> Row]
    /\ \A k \in present' : row'[k].secret = row[k].secret
    /\ stamped \intersect present' \subseteq stamped'
    /\ stamped' \subseteq KeyIds

LEMMA WriteKeeps ==
    ASSUME MaintTypeOK, NEW k, NEW r \in Row, k \in present => r.secret = row[k].secret,
           Write(k, r)
    PROVE  RowsKept
<1>1. present' = present /\ stamped' = stamped
    BY DEF Write
<1>2. CASE k \in present
    <2>1. row' = [row EXCEPT ![k] = r] /\ k \in KeyIds
        BY <1>2 DEF Write, MaintTypeOK
    <2>2. row' \in [KeyIds -> Row]
        BY <2>1 DEF MaintTypeOK
    <2>3. \A j \in KeyIds : row'[j] = IF j = k THEN r ELSE row[j]
        BY <2>1 DEF MaintTypeOK
    <2> QED BY <1>1, <1>2, <2>2, <2>3 DEF RowsKept, MaintTypeOK
<1>3. CASE k \notin present
    BY <1>1, <1>3 DEF Write, RowsKept, MaintTypeOK
<1> QED BY <1>2, <1>3

LEMMA RowGoesKeeps ==
    ASSUME MaintTypeOK, NEW k \in present, RowGoes(k)
    PROVE  RowsKept
<1>1. /\ present' = present \ {k} /\ stamped' = stamped \ {k} /\ k \in KeyIds
      /\ row' = [row EXCEPT ![k] = Blank]
    BY DEF RowGoes, MaintTypeOK
<1>2. Blank \in Row
    BY DEF Blank, Row
<1>3. row' \in [KeyIds -> Row]
    BY <1>1, <1>2 DEF MaintTypeOK
<1>4. \A j \in present' : row'[j] = row[j]
    BY <1>1 DEF MaintTypeOK
<1> QED BY <1>1, <1>3, <1>4 DEF RowsKept, MaintTypeOK

\* What the pass holds and where it is stay as they are.
PassKept ==
    /\ probe' \in Pass
    /\ probe'.rows = probe.rows /\ probe'.at = probe.at
    /\ Asking' = Asking

\* A step that only takes rows away, or changes what is not looked at.
LEMMA KeptStep ==
    ASSUME ProbeInv, RowsKept, PassKept, UNCHANGED <<nextSecret, asked>>
    PROVE  ProbeInv'
<1>1. Entries' = Entries
    BY DEF Entries, PassKept
<1>2. MaintTypeOK'
    BY DEF ProbeInv, MaintTypeOK, RowsKept, PassKept
<1>3. SecretsAreOwn'
    BY DEF ProbeInv, SecretsAreOwn, RowsKept
<1>4. EntriesAreOwn'
    BY <1>1 DEF ProbeInv, EntriesAreOwn, RowsKept, PassKept
<1>5. StillToAsk'
    BY DEF ProbeInv, StillToAsk, PassKept
<1>6. AskedIsStamped'
    BY DEF ProbeInv, AskedIsStamped, RowsKept, PassKept
<1> QED BY <1>2, <1>3, <1>4, <1>5, <1>6 DEF ProbeInv

LEMMA ProbeUntouched ==
    ASSUME MaintTypeOK, UNCHANGED probe
    PROVE  PassKept
BY DEF PassKept, MaintTypeOK, Asking

\* A row gets a secret that was never seen.
LEMMA FreshStep ==
    ASSUME ProbeInv, NEW k \in KeyIds, NEW r \in Row,
           r.secret = nextSecret, nextSecret' = nextSecret + 1,
           present' = present \union {k}, row' = [row EXCEPT ![k] = r],
           UNCHANGED <<stamped, probe, asked>>
    PROVE  ProbeInv'
<1>1. \A j \in KeyIds : row'[j] = IF j = k THEN r ELSE row[j]
    BY DEF ProbeInv, MaintTypeOK
<1>2. nextSecret \in Nat /\ present \subseteq KeyIds
    BY DEF ProbeInv, MaintTypeOK
<1>3. MaintTypeOK'
    BY <1>2 DEF ProbeInv, MaintTypeOK
<1>4. /\ Entries' = Entries /\ Asking' = Asking
      /\ \A e \in Entries : e.secret \in Nat
    BY DEF Entries, Asking, ProbeInv, MaintTypeOK, Pass, Entry
<1>5. \A j \in KeyIds : row[j].secret \in Nat
    BY DEF ProbeInv, MaintTypeOK, Row
<1>6. \A s \in asked : s \in Nat
    BY DEF ProbeInv, MaintTypeOK
<1>7. SecretsAreOwn'
    BY <1>1, <1>2, <1>5, <1>6 DEF ProbeInv, SecretsAreOwn
<1>8. EntriesAreOwn'
    BY <1>1, <1>2, <1>4, <1>5 DEF ProbeInv, EntriesAreOwn
<1>9. StillToAsk'
    BY DEF ProbeInv, StillToAsk
<1>10. nextSecret \notin asked
    BY <1>2 DEF ProbeInv, SecretsAreOwn
<1>11. AskedIsStamped'
    BY <1>1, <1>2, <1>4, <1>10 DEF ProbeInv, AskedIsStamped
<1> QED BY <1>3, <1>7, <1>8, <1>9, <1>11 DEF ProbeInv

-----------------------------------------------------------------------------
LEMMA OnwardFacts ==
    ASSUME NEW rows \in SUBSET Entry
    PROVE  /\ Onward(rows) \in Pass /\ Onward(rows).rows = rows
           /\ Onward(rows).pc \in {"idle", "next"}
BY DEF Onward, NoPass, NoRow, Pass, Entry

\* The pass leaves the row it is at, or drops rows that it has not asked.
LEMMA PassMovesOn ==
    ASSUME ProbeInv, UNCHANGED keys, stamped' \subseteq KeyIds,
           stamped \subseteq stamped', asked' \subseteq asked,
           NEW rows \in SUBSET probe.rows,
           probe' \in Pass, probe'.rows = rows, probe'.pc \in {"idle", "next"},
           \A k \in present :
               Asking /\ probe.at.secret = row[k].secret /\ k \notin stamped'
                   => row[k].secret \notin asked'
    PROVE  ProbeInv'
<1>1. ~Asking' /\ Entries' = rows /\ rows \subseteq Entries
    BY DEF Asking, Entries
<1>2. MaintTypeOK' /\ SecretsAreOwn'
    BY DEF ProbeInv, MaintTypeOK, SecretsAreOwn, keys
<1>3. EntriesAreOwn'
    BY <1>1 DEF ProbeInv, EntriesAreOwn, keys
<1>4. StillToAsk'
    BY DEF ProbeInv, StillToAsk
<1>5. AskedIsStamped'
    BY <1>1 DEF ProbeInv, AskedIsStamped, keys
<1> QED BY <1>2, <1>3, <1>4, <1>5 DEF ProbeInv

LEMMA InitProbe == Init => ProbeInv
<1> SUFFICES ASSUME Init PROVE ProbeInv
    OBVIOUS
<1>1. Blank \in Row /\ NoPass \in Pass /\ NoPass.rows = {} /\ NoPass.pc = "idle"
    BY DEF Blank, Row, NoPass, NoRow, Pass, Entry
<1>2. ~Asking /\ Entries = {}
    BY <1>1 DEF Init, Asking, Entries
<1>3. MaintTypeOK
    BY <1>1 DEF Init, MaintTypeOK
<1> QED BY <1>1, <1>2, <1>3
        DEF ProbeInv, Init, SecretsAreOwn, EntriesAreOwn, StillToAsk, AskedIsStamped

LEMMA OperatorStep == ASSUME ProbeInv, OperatorNext PROVE ProbeInv'
<1>t. MaintTypeOK
    BY DEF ProbeInv
<1>1. CASE CreateKey
    <2>1. PICK k \in KeyIds :
            /\ present' = present \union {k}
            /\ row' = [row EXCEPT ![k] =
                   [secret |-> nextSecret, active |-> TRUE]]
            /\ nextSecret' = nextSecret + 1
            /\ UNCHANGED <<stamped, synced, probe, sync, seen, asked>>
        BY <1>1 DEF CreateKey
    <2>2. [secret |-> nextSecret, active |-> TRUE] \in Row
        BY <1>t DEF MaintTypeOK, Row
    <2> QED BY <2>1, <2>2, FreshStep
<1>2. ASSUME NEW k \in KeyIds, UpdateKey(k) PROVE ProbeInv'
    <2> DEFINE r == [row[k] EXCEPT !.secret = nextSecret]
    <2>1. r \in Row /\ r.secret = nextSecret
        BY <1>t DEF MaintTypeOK, Row
    <2>2. row' = [row EXCEPT ![k] = r]
        BY <1>2, <1>t DEF UpdateKey, MaintTypeOK
    <2>3. /\ present' = present \union {k} /\ nextSecret' = nextSecret + 1
          /\ UNCHANGED <<stamped, probe, asked>>
        BY <1>2 DEF UpdateKey
    <2> HIDE DEF r
    <2> QED BY <2>1, <2>2, <2>3, FreshStep
<1>3. ASSUME NEW k \in KeyIds, DeleteKey(k) PROVE ProbeInv'
    <2>1. RowsKept
        BY <1>3, <1>t, RowGoesKeeps DEF DeleteKey
    <2>2. PassKept
        BY <1>3, <1>t, ProbeUntouched DEF DeleteKey
    <2> QED BY <1>3, <2>1, <2>2, KeptStep DEF DeleteKey
<1>4. ASSUME NEW k \in KeyIds, NEW o \in Operators, ToggleReads(o, k) PROVE ProbeInv'
    <2>1. RowsKept
        BY <1>4, <1>t DEF ToggleReads, RowsKept, MaintTypeOK, keys
    <2>2. PassKept
        BY <1>4, <1>t, ProbeUntouched DEF ToggleReads
    <2> QED BY <1>4, <2>1, <2>2, KeptStep DEF ToggleReads, keys
<1>5. ASSUME NEW o \in Operators, ToggleWrites(o) PROVE ProbeInv'
    <2> DEFINE k == seen[o].key
               r == [row[k] EXCEPT !.active = ~seen[o].active]
    <2>1. Write(k, r)
        BY <1>5 DEF ToggleWrites
    <2>2. CASE k \in present
        <3>1. r \in Row /\ r.secret = row[k].secret
            BY <2>2, <1>t DEF MaintTypeOK, Row
        <3> HIDE DEF k, r
        <3>2. RowsKept
            BY <1>t, <2>1, <3>1, WriteKeeps
        <3>3. PassKept
            BY <1>5, <1>t, ProbeUntouched DEF ToggleWrites
        <3> QED BY <1>5, <3>2, <3>3, KeptStep DEF ToggleWrites
    <2>3. CASE k \notin present
        <3>1. RowsKept
            BY <2>1, <2>3, <1>t DEF Write, RowsKept, MaintTypeOK
        <3>2. PassKept
            BY <1>5, <1>t, ProbeUntouched DEF ToggleWrites
        <3> QED BY <1>5, <3>1, <3>2, KeptStep DEF ToggleWrites
    <2> QED BY <2>2, <2>3
<1> QED BY <1>1, <1>2, <1>3, <1>4, <1>5 DEF OperatorNext

LEMMA TrafficStep ==
    ASSUME ProbeInv, (\E k \in KeyIds : LegReports(k)) \/ ReenableStale
    PROVE  ProbeInv'
<1>t. MaintTypeOK
    BY DEF ProbeInv
<1>1. ASSUME NEW k \in KeyIds, LegReports(k) PROVE ProbeInv'
    <2>1. PICK stays \in BOOLEAN : Write(k, [row[k] EXCEPT !.active = @ /\ stays])
        BY <1>1 DEF LegReports
    <2> DEFINE on == row[k].active /\ stays
               r  == [row[k] EXCEPT !.active = on]
    <2>2. on \in BOOLEAN
        OBVIOUS
    <2>3. Write(k, r)
        BY <2>1, <1>t DEF MaintTypeOK, Row
    <2> HIDE DEF on
    <2>4. r \in Row /\ r.secret = row[k].secret
        BY <2>2, <1>t DEF MaintTypeOK, Row
    <2> HIDE DEF r
    <2>5. RowsKept
        BY <1>t, <2>3, <2>4, WriteKeeps
    <2>6. PassKept
        BY <1>1, <1>t, ProbeUntouched DEF LegReports
    <2> QED BY <1>1, <2>5, <2>6, KeptStep DEF LegReports
<1>2. CASE ReenableStale
    <2>1. PICK stale :
            row' = [k \in KeyIds |-> IF k \in stale THEN [row[k] EXCEPT !.active = TRUE]
                                     ELSE row[k]]
        BY <1>2 DEF ReenableStale
    <2>2. UNCHANGED <<present, nextSecret, stamped, probe, asked>>
        BY <1>2 DEF ReenableStale
    <2>3. \A k \in KeyIds : /\ [row[k] EXCEPT !.active = TRUE] \in Row
                            /\ [row[k] EXCEPT !.active = TRUE].secret = row[k].secret
        BY <1>t DEF MaintTypeOK, Row
    <2>4. \A k \in KeyIds : row'[k] \in Row /\ row'[k].secret = row[k].secret
        BY <2>1, <2>3, <1>t DEF MaintTypeOK
    <2>5. row' \in [KeyIds -> Row]
        BY <2>1, <2>4
    <2>6. RowsKept
        BY <2>2, <2>4, <2>5, <1>t DEF RowsKept, MaintTypeOK
    <2>7. PassKept
        BY <2>2, <1>t, ProbeUntouched
    <2> QED BY <2>2, <2>6, <2>7, KeptStep
<1> QED BY <1>1, <1>2

LEMMA MidnightStep == ASSUME ProbeInv, Midnight PROVE ProbeInv'
<1>1. Entries' = Entries /\ Asking' = Asking
    BY DEF Midnight, Entries, Asking
<1> QED BY <1>1 DEF Midnight, keys, ProbeInv, MaintTypeOK, SecretsAreOwn,
                    EntriesAreOwn, StillToAsk, AskedIsStamped

LEMMA SyncStep == ASSUME ProbeInv, SyncNext PROVE ProbeInv'
<1>t. MaintTypeOK
    BY DEF ProbeInv
<1>1. UNCHANGED <<keys, stamped, probe, asked>>
    BY DEF SyncNext, SyncStarts, SyncFails, SyncWrites
<1>2. RowsKept
    BY <1>1, <1>t DEF RowsKept, MaintTypeOK, keys
<1> QED BY <1>1, <1>2, <1>t, ProbeUntouched, KeptStep DEF keys

LEMMA StartStep == ASSUME ProbeInv, ProbeStarts PROVE ProbeInv'
<1>t. MaintTypeOK
    BY DEF ProbeInv
<1>w. PICK warm \in SUBSET Due :
        probe' = [NoPass EXCEPT !.pc = "next",
                     !.rows = {[key |-> k, secret |-> row[k].secret] : k \in warm}]
    BY DEF ProbeStarts
<1> DEFINE rows == {[key |-> k, secret |-> row[k].secret] : k \in warm}
<1>1. /\ ~Asking /\ UNCHANGED <<keys, stamped, asked>>
      /\ Due \subseteq present /\ Due \intersect stamped = {}
    BY DEF ProbeStarts, Asking, Due
<1>2. rows \subseteq Entry
    BY <1>1, <1>t DEF Entry, MaintTypeOK, Row, KeyIds
<1>3. probe' = [NoPass EXCEPT !.pc = "next", !.rows = rows]
    BY <1>w
<1>4. \A r \in rows : r.key \in Due /\ r.secret = row[r.key].secret
    OBVIOUS
<1>5. \A q, r \in rows : q.key = r.key => q = r
    OBVIOUS
<1> HIDE DEF rows
<1>6. probe' \in Pass /\ probe'.rows = rows /\ probe'.pc = "next"
    BY <1>2, <1>3 DEF NoPass, NoRow, Pass, Entry
<1>7. ~Asking' /\ Entries' = rows
    BY <1>6 DEF Asking, Entries
<1>8. MaintTypeOK' /\ SecretsAreOwn'
    BY <1>1, <1>6 DEF ProbeInv, MaintTypeOK, SecretsAreOwn, keys
<1>9. EntriesAreOwn'
    BY <1>1, <1>4, <1>5, <1>7 DEF ProbeInv, EntriesAreOwn, SecretsAreOwn, keys
<1>10. StillToAsk'
    BY <1>1, <1>4, <1>6 DEF ProbeInv, StillToAsk, AskedIsStamped
<1>11. AskedIsStamped'
    BY <1>1, <1>7 DEF ProbeInv, AskedIsStamped, keys
<1> QED BY <1>8, <1>9, <1>10, <1>11 DEF ProbeInv

LEMMA AskStep == ASSUME ProbeInv, NEW r \in probe.rows, ProbeAsks(r) PROVE ProbeInv'
<1>1. /\ probe.pc = "next" /\ asked' = asked \union {r.secret}
      /\ UNCHANGED <<keys, stamped>>
      /\ probe' = [probe EXCEPT !.pc = "calling", !.at = r, !.rows = probe.rows \ {r}]
    BY DEF ProbeAsks, ProbeInv, MaintTypeOK, Pass
<1>2. r \in Entry /\ r.secret \in Nat
    BY DEF ProbeInv, MaintTypeOK, Pass, Entry
<1>3. /\ probe' \in Pass /\ probe'.pc = "calling" /\ probe'.at = r
      /\ probe'.rows = probe.rows \ {r}
    BY <1>1, <1>2 DEF ProbeInv, MaintTypeOK, Pass
<1>4. ~Asking /\ Asking' /\ Entries = probe.rows /\ Entries' = probe.rows
    BY <1>1, <1>3 DEF Asking, Entries
<1>5. MaintTypeOK'
    BY <1>1, <1>2, <1>3 DEF ProbeInv, MaintTypeOK, keys
<1>6. SecretsAreOwn'
    BY <1>1, <1>4 DEF ProbeInv, SecretsAreOwn, EntriesAreOwn, keys
<1>7. EntriesAreOwn'
    BY <1>1, <1>3, <1>4 DEF ProbeInv, EntriesAreOwn, keys
<1>8. StillToAsk'
    BY <1>1, <1>3, <1>4 DEF ProbeInv, StillToAsk, EntriesAreOwn
<1>9. AskedIsStamped'
    BY <1>1, <1>3, <1>4 DEF ProbeInv, AskedIsStamped, keys
<1> QED BY <1>5, <1>6, <1>7, <1>8, <1>9 DEF ProbeInv

LEMMA ApplyStep == ASSUME ProbeInv, ProbeApplies PROVE ProbeInv'
<1> DEFINE k == probe.at.key
<1>t. MaintTypeOK
    BY DEF ProbeInv
<1>1. /\ probe.pc = "calling" /\ probe' = [probe EXCEPT !.pc = "stamp"]
      /\ UNCHANGED <<nextSecret, asked>>
    BY DEF ProbeApplies
<1>2. PassKept
    BY <1>1, <1>t DEF PassKept, MaintTypeOK, Pass, Asking
<1>3. \/ k \in present /\ RowGoes(k)
      \/ UNCHANGED <<present, row, stamped>>
      \/ Write(k, [row[k] EXCEPT !.active = FALSE])
      \/ \E stays \in BOOLEAN : Write(k, [row[k] EXCEPT !.active = @ /\ stays])
    BY DEF ProbeApplies
<1>4. ASSUME NEW on \in BOOLEAN, Write(k, [row[k] EXCEPT !.active = on]) PROVE RowsKept
    <2>1. CASE k \in present
        <3>1. /\ [row[k] EXCEPT !.active = on] \in Row
              /\ [row[k] EXCEPT !.active = on].secret = row[k].secret
            BY <2>1, <1>t DEF MaintTypeOK, Row
        <3> QED BY <1>4, <3>1, <1>t, WriteKeeps
    <2>2. CASE k \notin present
        BY <1>4, <2>2, <1>t DEF Write, RowsKept, MaintTypeOK
    <2> QED BY <2>1, <2>2
<1>5. UNCHANGED <<present, row, stamped>> => RowsKept
    BY <1>t DEF RowsKept, MaintTypeOK
<1>6. CASE k \in present /\ RowGoes(k)
    BY <1>1, <1>2, <1>6, <1>t, RowGoesKeeps, KeptStep
<1>7. CASE Write(k, [row[k] EXCEPT !.active = FALSE])
    BY <1>1, <1>2, <1>4, <1>7, KeptStep
<1>8. CASE \E stays \in BOOLEAN : Write(k, [row[k] EXCEPT !.active = @ /\ stays])
    <2>1. PICK stays \in BOOLEAN : Write(k, [row[k] EXCEPT !.active = @ /\ stays])
        BY <1>8
    <2> DEFINE on == row[k].active /\ stays
    <2>2. CASE k \in present
        <3>1. [row[k] EXCEPT !.active = @ /\ stays] = [row[k] EXCEPT !.active = on]
            BY <2>2, <1>t DEF MaintTypeOK, Row
        <3>2. on \in BOOLEAN
            OBVIOUS
        <3> HIDE DEF on
        <3>3. RowsKept
            BY <1>4, <2>1, <3>1, <3>2
        <3> QED BY <1>1, <1>2, <3>3, KeptStep
    <2>3. CASE k \notin present
        <3>1. RowsKept
            BY <2>1, <2>3, <1>t DEF Write, RowsKept, MaintTypeOK
        <3> QED BY <1>1, <1>2, <3>1, KeptStep
    <2> QED BY <2>2, <2>3
<1>9. CASE UNCHANGED <<present, row, stamped>>
    BY <1>1, <1>2, <1>5, <1>9, KeptStep
<1> QED BY <1>3, <1>6, <1>7, <1>8, <1>9

LEMMA StampStep == ASSUME ProbeInv, ProbeStamps PROVE ProbeInv'
<1>t. MaintTypeOK
    BY DEF ProbeInv
<1>1. /\ probe.pc = "stamp" /\ UNCHANGED <<keys, asked>>
      /\ stamped' = stamped \union ({probe.at.key} \intersect present)
      /\ probe' = Onward(probe.rows)
    BY DEF ProbeStamps
<1>2. stamped' \subseteq KeyIds /\ stamped \subseteq stamped' /\ Asking
    BY <1>1, <1>t DEF MaintTypeOK, Asking
<1>3. /\ probe' \in Pass /\ probe'.rows = probe.rows
      /\ probe'.pc \in {"idle", "next"}
    BY <1>1, <1>t, OnwardFacts DEF MaintTypeOK, Pass
<1>4. \A k \in present : probe.at.secret = row[k].secret => k \in stamped'
    BY <1>1, <1>2 DEF ProbeInv, EntriesAreOwn, Entries
<1> QED BY <1>1, <1>2, <1>3, <1>4, PassMovesOn

LEMMA FailStep == ASSUME ProbeInv, ProbeWriteFails PROVE ProbeInv'
<1>1. /\ UNCHANGED <<keys, stamped>> /\ asked' = asked \ {probe.at.secret}
      /\ probe' = Onward(probe.rows)
    BY DEF ProbeWriteFails
<1>2. /\ probe' \in Pass /\ probe'.rows = probe.rows
      /\ probe'.pc \in {"idle", "next"}
    BY <1>1, OnwardFacts DEF ProbeInv, MaintTypeOK, Pass
<1>3. stamped' \subseteq KeyIds
    BY <1>1 DEF ProbeInv, MaintTypeOK
<1> QED BY <1>1, <1>2, <1>3, PassMovesOn

LEMMA UnleasedStep ==
    ASSUME ProbeInv, NEW r \in probe.rows, ProbeUnleased(r) PROVE ProbeInv'
<1>1. /\ probe.pc = "next" /\ UNCHANGED <<keys, stamped, asked>>
      /\ probe' = Onward(probe.rows \ {r}) \/ probe' = NoPass
    BY DEF ProbeUnleased
<1>2. ~Asking /\ stamped' \subseteq KeyIds
    BY <1>1 DEF Asking, ProbeInv, MaintTypeOK
<1>3. CASE probe' = Onward(probe.rows \ {r})
    <2>1. /\ probe' \in Pass /\ probe'.rows = probe.rows \ {r}
          /\ probe'.pc \in {"idle", "next"}
        BY <1>3, OnwardFacts DEF ProbeInv, MaintTypeOK, Pass
    <2> QED BY <1>1, <1>2, <2>1, PassMovesOn
<1>4. CASE probe' = NoPass
    <2>1. probe' \in Pass /\ probe'.rows = {} /\ probe'.pc \in {"idle", "next"}
        BY <1>4 DEF NoPass, NoRow, Pass, Entry
    <2> QED BY <1>1, <1>2, <2>1, PassMovesOn
<1> QED BY <1>1, <1>3, <1>4

LEMMA RestartStep == ASSUME ProbeInv, Restart PROVE ProbeInv'
<1>1. /\ UNCHANGED <<keys, stamped>> /\ probe' = NoPass
      /\ asked' = IF Asking THEN asked \ {probe.at.secret} ELSE asked
    BY DEF Restart, Asking
<1>2. probe' \in Pass /\ probe'.rows = {} /\ probe'.pc \in {"idle", "next"}
    BY <1>1 DEF NoPass, NoRow, Pass, Entry
<1>3. stamped' \subseteq KeyIds
    BY <1>1 DEF ProbeInv, MaintTypeOK
<1> QED BY <1>1, <1>2, <1>3, PassMovesOn

LEMMA ProbeInvStep == ProbeInv /\ [Next]_vars => ProbeInv'
<1> SUFFICES ASSUME ProbeInv, [Next]_vars PROVE ProbeInv'
    OBVIOUS
<1>1. CASE ProbeNext
    BY <1>1, StartStep, AskStep, UnleasedStep, ApplyStep, StampStep, FailStep
       DEF ProbeNext
<1>2. CASE UNCHANGED vars
    <2>1. MaintTypeOK
        BY DEF ProbeInv
    <2>2. RowsKept /\ PassKept
        BY <1>2, <2>1, ProbeUntouched DEF RowsKept, MaintTypeOK, vars, keys
    <2> QED BY <1>2, <2>2, KeptStep DEF vars, keys
<1> QED BY <1>1, <1>2, OperatorStep, TrafficStep, MidnightStep, SyncStep, RestartStep
        DEF Next

\* A secret belongs to one row, an asked secret to a row that is stamped or that
\* the pass is at, and a pass has no row to come that was asked today: what the
\* daily bound of due_probe_keys and stamp_key_probe rests on.
THEOREM ProbeInvariant == Spec => []ProbeInv
BY InitProbe, ProbeInvStep, PTL DEF Spec

\* The probe asks a vendor about a key at most once a day, unless it could not
\* record the outcome, whatever is rotated, deleted, re-entered or restarted
\* between two steps of a pass.
THEOREM ProbesOnceADay == Spec => ProbedOnceADay
<1>1. ProbeInv => [\A r \in probe.rows : ProbeAsks(r) => r.secret \notin asked]_vars
    BY DEF ProbeInv, StillToAsk
<1> QED BY <1>1, ProbeInvariant, PTL DEF ProbedOnceADay
=============================================================================
