SPECIFICATION AccessSpec
CONSTANTS
  Requests = {r1, r2}
  Clients = {a1, a2, a3}
  Names = {admin, root}
  Passwords = {p1, p2}
  LOGIN_FAILURE_LIMIT = 2
  LOGIN_FAILURE_WINDOW = 2
  MAX_TRACKED_CLIENTS = 2
  SESSION_TTL = 2
  MaxRequests = 5
SYMMETRY Sym
INVARIANT RevocationReaches
PROPERTY ThrottleHolds
