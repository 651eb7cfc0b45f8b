---------------------------- MODULE MCAdminAccess ----------------------------
(***************************************************************************)
(* Two requests in flight from three addresses, two of which the throttle  *)
(* may track, two user names and two passwords.                            *)
(***************************************************************************)
EXTENDS AdminAccess, TLC

Sym == Permutations(Requests) \cup Permutations(Clients) \cup Permutations(Names) \cup Permutations(Passwords)

=============================================================================
