---------------------------- MODULE MCRequestLife ----------------------------
(* What a behaviour may hold: two product calls and a shutdown, a call and a  *)
(* shorter request, or three of those over more minutes than the loop sees.   *)
EXTENDS RequestLife

Script(calls, shorts, minutes, stops) ==
    [call |-> calls, short |-> shorts, minute |-> minutes, stop |-> stops]

MCScripts == {Script(2, 0, 2, 1), Script(1, 1, 2, 1), Script(0, 3, 2, 0)}
=============================================================================
