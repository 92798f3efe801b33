-------------------------- MODULE MCAuthLifecycle --------------------------
(***************************************************************************)
(* Instances of AuthLifecycle for TLC.  User object 1 is that of an        *)
(* earlier run of the app, 2 the one a sign-in of this run makes.          *)
(***************************************************************************)
EXTENDS AuthLifecycle

CONSTANT MaxTurns \* bound on the refreshes and the events of a behaviour together

Turns == (MaxRefreshes - left'.refresh) + (MaxEvents - left'.event)
BoundedSpec == Init /\ [][Next /\ Turns <= MaxTurns]_vars /\ Fairness
=============================================================================
