------------------------------ MODULE CallSteps ------------------------------
(* Tools that change the configuration are called, and a call goes from place   *)
(* to place.                                                                    *)

CONSTANTS Calls, None

VARIABLE pc  \* where a call is, or another thread beside it

Goto(t, from, to) == pc[t] = from /\ pc' = [pc EXCEPT ![t] = to]
==============================================================================
