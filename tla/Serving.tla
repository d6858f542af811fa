------------------------------- MODULE Serving -------------------------------
(* What the limiters and breakers that stand before the devices have in common. *)

CONSTANTS
  Requests,  \* threads that run a tool call
  Hosts,     \* devices
  None
==============================================================================
