--------------------------- MODULE MCDriverSession ---------------------------
(* Instances of DriverSession. *)
EXTENDS DriverSession

\* Either driver with either transport, at the right port and at the wrong one.
AllKinds == [transport : {"rest", "nxapi", "ssh"}, port : {"api", "shell"}]
=============================================================================
