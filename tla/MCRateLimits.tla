---------------------------- MODULE MCRateLimits ----------------------------
(***************************************************************************)
(* An instance of RateLimits for TLC: two requests of one user, one of     *)
(* them not limited by user, to one device.                                *)
(***************************************************************************)
EXTENDS RateLimits, TLC

CONSTANTS r1, r2, u, h

MCKeysOf == r1 :> <<u, h>> @@ r2 :> <<h>>

\* Identities of buckets are interchangeable.
Symmetry == Permutations(Buckets)
=============================================================================
