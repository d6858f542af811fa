--------------------------- MODULE CoherentStore ---------------------------
(***************************************************************************)
(* What a store of answers promises to those who ask devices through it.   *)
(*                                                                         *)
(* A source (a device) is at a version, and the store may hold one answer  *)
(* per key.  When a source moves on, its host is adrift until the store    *)
(* has dropped what it held of it.  For a host that is not adrift the      *)
(* store takes in the present version and nothing else, so that what it    *)
(* serves is the truth.  How long answers are kept, how many, and which    *)
(* are dropped for want of room is left open.                              *)
(***************************************************************************)
EXTENDS Integers

CONSTANTS
  Hosts, Queries,   \* a key is a host and what it is asked
  None

Keys == Hosts \X Queries

VARIABLES
  running,  \* host -> the version it is at
  stored,   \* key -> the version the store answers, or None
  drifted   \* hosts that moved on since the store last dropped their answers

vars == <<running, stored, drifted>>

Init ==
  /\ running = [h \in Hosts |-> 0]
  /\ stored = [k \in Keys |-> None]
  /\ drifted = {}

\* The source moves on.
Change(h) ==
  /\ running' = [running EXCEPT ![h] = @ + 1]
  /\ drifted' = drifted \cup {h}
  /\ UNCHANGED stored

\* An answer is taken in; others may have to make room for it.
Store(k) ==
  \E v \in 0..running[k[1]], lost \in SUBSET (Keys \ {k}) :
    /\ k[1] \notin drifted => v = running[k[1]]
    /\ stored' = [j \in Keys |-> IF j = k THEN v ELSE IF j \in lost THEN None ELSE stored[j]]
    /\ UNCHANGED <<running, drifted>>

\* The answers of some hosts are dropped.  A host may stay adrift: an answer from
\* before the change can still be on its way.
Invalidate(hosts) ==
  /\ stored' = [k \in Keys |-> IF k[1] \in hosts THEN None ELSE stored[k]]
  /\ drifted' \in {drifted \ settled : settled \in SUBSET hosts}
  /\ UNCHANGED running

Next ==
  \/ \E h \in Hosts : Change(h)
  \/ \E k \in Keys : Store(k)
  \/ \E hosts \in SUBSET Hosts : Invalidate(hosts)

Spec == Init /\ [][Next]_vars

-----------------------------------------------------------------------------
\* Whoever is served from the store while no change is unaccounted for is told
\* what the device itself would answer: the promise of cache.py to the tools that
\* show and to the tools that change.
Coherent ==
  \A k \in Keys : stored[k] = None \/ k[1] \in drifted \/ stored[k] = running[k[1]]
=============================================================================
