--------------------------- MODULE MCCommandCache ---------------------------
(* Instances of CommandCache for model checking. *)
EXTENDS CommandCache, TLC

\* Queries are told apart only by name, and so are shows and changes: the entries'
\* order is one of use, which no permutation disturbs.
MCSymmetry == Permutations(Queries) \cup Permutations(Shows) \cup Permutations(Changes)
=============================================================================
