--------------------------- MODULE MCAutoRollback ---------------------------
EXTENDS AutoRollback, TLC

\* The two calls are alike.
CallsAreAlike == Permutations(Calls)
=============================================================================
