-------------------------- MODULE MCChangePipeline --------------------------
EXTENDS ChangePipeline, TLC

CONSTANT x

\* To remove the line is to set its absence, and a run begins with either.
SetOrBlank == {[op |-> "set", line |-> x], [op |-> "blank"]}

\* The two calls are alike.
CallsAreAlike == Permutations(Calls)
=============================================================================
