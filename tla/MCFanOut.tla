------------------------------ MODULE MCFanOut ------------------------------
(* Instances of FanOut for model checking: three targets, with and without a device *)
(* that is named twice.                                                             *)
EXTENDS FanOut

CONSTANTS d1, d2, d3

MCTargetLists == {<<d1, d2, d3>>, <<d1, d2, d1>>}
=============================================================================
