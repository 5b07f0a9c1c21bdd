----------------------------- MODULE MCSession -----------------------------
(* Instances of Session for TLC.  Calls and tabs are interchangeable.      *)
EXTENDS Session, TLC

Symmetry == Permutations(Calls) \cup Permutations(Tabs)
=============================================================================
