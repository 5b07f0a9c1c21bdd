------------------------------ MODULE MCPages ------------------------------
(***************************************************************************)
(* WebPages for TLC.  The page of a project makes no difference between    *)
(* its requests but by what is in them: answers are taken in any order,    *)
(* and late is not read.  So states that differ in that order are one.     *)
(***************************************************************************)
EXTENDS WebPages

\* How many of each kind are under way.
UnderWay ==
  LET kind(c) == [op |-> c.op, arg |-> c.arg, token |-> c.token, res |-> c.res]
      kinds == { kind(calls[i]) : i \in DOMAIN calls }
  IN [k \in kinds |-> Len(SelectSeq(calls, LAMBDA c : kind(c) = k))]

View ==
  IF route = "project" THEN <<UnderWay, token, good, dirty, failures, projectVars>>
  ELSE vars
=============================================================================
