----------------------------- MODULE MCDomains -----------------------------
(* Instances of Domains for TLC: a.b, a-b and c, the first two of which have  *)
(* one route name.  Requests are interchangeable.                             *)
EXTENDS Domains

CONSTANTS a, b, c
Dotted == <<<<a>>, <<b>>>>
Dashed == <<<<a, b>>>>
Plain  == <<<<c>>>>
SomeHosts == {Dotted, Dashed, Plain}

Symmetry == Permutations(Requests)
=============================================================================
