---------------------------- MODULE MCDesignIndex ----------------------------
(* An instance of DesignIndex for TLC: two molds of one part that Rebrickable  *)
(* knows, a third it only knows as their mold and BrickLink finds as the first *)
(* one.  One element is sold, of the first and the third design.               *)
EXTENDS DesignIndex, TLC

CONSTANTS a, b, x, e1, e2, r1, r2

KnownMolds == a :> {b, x} @@ b :> {a, x}
SoldElements == a :> {e1} @@ b :> {} @@ x :> {e1}
ElementDesign == e1 :> a @@ e2 :> a
Findings == a :> {a} @@ b :> {b} @@ x :> {a} @@ e1 :> {x} @@ e2 :> {a}

\* Requests are alike.
RequestSymmetry == Permutations({r1, r2})
==============================================================================
