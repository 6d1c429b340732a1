------------------------------ MODULE MCSetRuntime ------------------------------
(* Instances of SetRuntime for TLC. *)
EXTENDS SetRuntime, TLC

CONSTANTS r1, r2, r3, en, fr

\* Requests for one locale, or the first one for another.
OneLocale  == [r \in Requests |-> en]
TwoLocales == [r \in Requests |-> IF r = r1 THEN fr ELSE en]

\* The requests for the same locale can be exchanged.
SameLocaleSymmetry == Permutations({r2, r3})
=================================================================================
