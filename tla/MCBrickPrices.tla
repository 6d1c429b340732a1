--------------------------- MODULE MCBrickPrices ---------------------------
(***************************************************************************)
(* An instance of BrickPrices.  Set s1 reads an inventory in locale "us",  *)
(* s2 listens to it in locale "fr", and s3 is another set in locale "us"   *)
(* with a brick of the same element and a custom one.  Elements e1 and e2  *)
(* are two elements of one part and colour, e3 another colour of the same  *)
(* design.                                                                 *)
(***************************************************************************)
EXTENDS BrickPrices

CONSTANTS s1, s2, s3, b1, b2, b3, c, e1, e2, e3

MCInventoryOf == [s \in Sets |-> IF s = s3 THEN {b3, c} ELSE {b1, b2}]
MCWriterOf == [s \in Sets |-> IF s = s2 THEN s1 ELSE s]
MCLocaleOf == [s \in Sets |-> IF s = s2 THEN "fr" ELSE "us"]
MCElementOf == [b \in Bricks |-> CASE b \in {b1, b3} -> e1 [] b = b2 -> e3 [] OTHER -> None]
MCDesignOf == [x \in Bricks \cup Elements |-> IF x = c THEN "d2" ELSE "d1"]
MCPartColor == [e \in Elements |-> IF e = e3 THEN {e3} ELSE {e1, e2}]
MCQuantity == [b \in Bricks |-> IF b = b2 THEN 2 ELSE 1]

\* The listener beside its writer, or two writers in one locale.
MCRunning == {{s1, s2}, {s1, s3}}

\* Both siblings, one of them or none sold, or the second one in "fr" only; e3 always.
MCOffers == {[e \in Elements |-> [l \in Locales |->
                CASE e = e1 -> sold.own [] e = e2 -> sold.sibling[l] [] OTHER -> 1]] :
             sold \in [own : {0, 2}, sibling : {[l \in Locales |-> n] : n \in {0, 1}}]
                    \cup [own : {0}, sibling : {[us |-> 0, fr |-> 1]}]}

\* Redis knows nothing, an old lower price of e1, e1 as not found, or an old higher
\* price of e2; and e3.
MCStored == {[e \in Elements |-> [l \in Locales |->
                CASE e = e1 -> entry.own [] e = e2 -> entry.sibling
                  [] OTHER -> IF l = "us" THEN other ELSE None]] :
             entry \in [own : {None, 0, 1}, sibling : {None}] \cup [own : {None}, sibling : {2}],
             other \in {None, 1}}
=============================================================================
