----------------------------- MODULE MCFrontend -----------------------------
(* Platforms of three and four PEs for Frontend, up to the names of the sons. *)
EXTENDS Frontend

CONSTANTS r, a, b, c

Star  == [s \in {a, b, c} |-> r]
Mixed == [s \in {a, b, c} |-> IF s = b THEN a ELSE r]
Fork  == [s \in {a, b, c} |-> IF s = a THEN r ELSE a]
Chain == [s \in {a, b, c} |-> IF s = a THEN r ELSE IF s = b THEN a ELSE b]

AllTrees == {Star, Mixed, Fork, Chain}
OnlyFork == {Fork}
=============================================================================
