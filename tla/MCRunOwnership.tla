--------------------------- MODULE MCRunOwnership ---------------------------
(* Small instances of RunOwnership. *)
EXTENDS RunOwnership

CONSTANTS o1, o2, c1, c2, p1, p2

MCOwners  == {o1, o2}
MCCallers == {c1, c2}
MCProcs   == {p1}
OneOwner  == {o1}
OneCaller == {c1}
TwoProcs  == {p1, p2}

=============================================================================
