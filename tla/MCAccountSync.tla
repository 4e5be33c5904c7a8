--------------------------- MODULE MCAccountSync ---------------------------
(* Instances of AccountSync for TLC. *)
EXTENDS AccountSync, TLC

CONSTANTS inbox, all, a1, a2

TwoScopes   == {inbox, all}
TwoAttempts == {a1, a2}

\* The narrow scope misses the first item, which the wide one has.
Labels == (inbox :> {2}) @@ (all :> {1, 2})
=============================================================================
