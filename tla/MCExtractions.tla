--------------------------- MODULE MCExtractions ---------------------------
(* Instances of Extractions for TLC. *)
EXTENDS Extractions, TLC

CONSTANTS i1, i2, k1, k2, h1, h2, u1, u2

OneInteraction  == {i1}
OneName         == {k1}
TwoNames        == {k1, k2}
TwoHandlers     == {h1, h2}
TwoUsers        == {u1, u2}

Symmetry == Permutations(Handlers) \cup Permutations(Users)
=============================================================================
