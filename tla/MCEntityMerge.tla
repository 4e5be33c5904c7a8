--------------------------- MODULE MCEntityMerge ---------------------------
(* Instances of EntityMerge for TLC. *)
EXTENDS EntityMerge, TLC

CONSTANTS k1, k2, k3, k4, s1, s2, s3

TwoEmails     == {k1, k2}
FourEmails    == {k1, k2, k3, k4}
NoDomains     == {}
OneDomain     == {k1}
OneSession    == {s1}
ThreeSessions == {s1, s2, s3}

Symmetry == Permutations(Emails) \cup Permutations(Sessions)
=============================================================================
