--------------------------- MODULE MCOutboxRelay ---------------------------
(* Instances of OutboxRelay for TLC. *)
EXTENDS OutboxRelay, TLC

CONSTANTS e1, e2, e3, r1, r2

ThreeEvents == {e1, e2, e3}
OneRelay    == {r1}
OneRefused  == {e1}
=============================================================================
