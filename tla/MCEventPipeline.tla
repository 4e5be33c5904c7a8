-------------------------- MODULE MCEventPipeline --------------------------
(* Instances of EventPipeline for TLC. *)
EXTENDS EventPipeline

CONSTANTS e1, e2, r1, r2, m1, m2

TwoEvents   == {e1, e2}
TwoRelays   == {r1, r2}
TwoMembers  == {m1, m2}
NoneRefused == {}
OneLetter   == {e2}
=============================================================================
