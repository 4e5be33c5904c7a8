----------------------------- MODULE MCSourcing -----------------------------
(* Instances of Sourcing for TLC. *)
EXTENDS Sourcing, TLC

CONSTANTS ann, bob, x, y, z, w1, w2
=============================================================================
