---------------------------- MODULE MCCrmImport ----------------------------
(* Instances of CrmImport for TLC. *)
EXTENDS CrmImport, TLC

CONSTANTS f1, s1, s2
=============================================================================
