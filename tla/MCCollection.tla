---------------------------- MODULE MCCollection ----------------------------
(* Instances of Collection for TLC. *)
EXTENDS Collection, TLC

CONSTANTS c1, c2, s1, s2, vendor, registry, news, crm, github, domain, number, x, y, empty

TwoCompanies  == {c1, c2}
Transactions  == {s1, s2}
Records       == {vendor, registry, news, crm}
RecordSource  == vendor :> "vendor" @@ registry :> "registry" @@ news :> "news" @@ crm :> "crm"
RecordId      == vendor :> domain @@ registry :> number @@ news :> Null @@ crm :> domain
IdKind        == domain :> "domain" @@ number :> "registry_id"
Symmetric     == Permutations(TwoCompanies) \cup Permutations(Transactions) \cup Permutations({x, y})
=============================================================================
