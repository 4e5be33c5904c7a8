---------------------------- MODULE MCIngestion ----------------------------
(* Instances of Ingestion for TLC. *)
EXTENDS Ingestion, TLC

CONSTANTS h1, h2, e1, e2, e3, e4, m1, m2, m3, m4, ann, bob, cy

TwoHandlers == {h1, h2}
AllPersons  == {ann, bob, cy}
Colleagues  == {ann, bob}

\* m1 is a mail of Bob's with Cy, m2 one of Ann's in the house; m3, between all
\* three, came before: recomputing Ann's pairs sees m3 but not m1.  m4 is automated.
ThreeSources == {e1, e2, e3}
FourMails    == {m1, m2, m3, m4}
MailOf       == (e1 :> m1) @@ (e2 :> m2) @@ (e3 :> m4)
MailPeople   == (m1 :> {bob, cy}) @@ (m2 :> {ann}) @@ (m3 :> {ann, bob, cy}) @@ (m4 :> {cy})
EarlierMail  == {m3}
ListMail     == {m4}
OldMail      == {m3}
=============================================================================
