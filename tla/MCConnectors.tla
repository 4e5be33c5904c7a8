--------------------------- MODULE MCConnectors ---------------------------
(* Instances of Connectors for TLC. *)
EXTENDS Connectors, TLC

CONSTANTS a1, a2, c1, c2

AllProviders == {"google", "microsoft", "zoom", "google_meet"}
OutlookFolders == <<"inbox", "sent">>
Mailboxes == [f \in Feeds |-> IF f = "sent" THEN 0 ELSE IF f = "calendar" THEN 1 ELSE 2]
MostChanges == [f \in Feeds |-> IF f = "gmail" THEN 4 ELSE Mailboxes[f] + IF f = "inbox" THEN 0 ELSE 1]
LastDays  == [google |-> 5, microsoft |-> 6, zoom |-> 6, google_meet |-> 6]
SomeSkipped == {<<"gmail", 2>>, <<"inbox", 1>>}
EventDays == <<6, 8>>
CallDays  == (c1 :> 3) @@ (c2 :> 4)
Overlaps  == [zoom |-> 2, google_meet |-> 1]
=============================================================================
