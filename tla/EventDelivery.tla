--------------------------- MODULE EventDelivery ---------------------------
(***************************************************************************)
(* What the outbox, the relays and a consumer group promise together,      *)
(* without saying how: an event becomes due exactly when the business      *)
(* change it reports commits; only due events are settled, that is applied *)
(* by the consumer or set aside as a dead letter; and no due event is      *)
(* forgotten, except one whose dead letter cannot be delivered.            *)
(***************************************************************************)
CONSTANTS
  Events,
  Droppable   \* events whose dead letter cannot be delivered

VARIABLES
  promised,   \* events whose business transaction committed
  settled,    \* events that were applied or set aside as a dead letter
  dropped     \* events that were given up and set aside nowhere

vars == <<promised, settled, dropped>>

Init == promised = {} /\ settled = {} /\ dropped = {}

Promise(e) ==
  /\ e \notin promised
  /\ promised' = promised \cup {e}
  /\ UNCHANGED <<settled, dropped>>

Settle(e) ==
  /\ e \in promised \ settled
  /\ settled' = settled \cup {e}
  /\ UNCHANGED <<promised, dropped>>

\* Given up without a trace: never of an event outside Droppable.
Drop(e) ==
  /\ e \in (promised \cap Droppable) \ dropped
  /\ dropped' = dropped \cup {e}
  /\ UNCHANGED <<promised, settled>>

Next == \E e \in Events : Promise(e) \/ Settle(e) \/ Drop(e)

Spec == Init /\ [][Next]_vars

\* Whatever is due and not given up is settled.
FairSpec == Spec /\ \A e \in Events : WF_vars(e \notin dropped /\ Settle(e))
=============================================================================
