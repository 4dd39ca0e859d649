-------------------------- MODULE MCEventDelivery --------------------------
(***************************************************************************)
(* Instance of EventDelivery: two threads that add, three events (one of   *)
(* them refused by the schema), a queue of two and batches of two, two     *)
(* handlers of POST /events, two scans of the cron.                        *)
(***************************************************************************)
EXTENDS EventDelivery

RefusedSet == {3}

=============================================================================
