------------------------- MODULE MCSubscriberNormal -------------------------
(* SubscriberNormal on small instances; see the MCSubscriberNormal*.cfg.    *)
(* No symmetry is declared, because the runs check liveness.                *)
EXTENDS SubscriberNormal

CONSTANTS t1, t2
=============================================================================
