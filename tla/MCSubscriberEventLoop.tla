----------------------- MODULE MCSubscriberEventLoop -----------------------
(* SubscriberEventLoop on a small instance; see MCSubscriberEventLoop.cfg.  *)
(* No symmetry is declared, because the run checks liveness.                *)
EXTENDS SubscriberEventLoop

CONSTANTS t1, t2, nt
=============================================================================
