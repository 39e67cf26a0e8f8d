------------------------------ MODULE MCIngest ------------------------------
(* Ingest on a small instance; see MCIngest.cfg.  No symmetry is declared,  *)
(* because the run checks liveness.                                         *)
EXTENDS Ingest

CONSTANTS t1, t2, t3, p1, p2, l1

\* The layer connector relays a topic that publishers use too.
MCLayerTopics == <<t1>>
=============================================================================
