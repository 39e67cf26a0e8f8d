-------------------------- MODULE MCLayerConnector --------------------------
(* LayerConnector on a small instance; see MCLayerConnector.cfg.            *)
EXTENDS LayerConnector

CONSTANTS a1, a2, t1, t2, d1, d2
=============================================================================
