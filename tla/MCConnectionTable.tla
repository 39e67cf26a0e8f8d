------------------------- MODULE MCConnectionTable -------------------------
(* ConnectionTable on small instances; see MCConnectionTable.cfg and        *)
(* MCConnectionTable_descriptor.cfg.  No symmetry is declared, because the  *)
(* first run checks liveness.                                               *)
EXTENDS ConnectionTable

CONSTANTS k1, k2, f1, f2, none
=============================================================================
