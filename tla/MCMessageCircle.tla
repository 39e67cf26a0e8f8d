-------------------------- MODULE MCMessageCircle --------------------------
(* MessageCircle on small instances; see the MCMessageCircle_*.cfg files. *)
EXTENDS MessageCircle, TLC

CONSTANTS b1, e, c1, c2

\* Consumers are interchangeable, and every property of the runs
\* is a safety property.
Perms == Permutations({c1, c2})
=============================================================================
