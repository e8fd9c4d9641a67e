--------------------------- MODULE MCH3Connector ---------------------------
(* H3Connector for TLC: one origin that advertises a second generation, and *)
(* another one that competes for the place in the cache.                    *)
EXTENDS H3Connector
CONSTANTS k1, k2
ModelTargets == {<<k1, 1>>, <<k1, 2>>, <<k2, 1>>}
=============================================================================
