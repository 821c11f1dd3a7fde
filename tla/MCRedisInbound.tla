--------------------------- MODULE MCRedisInbound ---------------------------
(* The instances and the handlers are interchangeable; the keys are not, as *)
(* an idle record names one of them.                                        *)
EXTENDS RedisInbound, TLC

Symmetry == Permutations(Agents) \cup Permutations(Handlers)
=============================================================================
