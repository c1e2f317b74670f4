------------------------------- MODULE MCPools -------------------------------
(* A small pool for TLC: two queries of two kinds. *)
EXTENDS Pools

CONSTANTS i1, s1

MCFeatures == {"interactive", "scheduled"}
MCRank    == [f \in MCFeatures |-> IF f = "interactive" THEN 0 ELSE 1]
MCFloor   == [f \in MCFeatures |-> IF f = "interactive" THEN 50 ELSE 0]
MCCeiling == [f \in MCFeatures |-> 100]
MCFeature == [h \in Holders |-> IF h = i1 THEN "interactive" ELSE "scheduled"]
==============================================================================
