------------------------------ MODULE MCEvents ------------------------------
(* A small world for the model checker: up to two authors; versions v1, v2 *)
(* (in this order) and u1 of the coordinates kc and kd; deletion requests  *)
(* by alice for kc: del, made between v1 and v2 and also for the id v1,    *)
(* and old, made earlier.  A configuration picks the events and            *)
(* coordinates it needs.                                                   *)
EXTENDS RelayEvents

CONSTANTS v1, v2, u1, del, old, alice, bob, kc, kd, cm, cn

MCSigner == [e \in Event |-> IF e = u1 THEN bob ELSE alice]
MCCreatedAt == [e \in Event |-> IF e = v2 THEN 3 ELSE IF e = del THEN 2 ELSE 1]
MCLateDeletion == [e \in Event |-> IF e = v2 THEN 2 ELSE IF e = del THEN 3 ELSE 1]
MCRank == [e \in Event |-> 1]
MCCoordOf == [e \in Event |-> CASE e \in {v1, v2} -> kc
                                [] e = u1 -> kd
                                [] OTHER -> NoCoord]
MCNoTags == [e \in Event |-> {}]
MCOwnTags == [e \in Event |-> IF e = v1 THEN {cm} ELSE {}]
MCETargets == [e \in Event |-> IF e = del THEN {v1} \cap Event ELSE {}]
MCNoETargets == [e \in Event |-> {}]
MCATargets == [e \in Event |-> IF e \in {del, old} THEN {kc} \cap Coord ELSE {}]
MCNoATargets == [e \in Event |-> {}]
MCCoordAuthor == [c \in Coord |-> IF c = kd THEN bob ELSE alice]
MCAmb == [c \in Coord |-> "amb"]
MCMixed == [c \in Coord |-> IF c = kd THEN "structured" ELSE "amb"]
MCStructured == [c \in Coord |-> "structured"]
=============================================================================
