------------------------------ MODULE MCStartup ------------------------------
EXTENDS Startup

CONSTANTS v1, v2, w1, d1, d2, alice, kc, kd

(* alice's versions v1, v2 of kc and w1 of kd; d1 asks, between the first  *)
(* and the second, for kc and kd to be deleted, d2, the newest, for kc.    *)
MCSigner == [e \in Event |-> alice]
MCCreatedAt == [e \in Event |-> CASE e = v2 -> 3 [] e = d1 -> 2 [] e = d2 -> 4 [] OTHER -> 1]
MCRank == [e \in Event |-> 1]
MCCoordOf == [e \in Event |-> CASE e \in {v1, v2} -> kc [] e = w1 -> kd [] OTHER -> NoCoord]
MCNone == [e \in Event |-> {}]
MCATargets == [e \in Event |-> CASE e = d1 -> {kc, kd} \cap Coord [] e = d2 -> {kc} [] OTHER -> {}]
MCCoordAuthor == [c \in Coord |-> alice]
MCAmb == [c \in Coord |-> "amb"]
=============================================================================
