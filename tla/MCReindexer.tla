----------------------------- MODULE MCReindexer -----------------------------
(* Two versions of an AMB document written within one second (x1 has the   *)
(* lower id), and two of a publication (y1 the older, with the higher id). *)
EXTENDS Reindexer, TLC

CONSTANTS x1, x2, y1, y2, alice, bob, kx, ky, p1, p2

MCSigner == [e \in Event |-> IF e \in {x1, x2} THEN alice ELSE bob]
MCCreatedAt == [e \in Event |-> IF e = y1 THEN 1 ELSE 2]
MCRank == [e \in Event |-> CASE e = x1 -> 1 [] e = x2 -> 2 [] e = y1 -> 4 [] OTHER -> 3]
MCCoordOf == [e \in Event |-> IF e \in {x1, x2} THEN kx ELSE ky]
MCNone == [e \in Event |-> {}]
MCCoordAuthor == [c \in Coord |-> IF c = kx THEN alice ELSE bob]
MCCollection == [c \in Coord |-> IF c = kx THEN "amb" ELSE "structured"]
=============================================================================
