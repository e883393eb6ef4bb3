------------------------- MODULE MCCommunityStamper -------------------------
(* Two versions v1, v2 of one coordinate, and shares s1, s2 of it into the *)
(* communities cm and cn.  cm has no definition, so everybody is its       *)
(* member; cn leaves kind kk to the members of l1 and has an open section  *)
(* for other kinds.                                                        *)
EXTENDS CommunityStamper, TLC

CONSTANTS v1, v2, s1, s2, alice, bob, kc, cm, cn, kk, l1, p1, p2, r1, r2, loop

MCSigner == [e \in Event |-> IF e \in Share THEN bob ELSE alice]
MCCreatedAt == [e \in Event |-> IF e = v2 THEN 2 ELSE 1]
MCRank == [e \in Event |-> 1]
MCCoordOf == [e \in Event |-> IF e \in Share THEN NoCoord ELSE kc]
MCOwnTags == [e \in Event |-> IF e = v2 THEN {cm} ELSE {}]
MCNoETargets == [e \in Event |-> {}]
MCCoordAuthor == [c \in Coord |-> alice]
MCStructured == [c \in Coord |-> "structured"]
MCRefersTo == [s \in Share |-> kc]
MCInto == [s \in Share |-> IF s = s1 THEN {cn} ELSE {cm}]
MCKindOf == [c \in Coord |-> kk]
MCOwner == [c \in Community |-> alice]
MCDefinitions ==
  (cm :> {NoDefinition}) @@ (cn :> {{[kinds |-> {kk}, list |-> l1], [kinds |-> {}, list |-> NoList]}})

AnyRecon == Permutations(Recon)
=============================================================================
