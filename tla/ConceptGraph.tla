---------------------------- MODULE ConceptGraph ----------------------------
(***************************************************************************)
(* Concept expansion: the graph vocabmap builds from concepts and mappings *)
(* and the walk that turns one queried identifier into the identifiers a   *)
(* filter on it also matches.  Identifiers are numbers because the walk    *)
(* sorts them.  No state.                                                  *)
(***************************************************************************)
EXTENDS Integers, FiniteSets, SequencesExt

CONSTANTS
  Concept,     \* identifiers
  MaxDepth,    \* narrowing steps of an expansion
  MaxResults   \* identifiers one expansion returns

ASSUME ConceptAssumption ==
  /\ Concept \subseteq Nat /\ IsFiniteSet(Concept)
  /\ MaxDepth \in Nat /\ MaxResults \in Nat \ {0}

Reversed(pairs) == {<<p[2], p[1]>> : p \in pairs}

Symmetric(pairs) == pairs \cup Reversed(pairs)

Proper(pairs) == pairs \ {<<x, x>> : x \in Concept}

(* What the mappings of relation r say.  One with several targets says     *)
(* nothing about any of them.                                              *)
Pairs(mappings, r) ==
  {<<m.from, CHOOSE t \in m.to : TRUE>> : m \in {m \in mappings : m.relation = r /\ Cardinality(m.to) = 1}}

(* The identifier behind the address a hierarchy link names.  A concept    *)
(* that is not loaded goes by its address.                                 *)
Resolve(concepts, address) ==
  IF \E c \in concepts : c.address = address
  THEN (CHOOSE c \in concepts : c.address = address).id
  ELSE address

Hierarchy(concepts) ==
  UNION {{<<Resolve(concepts, b), c.id>> : b \in c.broader} \cup {<<c.id, Resolve(concepts, n)>> : n \in c.narrower}
           : c \in concepts}

(* An exact match that is also broad, narrow or related is not taken for   *)
(* exact; which of the two concepts a mapping starts from does not matter. *)
NewGraph(concepts, mappings) ==
  LET broad == Pairs(mappings, "broadMatch")
      narrow == Pairs(mappings, "narrowMatch")
      related == Pairs(mappings, "relatedMatch")
  IN [exact |-> Proper(Symmetric(Pairs(mappings, "exactMatch")) \ Symmetric(broad \cup narrow \cup related)),
      close |-> Proper(Symmetric(Pairs(mappings, "closeMatch"))),
      related |-> Proper(Symmetric(related)),
      narrower |-> Proper(Hierarchy(concepts) \cup Reversed(broad) \cup narrow)]

(* The numbers in S, least first. *)
InOrder(S) == [i \in 1 .. Cardinality(S) |-> CHOOSE n \in S : Cardinality({m \in S : m <= n}) = i]

Neighbours(pairs) == [x \in Concept |-> InOrder({p[2] : p \in {p \in pairs : p[1] = x}})]

With(seq, x) == IF Contains(seq, x) THEN seq ELSE Append(seq, x)

(* seq with what is new in more, in order *)
Extend(seq, more) ==
  LET upTo[n \in 0 .. Len(more)] == IF n = 0 THEN seq ELSE With(upTo[n - 1], more[n])
  IN upTo[Len(more)]

(* What next says of the members of seq, one after the other. *)
AllOf(seq, next) ==
  LET upTo[n \in 0 .. Len(seq)] == IF n = 0 THEN <<>> ELSE upTo[n - 1] \o next[seq[n]]
  IN upTo[Len(seq)]

(* A wave is what is new beyond the waves before it. *)
Wave(all, before) == [all |-> all, new |-> SubSeq(all, before + 1, Len(all))]

NextWave(found, next) ==
  IF found.new = <<>> THEN found ELSE Wave(Extend(found.all, AllOf(found.new, next)), Len(found.all))

ExactClosure(g, x) ==
  LET wave[n \in 0 .. Cardinality(g.exact)] ==
        IF n = 0 THEN Wave(<<x>>, 0) ELSE NextWave(wave[n - 1], Neighbours(g.exact))
  IN wave[Cardinality(g.exact)].all

(* Mutant of WithClose: close matches of close matches count. *)
WithCloseChained(g, exact) ==
  LET once == Extend(exact, AllOf(exact, Neighbours(g.close))) IN Extend(once, AllOf(once, Neighbours(g.close)))

WithClose(g, exact) == Extend(exact, AllOf(exact, Neighbours(g.close)))

(* A child found for the first time comes with its exact closure. *)
Children(g, found) ==
  LET closure == [c \in Concept |-> IF Contains(found, c) THEN <<>> ELSE ExactClosure(g, c)]
  IN [x \in Concept |-> AllOf(Neighbours(g.narrower)[x], closure)]

Narrower(g, near) ==
  LET wave[n \in 0 .. MaxDepth] ==
        IF n = 0 THEN Wave(near, 0)
        ELSE LET found == wave[n - 1] IN NextWave(found, Children(g, found.all))
  IN wave[MaxDepth].all

(* The whole expansion, nearest first. *)
Uncapped(g, id, related) ==
  LET exact == ExactClosure(g, id)
      narrower == Narrower(g, WithClose(g, exact))
  IN IF related THEN Extend(narrower, AllOf(exact, Neighbours(g.related))) ELSE narrower

Expand(g, id, related) ==
  LET all == Uncapped(g, id, related) IN SubSeq(all, 1, Min({MaxResults, Len(all)}))
-----------------------------------------------------------------------------
(* Reference: the same in terms of paths.  Same is the least set that      *)
(* holds x and every exact match of a member.                              *)

Same(g, x) ==
  LET ids == {x} \cup {p[1] : p \in g.exact}
  IN {y \in ids : \A S \in SUBSET ids :
        x \in S /\ (\A p \in g.exact : p[1] \in S => p[2] \in S) => y \in S}

Near(g, id) == Same(g, id) \cup {p[2] : p \in {p \in g.close : p[1] \in Same(g, id)}}

(* Below at most d steps from the concepts in near.  A concept that is     *)
(* there as a close match does not bring its exact matches along.          *)
Below(g, near, d) ==
  LET step(S) == S \cup UNION {Same(g, p[2]) : p \in {p \in g.narrower : p[1] \in S /\ p[2] \notin near}}
      down[n \in 0 .. d] == IF n = 0 THEN near ELSE step(down[n - 1])
  IN down[d]

ShouldMatch(g, id, related) ==
  Below(g, Near(g, id), MaxDepth)
    \cup (IF related THEN {p[2] : p \in {p \in g.related : p[1] \in Same(g, id)}} ELSE {})

(* g, id and related are expanded as documented: to exactly the reference  *)
(* when it fits, else to a full list from it that prefers the exact and    *)
(* close matches.                                                          *)
ExpandedRight(g, id, related) ==
  LET ids == Expand(g, id, related)
      all == ShouldMatch(g, id, related)
  IN /\ IsInjective(ids) /\ ids[1] = id
     /\ IF Cardinality(all) <= MaxResults
        THEN ToSet(ids) = all
        ELSE /\ Len(ids) = MaxResults /\ ToSet(ids) \subseteq all
             /\ Near(g, id) \subseteq ToSet(ids) \/ ToSet(ids) \subseteq Near(g, id)
             /\ Same(g, id) \subseteq ToSet(ids) \/ ToSet(ids) \subseteq Same(g, id)
=============================================================================
