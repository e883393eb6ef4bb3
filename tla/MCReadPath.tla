----------------------------- MODULE MCReadPath -----------------------------
(* A concordance of two authors, the second of which is also asked for as  *)
(* an author, two further authors, one without mappings, and documents in  *)
(* two collections.  Two of the concordance's mappings share a second, and *)
(* so do the helper's three until he publishes a new version of one.       *)
EXTENDS ReadPath

CONSTANTS cc, m1, m2, m2b, m3, m4, mp, mq, mr, k3, k4, owner, helper, paul, nora, scheme, r1, r2,
          keyC, keyH, keyN, keyP, e1, e2, e3, amb, wiki, q1, q2

Mapping(address, author, at, from, relation, to, partOf, schemes) ==
  [kind |-> "mapping", address |-> address, author |-> author, createdAt |-> at, rank |-> 1, valid |-> TRUE,
   from |-> from, relation |-> relation, to |-> to, partOf |-> partOf, between |-> 1, schemes |-> schemes]

KnownConcept(id, at, narrower) ==
  [kind |-> "concept", address |-> 30 + id, id |-> id, createdAt |-> at, rank |-> 1, valid |-> TRUE,
   broader |-> {}, narrower |-> narrower, schemes |-> {scheme}]

MCNote == (cc :> [kind |-> "concordance", address |-> 100, author |-> owner, createdAt |-> 5, rank |-> 1,
                  valid |-> TRUE, maintainers |-> {helper}, between |-> 1, schemes |-> {scheme}])
  @@ (m1 :> Mapping(201, owner, 5, 1, "exactMatch", {2}, 100, {scheme}))
  @@ (m2 :> Mapping(202, helper, 2, 2, "closeMatch", {3}, 100, {scheme}))
  @@ (m2b :> Mapping(202, helper, 6, 3, "closeMatch", {1}, 100, {scheme}))
  @@ (m3 :> Mapping(203, owner, 3, 4, "exactMatch", {5}, 100, {scheme}))
  @@ (m4 :> Mapping(204, owner, 3, 5, "closeMatch", {1}, 100, {scheme}))
  @@ (mp :> Mapping(205, paul, 2, 1, "broadMatch", {2}, 0, {}))
  @@ (mq :> Mapping(206, helper, 2, 5, "narrowMatch", {1}, 0, {scheme}))
  @@ (mr :> Mapping(207, helper, 2, 2, "relatedMatch", {4}, 0, {scheme}))
  @@ (k3 :> KnownConcept(3, 4, {34}))
  @@ (k4 :> KnownConcept(4, 2, {31}))

MCRelays == <<r1, r2>>
MCMoving == {<<r1, m2b>>}
MCInitialNotes == (r1 :> Note \ {m2b}) @@ (r2 :> {cc})
MCKeys == <<keyC, keyH, keyN, keyP>>
MCSource == (keyC :> [kind |-> "concordance", of |-> 100]) @@ (keyH :> [kind |-> "author", of |-> helper])
  @@ (keyN :> [kind |-> "author", of |-> nora]) @@ (keyP :> [kind |-> "author", of |-> paul])

MCCollections == <<amb, wiki>>
MCCollectionOf == (e1 :> amb) @@ (e2 :> amb) @@ (e3 :> wiki)
MCConcepts == (e1 :> [about |-> {1}, level |-> {4}]) @@ (e2 :> [about |-> {3}, level |-> {}])
  @@ (e3 :> [about |-> {}, level |-> {}])

Group(field, values) == [field |-> field, values |-> values]
Request(op, kinds, related, trust, groups) ==
  [op |-> op, kinds |-> kinds, off |-> FALSE, related |-> related, trust |-> trust, groups |-> groups]

MCFilters ==
  (q1 :> {Request("req", <<amb>>, FALSE, {keyH}, <<Group("about", {1}), Group("level", {4})>>),
          Request("req", <<>>, FALSE, {}, <<>>)})
  @@ (q2 :> {Request("count", <<amb>>, TRUE, {keyN, keyP}, <<Group("about", {1, 4})>>)})
=============================================================================
