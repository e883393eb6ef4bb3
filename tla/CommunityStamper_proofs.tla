------------------------ MODULE CommunityStamper_proofs ------------------------
(***************************************************************************)
(* Theorems about the community stamper and the registry it asks, for      *)
(* every set of communities, lists, shares and versions, every number of   *)
(* reconcilers, refreshes and handlers.                                    *)
(***************************************************************************)
EXTENDS CommunityStamper, SequenceTheorems, FiniteSetTheorems, WellFoundedInduction, TLAPS

-----------------------------------------------------------------------------
(* Type correctness of the registry. *)

LEMMA NothingFetched == <<>> \in Fetched /\ DOMAIN <<>> = {}
<1>1. DOMAIN <<>> = {} /\ <<>> = [l \in {} |-> {}]
  OBVIOUS
<1>2. [l \in {} |-> {}] \in [{} -> SUBSET PubKey]
  OBVIOUS
<1> QED
  BY <1>1, <1>2 DEF Fetched

LEMMA OneMoreFetched ==
  ASSUME RegistryTypeOK, NEW got \in Fetched, NEW l \in List
  PROVE  Got(got, l) \in Fetched /\ DOMAIN Got(got, l) = DOMAIN got \cup {l}
<1>1. PICK L \in SUBSET List : got \in [L -> SUBSET PubKey]
  BY DEF Fetched
<1>2. lists[l] \in SUBSET PubKey
  BY RegistryAssumption DEF RegistryTypeOK
<1>3. Got(got, l) \in [L \cup {l} -> SUBSET PubKey]
  BY <1>1, <1>2 DEF Got
<1> QED
  BY <1>1, <1>3 DEF Fetched, Got

LEMMA MembershipType ==
  ASSUME NEW sections \in SUBSET Section, NEW got \in Fetched
  PROVE  BuildMembership(sections, got) \in Membership
<1>1. PICK L \in SUBSET List : got \in [L -> SUBSET PubKey]
  BY DEF Fetched
<1> DEFINE of(k) == {s.list : s \in {s \in sections : k \in s.kinds}}
           K == {k \in Kind : of(k) # {} /\ NoList \notin of(k)}
<1>2. BuildMembership(sections, got) = [k \in K |-> UNION {got[l] : l \in of(k) \cap DOMAIN got}]
  BY DEF BuildMembership
<1>3. \A k \in K : UNION {got[l] : l \in of(k) \cap DOMAIN got} \in SUBSET PubKey
  BY <1>1
<1>4. K \in SUBSET Kind
  OBVIOUS
<1> HIDE DEF K, of
<1>5. BuildMembership(sections, got) \in [K -> SUBSET PubKey]
  BY <1>2, <1>3
<1> QED
  BY <1>4, <1>5 DEF Membership

LEMMA DefinitionType ==
  ASSUME NEW c \in Community, NEW d \in Definitions[c], d # NoDefinition
  PROVE  d \in SUBSET Section
<1>1. Definitions[c] \in SUBSET ((SUBSET Section) \cup {NoDefinition})
  BY RegistryAssumption
<1>2. d \in (SUBSET Section) \cup {NoDefinition}
  BY <1>1
<1> QED
  BY <1>2

LEMMA IdleType == Idle \in Refresh /\ RefreshOK(Idle) /\ Idle.pc = "idle" /\ Idle.left = {}
  BY NothingFetched, RegistryAssumption DEF Idle, Refresh, RefreshOK

LEMMA RefreshStep ==
  ASSUME RegistryTypeOK, NEW g \in Refresher, NEW f \in Refresh, RefreshOK(f),
         refresh' = [refresh EXCEPT ![g] = f], UNCHANGED remoteVars,
         resolved' \in [Community -> Membership \cup {Unresolved}]
  PROVE  RegistryTypeOK'
<1>1. UNCHANGED <<definition, lists>>
  BY DEF remoteVars
<1>2. \A h \in Refresher : RefreshOK(refresh'[h])
  BY DEF RegistryTypeOK
<1> QED
  BY <1>1, <1>2 DEF RegistryTypeOK

LEMMA RegistryStepType ==
  ASSUME RegistryTypeOK, NEW g \in Refresher, NEW named \in SUBSET Community,
         \/ RefreshBegins(g, named) \/ RefreshEnds(g) \/ DefinitionFetched(g) \/ ListFetched(g)
         \/ Resolved(g) \/ DefinitionFails(g) \/ ListFails(g) \/ RefreshTimesOut(g)
  PROVE  RegistryTypeOK'
<1>0. /\ refresh[g] \in Refresh /\ RefreshOK(refresh[g])
      /\ resolved \in [Community -> Membership \cup {Unresolved}]
  BY DEF RegistryTypeOK
<1> USE DEF Refresh, RefreshOK
<1>1. CASE RefreshBegins(g, named)
  <2> DEFINE f == [Idle EXCEPT !.pc = "next", !.left = named]
  <2>1. f \in Refresh /\ RefreshOK(f)
    BY NothingFetched, RegistryAssumption DEF Idle
  <2> QED
    BY <1>0, <1>1, <2>1, RefreshStep DEF RefreshBegins
<1>2. CASE RefreshEnds(g)
  BY <1>0, <1>2, IdleType, RefreshStep DEF RefreshEnds
<1>3. CASE DefinitionFetched(g)
  <2>1. PICK c \in refresh[g].left : refresh' = [refresh EXCEPT ![g] =
           IF definition[c] = NoDefinition THEN [refresh[g] EXCEPT !.left = @ \ {c}]
           ELSE [refresh[g] EXCEPT !.pc = "lists", !.left = @ \ {c}, !.of = c,
                                   !.sections = definition[c], !.ask = ListsOf(definition[c])]]
    <3>1. PICK c \in refresh[g].left :
            LET rest == [refresh[g] EXCEPT !.left = @ \ {c}]
            IN refresh' = [refresh EXCEPT ![g] =
                 IF definition[c] = NoDefinition THEN rest
                 ELSE [rest EXCEPT !.pc = "lists", !.of = c, !.sections = definition[c],
                                   !.ask = ListsOf(definition[c])]]
      BY <1>3 DEF DefinitionFetched
    <3> QED
      BY <3>1
  <2>2. UNCHANGED <<remoteVars, resolved>> /\ refresh[g].pc = "next"
    BY <1>3 DEF DefinitionFetched
  <2>3. c \in Community /\ refresh[g].got = <<>>
    BY <1>0, <2>2
  <2>4. CASE definition[c] = NoDefinition
    <3> DEFINE f == [refresh[g] EXCEPT !.left = @ \ {c}]
    <3>1. f \in Refresh /\ RefreshOK(f)
      BY <1>0, <2>2
    <3> QED
      BY <1>0, <2>1, <2>2, <2>4, <3>1, RefreshStep
  <2>5. CASE definition[c] # NoDefinition
    <3> DEFINE f == [refresh[g] EXCEPT !.pc = "lists", !.left = @ \ {c}, !.of = c,
                                       !.sections = definition[c], !.ask = ListsOf(definition[c])]
    <3>1. definition[c] \in SUBSET Section
      BY <2>3, <2>5, DefinitionType DEF RegistryTypeOK
    <3>2. ListsOf(definition[c]) \in SUBSET List
      BY <3>1 DEF ListsOf, Section
    <3>3. f \in Refresh /\ RefreshOK(f)
      BY <1>0, <2>2, <2>3, <3>1, <3>2, NothingFetched
    <3> QED
      BY <1>0, <2>1, <2>2, <2>5, <3>3, RefreshStep
  <2> QED
    BY <2>4, <2>5
<1>4. CASE ListFetched(g)
  <2>1. PICK l \in refresh[g].ask :
          refresh' = [refresh EXCEPT ![g] = [refresh[g] EXCEPT !.ask = @ \ {l}, !.got = Got(@, l)]]
    BY <1>0, <1>4 DEF ListFetched, RegistryTypeOK
  <2> DEFINE f == [refresh[g] EXCEPT !.ask = @ \ {l}, !.got = Got(@, l)]
  <2>2. UNCHANGED <<remoteVars, resolved>> /\ refresh[g].pc = "lists"
    BY <1>4 DEF ListFetched
  <2>3. l \in List
    BY <1>0
  <2>4. Got(refresh[g].got, l) \in Fetched /\ DOMAIN Got(refresh[g].got, l) = DOMAIN refresh[g].got \cup {l}
    BY <1>0, <2>3, OneMoreFetched
  <2>5. f \in Refresh /\ RefreshOK(f)
    BY <1>0, <2>2, <2>4
  <2> QED
    BY <1>0, <2>1, <2>2, <2>5, RefreshStep
<1>5. CASE Resolved(g)
  <2> DEFINE f == [Idle EXCEPT !.pc = "next", !.left = refresh[g].left]
             m == BuildMembership(refresh[g].sections, refresh[g].got)
  <2>1. f \in Refresh /\ RefreshOK(f)
    BY <1>0, NothingFetched, RegistryAssumption DEF Idle
  <2>2. m \in Membership
    BY <1>0, MembershipType
  <2>3. resolved' = [resolved EXCEPT ![refresh[g].of] = m]
    BY <1>5 DEF Resolved
  <2>4. resolved' \in [Community -> Membership \cup {Unresolved}]
    <3> HIDE DEF m
    <3> QED
      BY <1>0, <2>2, <2>3
  <2> QED
    BY <1>0, <1>5, <2>1, <2>4, RefreshStep DEF Resolved
<1>6. CASE DefinitionFails(g) \/ ListFails(g)
  <2>1. PICK x : refresh' = [refresh EXCEPT ![g] = [refresh[g] EXCEPT !.left = @ \ {x}]]
                 \/ refresh' = [refresh EXCEPT ![g] = [refresh[g] EXCEPT !.ask = @ \ {x}]]
    BY <1>0, <1>6 DEF DefinitionFails, ListFails, RegistryTypeOK
  <2>2. UNCHANGED <<remoteVars, resolved>>
    BY <1>6 DEF DefinitionFails, ListFails
  <2>3. /\ [refresh[g] EXCEPT !.left = @ \ {x}] \in Refresh /\ RefreshOK([refresh[g] EXCEPT !.left = @ \ {x}])
        /\ [refresh[g] EXCEPT !.ask = @ \ {x}] \in Refresh /\ RefreshOK([refresh[g] EXCEPT !.ask = @ \ {x}])
    BY <1>0
  <2> QED
    BY <1>0, <2>1, <2>2, <2>3, RefreshStep
<1>7. CASE RefreshTimesOut(g)
  <2> DEFINE f == [refresh[g] EXCEPT !.left = {}, !.ask = {}]
  <2>1. f \in Refresh /\ RefreshOK(f)
    BY <1>0
  <2>2. refresh' = [refresh EXCEPT ![g] = f]
    BY <1>0, <1>7 DEF RefreshTimesOut, RegistryTypeOK
  <2> QED
    BY <1>0, <1>7, <2>1, <2>2, RefreshStep DEF RefreshTimesOut
<1> QED
  BY <1>1, <1>2, <1>3, <1>4, <1>5, <1>6, <1>7

LEMMA ListChangesType ==
  ASSUME RegistryTypeOK, ListChanges
  PROVE  RegistryTypeOK'
  BY DEF RegistryTypeOK, ListChanges

LEMMA RegistryInitType ==
  ASSUME RegistryInit,
         resolved = Truth \/ resolved = [c \in Community |-> Unresolved]
  PROVE  RegistryTypeOK
<1>1. \A c \in Community : definition[c] \in Definitions[c]
  BY DEF RegistryInit
<1>2. ASSUME NEW c \in Community, definition[c] # NoDefinition
      PROVE  BuildMembership(definition[c], lists) \in Membership
  <2>1. definition[c] \in SUBSET Section
    BY <1>1, <1>2, DefinitionType
  <2>2. lists \in [List -> SUBSET PubKey] /\ List \in SUBSET List
    BY RegistryAssumption DEF RegistryInit
  <2>3. lists \in Fetched
    BY <2>2 DEF Fetched
  <2> QED
    BY <2>1, <2>3, MembershipType
<1>3. resolved \in [Community -> Membership \cup {Unresolved}]
  BY <1>2 DEF Truth
<1> QED
  BY <1>1, <1>3, IdleType DEF RegistryInit, RegistryTypeOK

-----------------------------------------------------------------------------
(* A finite set of versions has a newest one.  The induction theorems take *)
(* an operator, so it is the least size of a set without one that gives    *)
(* the contradiction.                                                      *)

Below == {ss \in Nat \X Nat : ss[1] < ss[2]}

LEMMA LeastNat ==
  ASSUME NEW T \in SUBSET Nat, T # {}
  PROVE  \E n \in T : \A m \in T : n <= m
<1>1. OpToRel(<, Nat) = Below
  BY Zenon DEF OpToRel, Below
<1>2. IsWellFoundedOn(Below, Nat)
  BY <1>1, NatLessThanWellFounded, Zenon
<1>3. PICK n \in T : \A m \in T : ~ (<<m, n>> \in Below)
  BY <1>2, WFMin
<1>4. ASSUME NEW m \in T PROVE n <= m
  <2>1. m \in Nat /\ n \in Nat /\ <<m, n>> \in Nat \X Nat
    OBVIOUS
  <2>2. ~ (m < n)
    BY <1>3, <2>1 DEF Below
  <2> QED
    BY <2>1, <2>2
<1> QED
  BY <1>4

LEMMA OlderIsAnOrder ==
  ASSUME NEW e \in Event, NEW f \in Event, NEW g \in Event
  PROVE  /\ ~ IsOlder(e, e)
         /\ IsOlder(e, f) /\ IsOlder(f, g) => IsOlder(e, g)
<1>1. /\ createdAt[e] \in Nat /\ createdAt[f] \in Nat /\ createdAt[g] \in Nat
      /\ idRank[e] \in Nat /\ idRank[f] \in Nat /\ idRank[g] \in Nat
  BY EventAssumption
<1> QED
  BY <1>1 DEF IsOlder

LEMMA HasNewest ==
  ASSUME NEW S \in SUBSET Event, IsFiniteSet(S), S # {}
  PROVE  \E e \in S : \A f \in S : ~ IsOlder(e, f)
<1> DEFINE Topped(T) == \E e \in T : \A f \in T : ~ IsOlder(e, f)
           Bad == {T \in SUBSET S : T # {} /\ ~ Topped(T)}
           Sizes == {Cardinality(T) : T \in Bad}
<1>1. SUFFICES ASSUME S \in Bad PROVE FALSE
  OBVIOUS
<1>2. \A T \in SUBSET S : IsFiniteSet(T) /\ Cardinality(T) \in Nat
  BY FS_Subset, FS_CardinalityType
<1>3. PICK T \in Bad : \A U \in Bad : Cardinality(T) <= Cardinality(U)
  <2>1. Sizes \in SUBSET Nat /\ Sizes # {}
    BY <1>1, <1>2
  <2>2. PICK n \in Sizes : \A m \in Sizes : n <= m
    <3> HIDE DEF Sizes
    <3> QED
      BY <2>1, LeastNat
  <2> QED
    BY <2>2
<1>4. PICK e \in T : TRUE
  OBVIOUS
<1>5. T \ {e} \notin Bad
  <2>1. Cardinality(T \ {e}) = Cardinality(T) - 1
    BY <1>2, FS_RemoveElement
  <2>2. Cardinality(T) \in Nat
    BY <1>2
  <2>3. SUFFICES ASSUME T \ {e} \in Bad PROVE FALSE
    OBVIOUS
  <2>4. Cardinality(T) <= Cardinality(T \ {e})
    BY <1>3, <2>3
  <2> HIDE DEF Bad
  <2> QED
    BY <2>1, <2>2, <2>4
<1>6. CASE T \ {e} = {}
  <2>1. T = {e} /\ ~ IsOlder(e, e)
    BY <1>6, OlderIsAnOrder
  <2> QED
    BY <2>1
<1>7. CASE T \ {e} # {}
  <2>1. PICK m \in T \ {e} : \A f \in T \ {e} : ~ IsOlder(m, f)
    BY <1>5, <1>7
  <2>2. CASE IsOlder(m, e)
    <3>1. ASSUME NEW f \in T PROVE ~ IsOlder(e, f)
      BY <2>1, <2>2, OlderIsAnOrder
    <3> QED
      BY <3>1
  <2>3. CASE ~ IsOlder(m, e)
    BY <2>1, <2>3
  <2> QED
    BY <2>2, <2>3
<1> QED
  BY <1>6, <1>7

-----------------------------------------------------------------------------
(* Type correctness of the stamper, in the parts that its actions touch.   *)

Job == [pc : {"idle", "queue", "index", "spawn", "mark", "purgeBolt", "purgeIndex"},
        ev : Event \cup {NoEvent}, restamp : BOOLEAN]

Work == [pc : {"idle", "refs", "gate", "lookup", "fetch", "queue", "index", "patch"},
         coord : Coord \cup {NoCoord}, refs : SUBSET Share,
         want : SUBSET Community, ev : Content \cup {NoEvent}]

StoresOK ==
  /\ boltQueue \in Seq(Raw!BoltOp) /\ Len(boltQueue) <= QueueSize
  /\ bolt \in SUBSET Event /\ IsFiniteSet(bolt)
  /\ gone \in SUBSET Share /\ shares \in SUBSET Share
  /\ docs \in [Coord -> Doc]

(* A handler has the event it serves in hand, and restamps for a share.    *)
JobOK(j) ==
  /\ j.pc \in {"queue", "index", "spawn"} => j.ev \in Content \cup Share
  /\ j.pc \in {"mark", "purgeBolt", "purgeIndex"} => j.ev \in Share

JobsOK ==
  /\ job \in [Caller -> Job] /\ \A h \in Caller : JobOK(job[h])
  /\ starts \in Nat

(* A reconciler works on one coordinate, and on a version of that.         *)
WorkOK(w) ==
  /\ w.pc # "idle" => w.coord \in Coord
  /\ w.pc \in {"queue", "index", "patch"} => w.ev \in Content /\ coordOf[w.ev] = w.coord

WorksOK ==
  /\ recon \in [Recon \cup {sweeper} -> Work]
  /\ \A r \in Recon \cup {sweeper} : WorkOK(recon[r])
  /\ spawned \in [Coord -> Nat] /\ todo \in SUBSET Coord

NotesOK ==
  /\ everShared \in SUBSET Share /\ vouchedFor \in SUBSET (Share \X Community)
  /\ failures \in Nat

StamperInv == StoresOK /\ JobsOK /\ WorksOK /\ NotesOK /\ RegistryTypeOK

LEMMA InvTypes == StamperInv => StamperTypeOK
  BY DEF StamperInv, StoresOK, JobsOK, WorksOK, NotesOK, StamperTypeOK, Job, Work, WorkOK

LEMMA NotJob == NoJob \in Job /\ JobOK(NoJob) /\ NoJob.pc = "idle"
  BY DEF NoJob, Job, JobOK

LEMMA NotWork ==
  /\ NoRecon \in Work /\ WorkOK(NoRecon) /\ NoRecon.pc = "idle"
  /\ NoRecon.refs = {} /\ NoRecon.want = {}
  BY DEF NoRecon, Work, WorkOK

LEMMA ContentCoord ==
  ASSUME NEW e \in Content
  PROVE  e \in Event /\ coordOf[e] \in Coord
  BY EventAssumption DEF Content, IsAddressable

LEMMA ShareCoord ==
  ASSUME NEW s \in Share
  PROVE  s \in Event /\ refersTo[s] \in Coord /\ into[s] \in SUBSET Community
  BY StamperAssumption

LEMMA AcceptType ==
  ASSUME StoresOK, NEW op \in Raw!BoltOp, Accept(op)
  PROVE  boltQueue' \in Seq(Raw!BoltOp) /\ Len(boltQueue') <= QueueSize
  BY StamperAssumption DEF StoresOK, Accept

LEMMA WrittenType ==
  ASSUME StoresOK, NEW op \in Raw!BoltOp
  PROVE  Raw!Written(bolt, op) \in SUBSET Event /\ IsFiniteSet(Raw!Written(bolt, op))
<1>1. op.ev \in Event /\ IsFiniteSet(bolt \cup {op.ev})
  BY FS_AddElement DEF StoresOK, Raw!BoltOp
<1>2. Raw!Written(bolt, op) \in SUBSET (bolt \cup {op.ev})
  BY DEF Raw!Written, Raw!Replaced
<1>3. bolt \cup {op.ev} \in SUBSET Event
  BY <1>1 DEF StoresOK
<1> QED
  BY <1>1, <1>2, <1>3, FS_Subset

LEMMA DocTypes ==
  /\ \A e \in Event : Projected(e) \in Doc /\ Projected(e).community = ownTags[e]
  /\ NoDoc \in Doc /\ NoDoc.community = {}
  BY EventAssumption DEF Projected, Doc, NoDoc

LEMMA StampedType ==
  ASSUME NEW ds \in [Coord -> Doc], NEW c \in Coord, NEW cs \in SUBSET Community
  PROVE  Stamped(ds, c, cs) \in [Coord -> Doc]
  BY DEF Stamped, Doc

LEMMA VouchingType ==
  ASSUME NotesOK, NEW ss \in SUBSET Share, NEW res, NoteVouching(ss, res)
  PROVE  vouchedFor' \in SUBSET (Share \X Community)
  BY DEF NotesOK, NoteVouching

(* A handler passes on to j. *)
LEMMA JobStep ==
  ASSUME JobsOK, NEW h \in Caller, NEW j \in Job, JobOK(j), job' = [job EXCEPT ![h] = j], starts' \in Nat
  PROVE  JobsOK'
<1>1. job' \in [Caller -> Job] /\ \A g \in Caller : job'[g] = IF g = h THEN j ELSE job[g]
  BY DEF JobsOK
<1> QED
  BY <1>1 DEF JobsOK

(* A reconciler passes on to w. *)
LEMMA WorkStep ==
  ASSUME WorksOK, NEW r \in Recon \cup {sweeper}, NEW w \in Work, WorkOK(w), Goes(r, w),
         spawned' \in [Coord -> Nat], todo' \in SUBSET Coord
  PROVE  WorksOK'
<1>1. /\ recon' \in [Recon \cup {sweeper} -> Work]
      /\ \A q \in Recon \cup {sweeper} : recon'[q] = IF q = r THEN w ELSE recon[q]
  BY DEF WorksOK, Goes
<1> QED
  BY <1>1 DEF WorksOK

LEMMA StoresKept == StoresOK /\ UNCHANGED stores => StoresOK'
  BY DEF StoresOK, stores

LEMMA RegistryKept == RegistryTypeOK /\ UNCHANGED registryVars => RegistryTypeOK'
  BY DEF RegistryTypeOK, registryVars, RefreshOK

LEMMA NotesKept == NotesOK /\ UNCHANGED history => NotesOK'
  BY DEF NotesOK, history, noted

LEMMA WorksKept == WorksOK /\ UNCHANGED <<spawned, recon, todo>> => WorksOK'
  BY DEF WorksOK

LEMMA JobsKept == JobsOK /\ UNCHANGED <<job, starts>> => JobsOK'
  BY DEF JobsOK

LEMMA BeginType ==
  ASSUME StamperInv, NEW h \in Caller,
         \/ \E e \in Event : Publish(h, e)
         \/ \E s \in Share : DeleteShare(h, s) \/ BanShare(h, s)
  PROVE  StamperInv'
<1>0. /\ StoresOK /\ JobsOK /\ WorksOK /\ NotesOK /\ RegistryTypeOK
      /\ UNCHANGED <<stores, registryVars, spawned, recon, todo, history>>
      /\ starts \in Nat /\ starts' = starts + 1
  BY DEF StamperInv, Publish, DeleteShare, BanShare, Begin, JobsOK
<1>1. PICK j : job' = [job EXCEPT ![h] = j] /\ j \in Job /\ JobOK(j)
  <2>1. ASSUME NEW e \in Event, Publish(h, e)
        PROVE  \E j \in Job : job' = [job EXCEPT ![h] = j] /\ JobOK(j)
    <3> DEFINE j == [NoJob EXCEPT !.pc = "queue", !.ev = e]
    <3>1. j \in Job /\ JobOK(j) /\ job' = [job EXCEPT ![h] = j]
      BY <2>1 DEF Publish, Begin, NoJob, Job, JobOK
    <3> QED
      BY <3>1
  <2>2. ASSUME NEW s \in Share, DeleteShare(h, s)
        PROVE  \E j \in Job : job' = [job EXCEPT ![h] = j] /\ JobOK(j)
    <3> DEFINE j == [pc |-> "mark", ev |-> s, restamp |-> s \in bolt]
    <3>1. j \in Job /\ JobOK(j) /\ job' = [job EXCEPT ![h] = j]
      BY <2>2, ShareCoord DEF DeleteShare, Begin, Job, JobOK
    <3> QED
      BY <3>1
  <2>3. ASSUME NEW s \in Share, BanShare(h, s)
        PROVE  \E j \in Job : job' = [job EXCEPT ![h] = j] /\ JobOK(j)
    <3> DEFINE j == [pc |-> "mark", ev |-> s, restamp |-> FALSE]
    <3>1. j \in Job /\ JobOK(j) /\ job' = [job EXCEPT ![h] = j]
      BY <2>3, ShareCoord DEF BanShare, Begin, Job, JobOK
    <3> QED
      BY <3>1
  <2> QED
    BY <2>1, <2>2, <2>3
<1>2. starts' \in Nat
  BY <1>0
<1>3. JobsOK'
  BY <1>0, <1>1, <1>2, JobStep
<1> QED
  BY <1>0, <1>3, StoresKept, WorksKept, NotesKept, RegistryKept DEF StamperInv

LEMMA HandlingType ==
  ASSUME StamperInv, NEW h \in Caller, Handling(h)
  PROVE  StamperInv'
<1>0. /\ StoresOK /\ JobsOK /\ WorksOK /\ NotesOK /\ RegistryTypeOK
      /\ job[h] \in Job /\ JobOK(job[h]) /\ starts \in Nat
  BY DEF StamperInv, JobsOK
<1>1. CASE QueueBolt(h)
  <2> DEFINE op == [ev |-> job[h].ev, replace |-> IsAddressable(job[h].ev)]
             j == [job[h] EXCEPT !.pc = "index"]
  <2>1. job[h].ev \in Content \cup Share /\ job[h].pc = "queue"
    BY <1>0, <1>1 DEF QueueBolt, JobOK
  <2>2. op \in Raw!BoltOp
    BY <2>1, ContentCoord, ShareCoord DEF Raw!BoltOp, IsAddressable
  <2>3. StoresOK'
    <3>1. Accept(op) /\ UNCHANGED <<bolt, gone, shares, docs>>
      BY <1>1 DEF QueueBolt
    <3> HIDE DEF op
    <3> QED
      BY <1>0, <2>2, <3>1, AcceptType DEF StoresOK
  <2>4. job' = [job EXCEPT ![h] = j] /\ j \in Job /\ JobOK(j)
    BY <1>0, <1>1, <2>1 DEF QueueBolt, Job, JobOK, JobsOK
  <2>5. UNCHANGED <<registryVars, spawned, recon, todo, starts, history>>
    BY <1>1 DEF QueueBolt, UnchangedJobs
  <2> QED
    BY <1>0, <2>3, <2>4, <2>5, JobStep, WorksKept, NotesKept, RegistryKept DEF StamperInv
<1>2. CASE StoreIndex(h)
  <2> DEFINE e == job[h].ev
             j == [job[h] EXCEPT !.pc = "spawn"]
  <2>1. e \in Content \cup Share /\ job[h].pc = "index"
    BY <1>0, <1>2 DEF StoreIndex, JobOK
  <2>2. shares' \in SUBSET Share /\ docs' \in [Coord -> Doc]
    BY <1>0, <1>2, <2>1, DocTypes, ContentCoord DEF StoreIndex, IndexShare, StoresOK
  <2>3. UNCHANGED <<boltQueue, bolt, gone>>
    BY <1>2 DEF StoreIndex
  <2>4. failures' \in Nat
    BY <1>0, <1>2 DEF StoreIndex, CallOK, CallFails, Fails, NotesOK
  <2>5. everShared' \in SUBSET Share /\ NoteVouching(everShared', resolved)
    BY <1>0, <1>2, <2>2 DEF StoreIndex, NotesOK
  <2>6. vouchedFor' \in SUBSET (Share \X Community)
    BY <1>0, <2>5, VouchingType
  <2>7. job' = [job EXCEPT ![h] = j] /\ j \in Job /\ JobOK(j)
    BY <1>0, <1>2, <2>1 DEF StoreIndex, Job, JobOK, JobsOK
  <2>8. UNCHANGED <<registryVars, spawned, recon, todo, starts>>
    BY <1>2 DEF StoreIndex, UnchangedJobs
  <2>9. StoresOK' /\ NotesOK'
    BY <1>0, <2>2, <2>3, <2>4, <2>5, <2>6 DEF StoresOK, NotesOK
  <2> QED
    BY <1>0, <2>7, <2>8, <2>9, JobStep, WorksKept, RegistryKept DEF StamperInv
<1>3. CASE Spawn(h)
  <2>1. PICK c : /\ spawned' = [spawned EXCEPT ![c] = @ + 1]
                 /\ c = IF job[h].ev \in Share THEN refersTo[job[h].ev] ELSE coordOf[job[h].ev]
    BY <1>3 DEF Spawn
  <2>2. c \in Coord
    BY <1>0, <1>3, <2>1, ContentCoord, ShareCoord DEF Spawn, JobOK
  <2>3. WorksOK'
    BY <1>0, <1>3, <2>1, <2>2 DEF Spawn, WorksOK
  <2>4. job' = [job EXCEPT ![h] = NoJob] /\ UNCHANGED <<stores, registryVars, history, starts>>
    BY <1>3 DEF Spawn
  <2> QED
    BY <1>0, <2>3, <2>4, NotJob, JobStep, StoresKept, NotesKept, RegistryKept DEF StamperInv
<1>4. CASE Mark(h) \/ PurgeBolt(h)
  <2>1. PICK pc \in {"purgeBolt", "purgeIndex"} : job' = [job EXCEPT ![h] = [job[h] EXCEPT !.pc = pc]]
    BY <1>0, <1>4 DEF Mark, PurgeBolt, JobsOK
  <2>2. job[h].ev \in Share
    BY <1>0, <1>4 DEF Mark, PurgeBolt, JobOK
  <2>3. [job[h] EXCEPT !.pc = pc] \in Job /\ JobOK([job[h] EXCEPT !.pc = pc])
    BY <1>0, <2>2 DEF Job, JobOK
  <2>4. UNCHANGED <<registryVars, spawned, recon, todo, starts, history>>
    BY <1>4 DEF Mark, PurgeBolt, UnchangedJobs
  <2>5. IsFiniteSet(bolt \ {job[h].ev})
    BY <1>0, FS_RemoveElement DEF StoresOK
  <2>6. StoresOK'
    BY <1>0, <1>4, <2>2, <2>5 DEF Mark, PurgeBolt, StoresOK
  <2> QED
    BY <1>0, <2>1, <2>3, <2>4, <2>6, JobStep, WorksKept, NotesKept, RegistryKept DEF StamperInv
<1>5. CASE PurgeIndex(h)
  <2> DEFINE j == IF job[h].restamp THEN [job[h] EXCEPT !.pc = "spawn"] ELSE NoJob
  <2>1. job' = [job EXCEPT ![h] = j]
    BY <1>0, <1>5 DEF PurgeIndex, JobsOK
  <2>2. j \in Job /\ JobOK(j)
    BY <1>0, <1>5, NotJob DEF PurgeIndex, Job, JobOK
  <2>3. StoresOK' /\ NotesOK'
    BY <1>0, <1>5 DEF PurgeIndex, StoresOK, NotesOK, noted, CallOK, CallFails, Fails
  <2>4. UNCHANGED <<registryVars, spawned, recon, todo, starts>>
    BY <1>5 DEF PurgeIndex, UnchangedJobs
  <2> QED
    BY <1>0, <2>1, <2>2, <2>3, <2>4, JobStep, WorksKept, RegistryKept DEF StamperInv
<1> QED
  BY <1>1, <1>2, <1>3, <1>4, <1>5 DEF Handling

LEMMA BoltWorkerType ==
  ASSUME StamperInv, BoltWorker
  PROVE  StamperInv'
<1>0. StoresOK /\ JobsOK /\ WorksOK /\ NotesOK /\ RegistryTypeOK
  BY DEF StamperInv
<1>1. Head(boltQueue) \in Raw!BoltOp /\ Tail(boltQueue) \in Seq(Raw!BoltOp) /\ Len(Tail(boltQueue)) <= QueueSize
  BY <1>0, StamperAssumption DEF BoltWorker, StoresOK
<1>2. Raw!Written(bolt, Head(boltQueue)) \in SUBSET Event /\ IsFiniteSet(Raw!Written(bolt, Head(boltQueue)))
  BY <1>0, <1>1, WrittenType
<1>3. StoresOK'
  BY <1>0, <1>1, <1>2 DEF BoltWorker, StoresOK
<1>4. UNCHANGED <<job, registryVars, spawned, recon, todo, starts, history>>
  BY DEF BoltWorker, UnchangedJobs
<1> QED
  BY <1>0, <1>3, <1>4, JobsKept, WorksKept, NotesKept, RegistryKept DEF StamperInv

LEMMA RegistryType ==
  ASSUME StamperInv,
         \/ \E g \in Refresher : Refreshing(g) \/ RefreshFails(g)
         \/ CommunityChanges
  PROVE  StamperInv'
<1>0. StoresOK /\ JobsOK /\ WorksOK /\ NotesOK /\ RegistryTypeOK
  BY DEF StamperInv
<1>1. UNCHANGED <<stores, job, spawned, recon, todo, everShared>>
  BY DEF Refreshing, RefreshFails, CommunityChanges, BesidesRegistry
<1>2. Named \in SUBSET Community
  BY <1>0, ShareCoord, EventAssumption DEF Named, StoresOK
<1>3. RegistryTypeOK'
  BY <1>0, <1>2, RegistryStepType, ListChangesType DEF Refreshing, RefreshFails, CommunityChanges
<1>4. starts' \in Nat /\ failures' \in Nat
  BY <1>0 DEF Refreshing, RefreshFails, CommunityChanges, Fails, JobsOK, NotesOK
<1>5. vouchedFor' \in SUBSET (Share \X Community)
  <2>1. CASE vouchedFor' = vouchedFor
    BY <1>0, <2>1 DEF NotesOK
  <2>2. CASE NoteVouching(everShared, resolved')
    BY <1>0, <2>2, VouchingType DEF NotesOK
  <2> QED
    BY <2>1, <2>2 DEF Refreshing, RefreshFails, CommunityChanges
<1>6. NotesOK' /\ JobsOK'
  BY <1>0, <1>1, <1>4, <1>5 DEF NotesOK, JobsOK
<1> QED
  BY <1>0, <1>1, <1>3, <1>6, StoresKept, WorksKept DEF StamperInv

(* A reconciler's step leaves handlers, registry and requests alone.       *)
LEMMA ReconcilerStep ==
  ASSUME StamperInv, StoresOK', NotesOK', WorksOK', UnchangedRequests
  PROVE  StamperInv'
  BY RegistryKept, JobsKept DEF StamperInv, UnchangedRequests

LEMMA DerivedType ==
  ASSUME NEW refs \in SUBSET Share, NEW res
  PROVE  Vouched(refs, res) \in SUBSET Community
  BY DEF Vouched

LEMMA NewestIs ==
  ASSUME StoresOK, NEW c \in Coord, Local(c)
  PROVE  Newest(c) \in bolt \cap Content /\ coordOf[Newest(c)] = c
<1> DEFINE S == {e \in bolt \cap Content : coordOf[e] = c}
<1>1. S \in SUBSET bolt /\ S # {} /\ S \in SUBSET Event /\ IsFiniteSet(bolt)
  BY DEF Local, StoresOK
<1>2. IsFiniteSet(S)
  BY <1>1, FS_Subset
<1>3. PICK e \in S : \A f \in S : ~ IsOlder(e, f)
  <2> HIDE DEF S
  <2> QED
    BY <1>1, <1>2, HasNewest
<1>4. \E n \in bolt \cap Content :
        coordOf[n] = c /\ \A f \in bolt \cap Content : coordOf[f] = c => ~ IsOlder(n, f)
  BY <1>3
<1> QED
  BY <1>4 DEF Newest

LEMMA ReconcileType ==
  ASSUME StamperInv, NEW r \in Recon \cup {sweeper}, Reconcile(r)
  PROVE  StamperInv'
<1>0. /\ StoresOK /\ JobsOK /\ WorksOK /\ NotesOK /\ RegistryTypeOK
      /\ recon[r] \in Work /\ WorkOK(recon[r])
      /\ spawned \in [Coord -> Nat] /\ todo \in SUBSET Coord
  BY DEF StamperInv, WorksOK
<1>1. CASE Start(r)
  <2>1. PICK c \in Coord : /\ spawned[c] > 0 /\ spawned' = [spawned EXCEPT ![c] = @ - 1]
                           /\ recon' = [recon EXCEPT ![r] = [NoRecon EXCEPT !.pc = "refs", !.coord = c]]
    BY <1>1 DEF Start
  <2> DEFINE w == [NoRecon EXCEPT !.pc = "refs", !.coord = c]
  <2>2. w \in Work /\ WorkOK(w)
    BY DEF NoRecon, Work, WorkOK
  <2>3. spawned' \in [Coord -> Nat]
    BY <1>0, <2>1
  <2>4. UNCHANGED <<stores, todo, history>> /\ UnchangedRequests
    BY <1>1 DEF Start
  <2>5. WorksOK'
    BY <1>0, <2>1, <2>2, <2>3, <2>4, WorkStep DEF Goes
  <2> QED
    BY <1>0, <2>4, <2>5, StoresKept, NotesKept, ReconcilerStep
<1>2. CASE ReadShares(r)
  <2> DEFINE found == {s \in shares : refersTo[s] = recon[r].coord}
  <2>1. PICK refs \in SUBSET Share : Goes(r, [recon[r] EXCEPT !.pc = "gate", !.refs = refs])
    <3>1. found \in SUBSET Share /\ recon[r].refs \in SUBSET Share
      BY <1>0 DEF StoresOK, Work
    <3>2. [recon[r] EXCEPT !.pc = "gate"] = [recon[r] EXCEPT !.pc = "gate", !.refs = recon[r].refs]
      BY <1>0 DEF Work
    <3>3. \/ Goes(r, [recon[r] EXCEPT !.pc = "gate", !.refs = found])
          \/ Goes(r, [recon[r] EXCEPT !.pc = "gate"])
      BY <1>2 DEF ReadShares
    <3> QED
      BY <3>1, <3>2, <3>3
  <2> DEFINE w == [recon[r] EXCEPT !.pc = "gate", !.refs = refs]
  <2>2. w \in Work /\ WorkOK(w)
    BY <1>0, <1>2 DEF ReadShares, Work, WorkOK
  <2>3. UNCHANGED <<stores, spawned, todo, noted>> /\ UnchangedRequests /\ failures' \in Nat
    BY <1>0, <1>2 DEF ReadShares, CallOK, CallFails, Fails, NotesOK
  <2>4. NotesOK' /\ WorksOK'
    BY <1>0, <2>1, <2>2, <2>3, WorkStep DEF NotesOK, noted
  <2> QED
    BY <1>0, <2>3, <2>4, StoresKept, ReconcilerStep
<1>3. CASE DeriveStamps(r)
  <2> DEFINE want == Vouched(recon[r].refs, resolved)
             w == [recon[r] EXCEPT !.pc = "lookup", !.want = want]
  <2>1. want \in SUBSET Community
    BY <1>0, DerivedType DEF Work
  <2>2. w \in Work /\ WorkOK(w)
    <3> HIDE DEF want
    <3> QED
      BY <1>0, <1>3, <2>1 DEF DeriveStamps, Work, WorkOK
  <2>3. UNCHANGED <<stores, spawned, todo, history>> /\ UnchangedRequests /\ Goes(r, w)
    BY <1>3 DEF DeriveStamps
  <2>4. WorksOK'
    BY <1>0, <2>2, <2>3, WorkStep
  <2> QED
    BY <1>0, <2>3, <2>4, StoresKept, NotesKept, ReconcilerStep
<1>4. CASE Lookup(r)
  <2>1. recon[r].pc = "lookup" /\ recon[r].coord \in Coord
    BY <1>0, <1>4 DEF Lookup, WorkOK
  <2>2. PICK w \in Work : WorkOK(w) /\ Goes(r, w)
    <3>1. CASE Local(recon[r].coord) /\ Goes(r, [recon[r] EXCEPT !.pc = "patch", !.ev = Newest(recon[r].coord)])
      <4>1. Newest(recon[r].coord) \in Content /\ coordOf[Newest(recon[r].coord)] = recon[r].coord
        BY <1>0, <2>1, <3>1, NewestIs
      <4> DEFINE w == [recon[r] EXCEPT !.pc = "patch", !.ev = Newest(recon[r].coord)]
      <4>2. w \in Work /\ WorkOK(w) /\ Goes(r, w)
        BY <1>0, <2>1, <3>1, <4>1 DEF Work, WorkOK
      <4> QED
        BY <4>2
    <3>2. CASE Goes(r, NoRecon)
      BY <3>2, NotWork
    <3>3. CASE Goes(r, [recon[r] EXCEPT !.pc = "fetch"])
      <4> DEFINE w == [recon[r] EXCEPT !.pc = "fetch"]
      <4>1. w \in Work /\ WorkOK(w) /\ Goes(r, w)
        BY <1>0, <2>1, <3>3 DEF Work, WorkOK
      <4> QED
        BY <4>1
    <3> QED
      BY <1>4, <3>1, <3>2, <3>3 DEF Lookup
  <2>3. UNCHANGED <<stores, spawned, todo, history>> /\ UnchangedRequests
    BY <1>4 DEF Lookup
  <2>4. WorksOK'
    BY <1>0, <2>2, <2>3, WorkStep
  <2> QED
    BY <1>0, <2>3, <2>4, StoresKept, NotesKept, ReconcilerStep
<1>5. CASE Fetch(r)
  <2>1. recon[r].pc = "fetch" /\ recon[r].coord \in Coord
    BY <1>0, <1>5 DEF Fetch, WorkOK
  <2>2. PICK w \in Work : WorkOK(w) /\ Goes(r, w)
    <3>1. ASSUME NEW e \in Content, coordOf[e] = recon[r].coord,
                 Goes(r, [recon[r] EXCEPT !.pc = "queue", !.ev = e])
          PROVE  \E w \in Work : WorkOK(w) /\ Goes(r, w)
      <4> DEFINE w == [recon[r] EXCEPT !.pc = "queue", !.ev = e]
      <4>1. w \in Work /\ WorkOK(w) /\ Goes(r, w)
        BY <1>0, <2>1, <3>1 DEF Work, WorkOK
      <4> QED
        BY <4>1
    <3> QED
      BY <1>5, <3>1, NotWork DEF Fetch
  <2>3. UNCHANGED <<stores, spawned, todo, history>> /\ UnchangedRequests
    BY <1>5 DEF Fetch
  <2>4. WorksOK'
    BY <1>0, <2>2, <2>3, WorkStep
  <2> QED
    BY <1>0, <2>3, <2>4, StoresKept, NotesKept, ReconcilerStep
<1>6. CASE StoreFetched(r)
  <2> DEFINE op == [ev |-> recon[r].ev, replace |-> FALSE]
             w == [recon[r] EXCEPT !.pc = "index"]
  <2>1. recon[r].ev \in Content /\ op \in Raw!BoltOp
    BY <1>0, <1>6, ContentCoord DEF StoreFetched, WorkOK, Raw!BoltOp
  <2>2. Accept(op) /\ UNCHANGED <<bolt, gone, shares, docs, spawned, todo, history>> /\ UnchangedRequests
    BY <1>6 DEF StoreFetched
  <2>3. StoresOK'
    <3> HIDE DEF op
    <3> QED
      BY <1>0, <2>1, <2>2, AcceptType DEF StoresOK
  <2>4. w \in Work /\ WorkOK(w) /\ Goes(r, w)
    BY <1>0, <1>6 DEF StoreFetched, Work, WorkOK
  <2>5. WorksOK'
    BY <1>0, <2>2, <2>4, WorkStep
  <2> QED
    BY <1>0, <2>2, <2>3, <2>5, NotesKept, ReconcilerStep
<1>7. CASE IndexFetched(r)
  <2> DEFINE w == [recon[r] EXCEPT !.pc = "patch"]
  <2>1. recon[r].ev \in Content /\ recon[r].coord \in Coord
    BY <1>0, <1>7 DEF IndexFetched, WorkOK
  <2>2. docs' \in [Coord -> Doc] /\ failures' \in Nat
    <3>1. failures' \in Nat
      BY <1>0, <1>7 DEF IndexFetched, CallOK, CallFails, Fails, NotesOK
    <3>2. Projected(recon[r].ev) \in Doc /\ docs \in [Coord -> Doc]
      BY <1>0, <2>1, ContentCoord, DocTypes DEF StoresOK
    <3>3. docs' = docs \/ docs' = [docs EXCEPT ![recon[r].coord] = Projected(recon[r].ev)]
      BY <1>7 DEF IndexFetched
    <3> QED
      BY <3>1, <3>2, <3>3
  <2>3. UNCHANGED <<boltQueue, bolt, gone, shares, spawned, todo, noted>> /\ UnchangedRequests
    BY <1>7 DEF IndexFetched
  <2>4. StoresOK' /\ NotesOK'
    BY <1>0, <2>2, <2>3 DEF StoresOK, NotesOK, noted
  <2>5. w \in Work /\ WorkOK(w) /\ Goes(r, w)
    BY <1>0, <1>7 DEF IndexFetched, Work, WorkOK
  <2>6. WorksOK'
    BY <1>0, <2>3, <2>5, WorkStep
  <2> QED
    BY <2>3, <2>4, <2>6, ReconcilerStep
<1>8. CASE Patch(r)
  <2>1. recon[r].ev \in Content /\ recon[r].coord \in Coord /\ recon[r].want \in SUBSET Community
    BY <1>0, <1>8 DEF Patch, WorkOK, Work
  <2>2. ownTags[recon[r].ev] \cup recon[r].want \in SUBSET Community
    BY <2>1, ContentCoord, EventAssumption
  <2>3. Stamped(docs, recon[r].coord, ownTags[recon[r].ev] \cup recon[r].want) \in [Coord -> Doc]
    BY <1>0, <2>1, <2>2, StampedType DEF StoresOK
  <2>4. docs' \in [Coord -> Doc] /\ failures' \in Nat
    <3> DEFINE ds == Stamped(docs, recon[r].coord, ownTags[recon[r].ev] \cup recon[r].want)
    <3>1. (CallOK /\ docs' = ds) \/ (CallFails /\ docs' = docs)
      BY <1>8 DEF Patch
    <3>2. ds \in [Coord -> Doc] /\ docs \in [Coord -> Doc]
      BY <1>0, <2>3 DEF StoresOK
    <3> HIDE DEF ds
    <3>3. docs' \in [Coord -> Doc]
      BY <3>1, <3>2
    <3>4. failures' \in Nat
      BY <1>0, <3>1 DEF CallOK, CallFails, Fails, NotesOK
    <3> QED
      BY <3>3, <3>4
  <2>5. UNCHANGED <<boltQueue, bolt, gone, shares, spawned, todo, noted>> /\ UnchangedRequests /\ Goes(r, NoRecon)
    BY <1>8 DEF Patch
  <2>6. StoresOK' /\ NotesOK'
    BY <1>0, <2>4, <2>5 DEF StoresOK, NotesOK, noted
  <2>7. WorksOK'
    BY <1>0, <2>5, NotWork, WorkStep
  <2> QED
    BY <2>5, <2>6, <2>7, ReconcilerStep
<1> QED
  BY <1>1, <1>2, <1>3, <1>4, <1>5, <1>6, <1>7, <1>8 DEF Reconcile

LEMMA SweepType ==
  ASSUME StamperInv, Sweep
  PROVE  StamperInv'
<1>0. StoresOK /\ WorksOK /\ NotesOK /\ sweeper \in Recon \cup {sweeper}
  BY DEF StamperInv
<1>1. UNCHANGED <<stores, spawned, history>> /\ UnchangedRequests
  BY DEF Sweep, SweepTick, SweepNext
<1>2. CASE SweepTick
  <2>1. todo' \in SUBSET Coord /\ recon' = recon
    BY <1>2, ShareCoord DEF SweepTick
  <2> QED
    BY <1>0, <1>1, <2>1, StoresKept, NotesKept, ReconcilerStep DEF WorksOK
<1>3. CASE SweepNext
  <2>1. PICK c \in todo : /\ todo' = todo \ {c}
                          /\ recon' = [recon EXCEPT ![sweeper] = [NoRecon EXCEPT !.pc = "refs", !.coord = c]]
    BY <1>3 DEF SweepNext
  <2> DEFINE w == [NoRecon EXCEPT !.pc = "refs", !.coord = c]
  <2>2. w \in Work /\ WorkOK(w) /\ todo' \in SUBSET Coord /\ spawned' \in [Coord -> Nat]
    BY <1>0, <1>1, <2>1 DEF NoRecon, Work, WorkOK, WorksOK
  <2>3. WorksOK'
    BY <1>0, <2>1, <2>2, WorkStep DEF Goes
  <2> QED
    BY <1>0, <1>1, <2>3, StoresKept, NotesKept, ReconcilerStep
<1> QED
  BY <1>2, <1>3 DEF Sweep

LEMMA InitType == Init => StamperInv
<1> SUFFICES ASSUME Init PROVE StamperInv
  OBVIOUS
<1>1. RegistryTypeOK
  BY RegistryInitType DEF Init
<1>2. StoresOK
  BY DocTypes, FS_EmptySet, StamperAssumption DEF Init, StoresOK
<1>3. JobsOK /\ WorksOK /\ NotesOK
  BY NotJob, NotWork DEF Init, JobsOK, WorksOK, NotesOK
<1> QED
  BY <1>1, <1>2, <1>3 DEF StamperInv

LEMMA StepType ==
  ASSUME StamperInv, [Next]_vars
  PROVE  StamperInv'
<1>1. CASE Next
  BY <1>1, BeginType, HandlingType, BoltWorkerType, RegistryType, ReconcileType, SweepType DEF Next
<1>2. CASE UNCHANGED vars
  BY <1>2, StoresKept, RegistryKept, JobsKept, WorksKept, NotesKept DEF vars, StamperInv
<1> QED
  BY <1>1, <1>2

(* Stores, queue, documents, jobs, reconcilers and registry hold what they *)
(* should; a reconciler past its lookup has a version of the coordinate it *)
(* works on in hand.                                                       *)
THEOREM StamperTypeCorrect == Spec => []StamperTypeOK
  BY InitType, StepType, InvTypes, PTL DEF Spec

-----------------------------------------------------------------------------
(* Only what is vouched for is stamped.  For that, whatever a share that   *)
(* was ever stored vouches for under what the registry knows is noted at   *)
(* once, and a reconciler wants what such shares of its coordinate vouched *)
(* for when it asked: the notes only grow, so it may lag behind.           *)

Noted ==
  /\ shares \subseteq everShared
  /\ \A s \in everShared, x \in Community : VouchesFor(s, x, resolved) => <<s, x>> \in vouchedFor

(* A share of c vouched for x. *)
VouchedAt(c, x) == \E s \in Share : refersTo[s] = c /\ <<s, x>> \in vouchedFor

WorkVouched(w) ==
  /\ \A s \in w.refs : s \in everShared /\ refersTo[s] = w.coord
  /\ \A x \in w.want : VouchedAt(w.coord, x)

Justified(c, x) ==
  \/ \E e \in Content : coordOf[e] = c /\ x \in ownTags[e]
  \/ VouchedAt(c, x)

DocsVouched == \A c \in Coord : \A x \in docs[c].community : Justified(c, x)

VouchInv ==
  /\ StamperInv
  /\ Noted
  /\ \A r \in Recon \cup {sweeper} : WorkVouched(recon[r])
  /\ DocsVouched

LEMMA DocsVouchedIs == DocsVouched => OnlyVouched
  BY DEF DocsVouched, Justified, VouchedAt, OnlyVouched

Growing == everShared \subseteq everShared' /\ vouchedFor \subseteq vouchedFor'

(* What is wanted or stamped stays justified as the notes grow. *)
LEMMA WorksStayVouched ==
  ASSUME Growing, UNCHANGED recon, \A r \in Recon \cup {sweeper} : WorkVouched(recon[r])
  PROVE  \A r \in Recon \cup {sweeper} : WorkVouched(recon[r])'
<1> TAKE r \in Recon \cup {sweeper}
<1>1. WorkVouched(recon[r]) /\ recon'[r] = recon[r]
  OBVIOUS
<1> QED
  BY <1>1 DEF Growing, WorkVouched, VouchedAt

LEMMA DocsStayVouched ==
  ASSUME Growing, UNCHANGED docs, DocsVouched
  PROVE  DocsVouched'
  BY DEF Growing, DocsVouched, Justified, VouchedAt

LEMMA DocsStepVouched ==
  ASSUME StamperInv, DocsVouched, Growing,
         NEW c \in Coord, NEW d \in Doc, docs' = [docs EXCEPT ![c] = d],
         \A x \in d.community : Justified(c, x)
  PROVE  DocsVouched'
<1>1. SUFFICES ASSUME NEW b \in Coord, NEW x \in docs'[b].community
               PROVE  Justified(b, x)'
  BY DEF DocsVouched
<1>2. docs'[b] = IF b = c THEN d ELSE docs[b]
  BY DEF StamperInv, StoresOK
<1>3. Justified(b, x)
  BY <1>1, <1>2 DEF DocsVouched
<1> QED
  BY <1>3 DEF Growing, Justified, VouchedAt

LEMMA WorkStepVouched ==
  ASSUME WorksOK, Growing, \A q \in Recon \cup {sweeper} : WorkVouched(recon[q]),
         NEW r \in Recon \cup {sweeper}, NEW w, Goes(r, w), WorkVouched(w)
  PROVE  \A q \in Recon \cup {sweeper} : WorkVouched(recon[q])'
<1> TAKE q \in Recon \cup {sweeper}
<1>1. recon'[q] = IF q = r THEN w ELSE recon[q]
  BY DEF WorksOK, Goes
<1>2. WorkVouched(recon'[q])
  BY <1>1
<1> QED
  BY <1>2 DEF Growing, WorkVouched, VouchedAt

(* Notes are kept as long as the registry knows no more. *)
LEMMA NotedKept ==
  ASSUME Noted, UNCHANGED <<resolved, noted>>, shares' \subseteq everShared
  PROVE  Noted' /\ Growing
  BY DEF Noted, Growing, noted, VouchesFor, IsMemberIn, Allows

LEMMA NotedNew ==
  ASSUME NEW ss \in SUBSET Share, NoteVouching(ss, resolved'), everShared' = ss,
         shares' \subseteq ss, everShared \subseteq ss
  PROVE  Noted' /\ Growing
<1>1. vouchedFor \subseteq vouchedFor'
  BY DEF NoteVouching
<1>2. ASSUME NEW s \in ss, NEW x \in Community, VouchesFor(s, x, resolved')
      PROVE  <<s, x>> \in vouchedFor'
  <2>1. <<s, x>> \in ss \X Community /\ <<s, x>>[1] = s /\ <<s, x>>[2] = x
    OBVIOUS
  <2> QED
    BY <1>2, <2>1 DEF NoteVouching
<1>3. Noted'
  BY <1>2 DEF Noted, VouchesFor, IsMemberIn, Allows
<1> QED
  BY <1>1, <1>3 DEF Growing

LEMMA RequestsVouched ==
  ASSUME VouchInv, NEW h \in Caller,
         \/ \E e \in Event : Publish(h, e)
         \/ \E s \in Share : DeleteShare(h, s) \/ BanShare(h, s)
         \/ Handling(h)
  PROVE  Noted' /\ (\A r \in Recon \cup {sweeper} : WorkVouched(recon[r])') /\ DocsVouched'
<1>0. /\ StamperInv /\ Noted /\ (\A r \in Recon \cup {sweeper} : WorkVouched(recon[r])) /\ DocsVouched
      /\ shares \in SUBSET Share /\ everShared \in SUBSET Share /\ job[h] \in Job /\ JobOK(job[h])
  BY DEF VouchInv, StamperInv, StoresOK, NotesOK, JobsOK
<1>1. UNCHANGED recon
  BY DEF Publish, DeleteShare, BanShare, Begin, Handling, QueueBolt, StoreIndex, Spawn, Mark,
         PurgeBolt, PurgeIndex, UnchangedJobs
<1>2. CASE StoreIndex(h)
  <2>1. job[h].ev \in Content \cup Share /\ UNCHANGED resolved
    BY <1>0, <1>2 DEF StoreIndex, JobOK, UnchangedJobs, registryVars
  <2>2. shares' \in SUBSET Share /\ everShared' = everShared \cup shares' /\ NoteVouching(everShared', resolved')
    BY <1>0, <1>2, <2>1 DEF StoreIndex, IndexShare
  <2>3. Noted' /\ Growing
    BY <1>0, <2>2, NotedNew
  <2>4. CASE UNCHANGED docs
    BY <1>0, <1>1, <2>3, <2>4, WorksStayVouched, DocsStayVouched
  <2>5. CASE job[h].ev \in Content /\ docs' = [docs EXCEPT ![coordOf[job[h].ev]] = Projected(job[h].ev)]
    <3> DEFINE e == job[h].ev
               d == Projected(e)
    <3>1. coordOf[e] \in Coord /\ d \in Doc /\ d.community = ownTags[e]
      BY <2>5, ContentCoord, DocTypes
    <3>2. \A x \in d.community : Justified(coordOf[e], x)
      BY <2>5, <3>1 DEF Justified
    <3>3. docs' = [docs EXCEPT ![coordOf[e]] = d]
      BY <2>5
    <3> HIDE DEF d, e
    <3>4. DocsVouched'
      BY <1>0, <2>3, <3>1, <3>2, <3>3, DocsStepVouched
    <3> QED
      BY <1>0, <1>1, <2>3, <3>4, WorksStayVouched
  <2> QED
    BY <1>2, <2>4, <2>5 DEF StoreIndex
<1>3. CASE ~ StoreIndex(h)
  <2>1. UNCHANGED <<docs, noted, registryVars>> /\ shares' \subseteq shares
    BY <1>3 DEF Publish, DeleteShare, BanShare, Begin, Handling, QueueBolt, Spawn, Mark,
                PurgeBolt, PurgeIndex, UnchangedJobs, stores, history
  <2>2. Noted' /\ Growing
    BY <1>0, <2>1, NotedKept DEF Noted, registryVars
  <2> QED
    BY <1>0, <1>1, <2>1, <2>2, WorksStayVouched, DocsStayVouched
<1> QED
  BY <1>2, <1>3

LEMMA RegistryVouched ==
  ASSUME VouchInv,
         \/ \E g \in Refresher : Refreshing(g) \/ RefreshFails(g)
         \/ CommunityChanges
  PROVE  Noted' /\ (\A r \in Recon \cup {sweeper} : WorkVouched(recon[r])') /\ DocsVouched'
<1>0. /\ Noted /\ (\A r \in Recon \cup {sweeper} : WorkVouched(recon[r])) /\ DocsVouched
      /\ everShared \in SUBSET Share
  BY DEF VouchInv, StamperInv, NotesOK
<1>1. UNCHANGED <<shares, docs, recon, everShared>>
  BY DEF Refreshing, RefreshFails, CommunityChanges, BesidesRegistry, stores
<1>2. Noted' /\ Growing
  <2>1. CASE NoteVouching(everShared, resolved')
    BY <1>0, <1>1, <2>1, NotedNew DEF Noted
  <2>2. CASE UNCHANGED <<vouchedFor, resolved>>
    BY <1>0, <1>1, <2>2, NotedKept DEF Noted, noted
  <2> QED
    BY <2>1, <2>2 DEF Refreshing, RefreshFails, CommunityChanges, DefinitionFails, ListFails,
                      RefreshTimesOut, ListChanges
<1> QED
  BY <1>0, <1>1, <1>2, WorksStayVouched, DocsStayVouched

LEMMA ReconcileVouched ==
  ASSUME VouchInv, NEW r \in Recon \cup {sweeper}, Reconcile(r)
  PROVE  Noted' /\ (\A q \in Recon \cup {sweeper} : WorkVouched(recon[q])') /\ DocsVouched'
<1>0. /\ StamperInv /\ Noted /\ (\A q \in Recon \cup {sweeper} : WorkVouched(recon[q])) /\ DocsVouched
      /\ shares \subseteq everShared /\ everShared \in SUBSET Share
      /\ WorksOK /\ WorkVouched(recon[r]) /\ recon[r] \in Work /\ WorkOK(recon[r])
      /\ docs \in [Coord -> Doc]
  BY DEF VouchInv, StamperInv, WorksOK, StoresOK, NotesOK, Noted
<1>1. UNCHANGED <<shares, noted, registryVars>>
  BY DEF Reconcile, Start, ReadShares, DeriveStamps, Lookup, Fetch, StoreFetched, IndexFetched, Patch,
         UnchangedRequests, stores, history
<1>2. Noted' /\ Growing
  BY <1>0, <1>1, NotedKept DEF registryVars
<1>3. PICK w : Goes(r, w) /\ WorkVouched(w)
  <2> USE DEF WorkVouched
  <2>1. CASE Start(r)
    <3>1. PICK c \in Coord : Goes(r, [NoRecon EXCEPT !.pc = "refs", !.coord = c])
      BY <2>1 DEF Start, Goes
    <3> DEFINE w == [NoRecon EXCEPT !.pc = "refs", !.coord = c]
    <3>2. w.refs = {} /\ w.want = {}
      BY DEF NoRecon
    <3>3. WorkVouched(w)
      BY <3>2
    <3> QED
      BY <3>1, <3>3
  <2>2. CASE ReadShares(r)
    <3> DEFINE found == {s \in shares : refersTo[s] = recon[r].coord}
               w == [recon[r] EXCEPT !.pc = "gate", !.refs = found]
               u == [recon[r] EXCEPT !.pc = "gate"]
    <3>1. WorkVouched(w) /\ WorkVouched(u)
      BY <1>0 DEF Work
    <3>2. Goes(r, w) \/ Goes(r, u)
      BY <2>2 DEF ReadShares
    <3> QED
      BY <3>1, <3>2
  <2>3. CASE DeriveStamps(r)
    <3> DEFINE want == Vouched(recon[r].refs, resolved)
               w == [recon[r] EXCEPT !.pc = "lookup", !.want = want]
    <3>1. ASSUME NEW x \in want PROVE VouchedAt(recon[r].coord, x)
      <4>1. PICK s \in recon[r].refs : x \in Community /\ VouchesFor(s, x, resolved)
        BY <3>1 DEF Vouched
      <4>2. s \in everShared /\ s \in Share /\ refersTo[s] = recon[r].coord
        BY <1>0, <4>1
      <4>3. <<s, x>> \in vouchedFor
        BY <1>0, <4>1, <4>2 DEF Noted
      <4> QED
        BY <4>2, <4>3 DEF VouchedAt
    <3> HIDE DEF want
    <3>2. WorkVouched(w)
      BY <1>0, <3>1 DEF Work
    <3>3. Goes(r, w)
      BY <2>3 DEF DeriveStamps, want
    <3> QED
      BY <3>2, <3>3
  <2>4. CASE \E e, pc : Goes(r, [recon[r] EXCEPT !.pc = pc, !.ev = e])
    <3>1. PICK e, pc : Goes(r, [recon[r] EXCEPT !.pc = pc, !.ev = e])
      BY <2>4
    <3>2. WorkVouched([recon[r] EXCEPT !.pc = pc, !.ev = e])
      BY <1>0 DEF Work
    <3> QED
      BY <3>1, <3>2
  <2>5. CASE \E pc : Goes(r, [recon[r] EXCEPT !.pc = pc])
    <3>1. PICK pc : Goes(r, [recon[r] EXCEPT !.pc = pc])
      BY <2>5
    <3>2. WorkVouched([recon[r] EXCEPT !.pc = pc])
      BY <1>0 DEF Work
    <3> QED
      BY <3>1, <3>2
  <2>6. CASE Goes(r, NoRecon)
    BY <2>6, NotWork
  <2>7. CASE Lookup(r) \/ Fetch(r) \/ StoreFetched(r) \/ IndexFetched(r) \/ Patch(r)
    <3> HIDE DEF WorkVouched
    <3> QED
      BY <2>4, <2>5, <2>6, <2>7 DEF Lookup, Fetch, StoreFetched, IndexFetched, Patch
  <2> QED
    BY <2>1, <2>2, <2>3, <2>7 DEF Reconcile
<1>4. \A q \in Recon \cup {sweeper} : WorkVouched(recon[q])'
  BY <1>0, <1>2, <1>3, WorkStepVouched
<1>5. DocsVouched'
  <2>1. CASE UNCHANGED docs
    BY <1>0, <1>2, <2>1, DocsStayVouched
  <2>2. CASE IndexFetched(r) /\ ~ UNCHANGED docs
    <3> DEFINE c == recon[r].coord
               d == Projected(recon[r].ev)
    <3>1. /\ recon[r].ev \in Content /\ coordOf[recon[r].ev] = c /\ c \in Coord
          /\ docs' = [docs EXCEPT ![c] = d]
      BY <1>0, <2>2 DEF IndexFetched, WorkOK
    <3>2. d \in Doc /\ d.community = ownTags[recon[r].ev]
      BY <3>1, ContentCoord, DocTypes
    <3>3. \A x \in d.community : Justified(c, x)
      BY <3>1, <3>2 DEF Justified
    <3> HIDE DEF c, d
    <3> QED
      BY <1>0, <1>2, <3>1, <3>2, <3>3, DocsStepVouched
  <2>3. CASE Patch(r) /\ ~ UNCHANGED docs
    <3> DEFINE c == recon[r].coord
               cs == ownTags[recon[r].ev] \cup recon[r].want
               d == [docs[c] EXCEPT !.community = cs]
    <3>1. /\ recon[r].ev \in Content /\ coordOf[recon[r].ev] = c /\ c \in Coord
          /\ docs' = Stamped(docs, c, cs)
      BY <1>0, <2>3 DEF Patch, WorkOK
    <3>2. docs[c] \in Doc /\ cs \in SUBSET Community
      BY <1>0, <3>1, ContentCoord, EventAssumption DEF Work
    <3>3. \A x \in cs : Justified(c, x)
      BY <1>0, <3>1 DEF Justified, WorkVouched
    <3> HIDE DEF c, cs
    <3>4. docs' = [docs EXCEPT ![c] = d] /\ d \in Doc /\ d.community = cs
      BY <1>0, <2>3, <3>1, <3>2 DEF Stamped, Doc
    <3> HIDE DEF d
    <3> QED
      BY <1>0, <1>2, <3>1, <3>3, <3>4, DocsStepVouched
  <2>4. CASE Start(r) \/ ReadShares(r) \/ DeriveStamps(r) \/ Lookup(r) \/ Fetch(r) \/ StoreFetched(r)
    BY <2>1, <2>4 DEF Start, ReadShares, DeriveStamps, Lookup, Fetch, StoreFetched, stores
  <2> QED
    BY <2>1, <2>2, <2>3, <2>4 DEF Reconcile
<1> QED
  BY <1>2, <1>4, <1>5

(* The buffer's worker writes no document, the sweep only sets its         *)
(* reconciler to work.                                                     *)
LEMMA OthersVouched ==
  ASSUME VouchInv, BoltWorker \/ Sweep \/ UNCHANGED vars
  PROVE  Noted' /\ (\A q \in Recon \cup {sweeper} : WorkVouched(recon[q])') /\ DocsVouched'
<1>0. /\ Noted /\ (\A q \in Recon \cup {sweeper} : WorkVouched(recon[q])) /\ DocsVouched /\ WorksOK
  BY DEF VouchInv, StamperInv
<1>1. UNCHANGED <<shares, docs, noted, registryVars>>
  BY DEF BoltWorker, Sweep, SweepTick, SweepNext, UnchangedJobs, UnchangedRequests, stores, history, vars
<1>2. Noted' /\ Growing
  BY <1>0, <1>1, NotedKept DEF Noted, registryVars
<1>3. \A q \in Recon \cup {sweeper} : WorkVouched(recon[q])'
  <2>1. CASE UNCHANGED recon
    BY <1>0, <1>2, <2>1, WorksStayVouched
  <2>2. CASE SweepNext
    <3>1. PICK c \in todo : Goes(sweeper, [NoRecon EXCEPT !.pc = "refs", !.coord = c])
      BY <2>2 DEF SweepNext, Goes
    <3> DEFINE w == [NoRecon EXCEPT !.pc = "refs", !.coord = c]
    <3>2. w.refs = {} /\ w.want = {}
      BY DEF NoRecon
    <3>3. WorkVouched(w)
      BY <3>2 DEF WorkVouched
    <3> HIDE DEF w
    <3> QED
      BY <1>0, <1>2, <3>1, <3>3, WorkStepVouched DEF w
  <2> QED
    BY <2>1, <2>2 DEF BoltWorker, Sweep, SweepTick, UnchangedJobs, vars
<1> QED
  BY <1>0, <1>1, <1>2, <1>3, DocsStayVouched

LEMMA InitVouched == Init => VouchInv
<1> SUFFICES ASSUME Init PROVE VouchInv
  OBVIOUS
<1>1. \A r \in Recon \cup {sweeper} : WorkVouched(recon[r])
  BY NotWork DEF Init, WorkVouched
<1>2. Noted
  BY DEF Init, Noted
<1>3. DocsVouched
  BY DocTypes DEF Init, DocsVouched
<1> QED
  BY <1>1, <1>2, <1>3, InitType DEF VouchInv

LEMMA StepVouched ==
  ASSUME VouchInv, [Next]_vars
  PROVE  VouchInv'
<1>1. StamperInv'
  BY StepType DEF VouchInv
<1>2. CASE Next
  BY <1>1, <1>2, RequestsVouched, RegistryVouched, ReconcileVouched, OthersVouched DEF Next, VouchInv
<1>3. CASE UNCHANGED vars
  BY <1>1, <1>3, OthersVouched DEF VouchInv
<1> QED
  BY <1>2, <1>3

(* However reconcilers, handlers, refreshes and failures interleave, every *)
(* community on a document is a version's own, or some share of it by one  *)
(* who has been a member, as far as the registry knew then, put it there.  *)
THEOREM StampsAreVouchedFor == Spec => []OnlyVouched
<1>1. VouchInv => OnlyVouched
  BY DocsVouchedIs DEF VouchInv
<1> QED
  BY <1>1, InitVouched, StepVouched, PTL DEF Spec
=============================================================================
