---------------------------- MODULE ReadPath_proofs ----------------------------
(***************************************************************************)
(* Theorems about the mapping registry and the read path, for every set of *)
(* relays, notes, sources, queries, collections and documents, every page  *)
(* size and every limit of the caches.                                     *)
(***************************************************************************)
EXTENDS ReadPath, SequenceTheorems, FiniteSetTheorems, WellFoundedInduction, TLAPS

-----------------------------------------------------------------------------
(* Numbers, sequences and sets. *)

LessThan == {ss \in Nat \X Nat : ss[1] < ss[2]}

LEMMA LeastNat ==
  ASSUME NEW T \in SUBSET Nat, T # {}
  PROVE  Min(T) \in T /\ \A m \in T : Min(T) <= m
<1>1. OpToRel(<, Nat) = LessThan
  BY Zenon DEF OpToRel, LessThan
<1>2. IsWellFoundedOn(LessThan, Nat)
  BY <1>1, NatLessThanWellFounded, Zenon
<1>3. PICK n \in T : \A m \in T : ~ (<<m, n>> \in LessThan)
  BY <1>2, WFMin
<1>4. ASSUME NEW m \in T PROVE n <= m
  <2>1. m \in Nat /\ n \in Nat /\ <<m, n>> \in Nat \X Nat
    OBVIOUS
  <2>2. ~ (m < n)
    BY <1>3, <2>1 DEF LessThan
  <2> QED
    BY <2>1, <2>2
<1> QED
  BY <1>4, Zenon DEF Min

LEMMA LesserOfTwo ==
  ASSUME NEW m \in Nat, NEW n \in Nat
  PROVE  /\ Min({m, n}) \in Nat /\ Min({m, n}) <= m /\ Min({m, n}) <= n
         /\ Min({m, n}) = m \/ Min({m, n}) = n
<1>1. {m, n} \in SUBSET Nat /\ {m, n} # {}
  OBVIOUS
<1>2. Min({m, n}) \in {m, n} /\ \A i \in {m, n} : Min({m, n}) <= i
  BY <1>1, LeastNat
<1> QED
  BY <1>2

(* RemoveFirst takes nothing but an element away. *)
LEMMA Spliced ==
  ASSUME NEW S, NEW s \in Seq(S), NEW n \in 1 .. Len(s)
  PROVE  /\ RemoveAt(s, n) \in Seq(S) /\ Len(RemoveAt(s, n)) = Len(s) - 1
         /\ \A i \in 1 .. Len(s) - 1 : RemoveAt(s, n)[i] = s[IF i < n THEN i ELSE i + 1]
<1>0. Len(s) \in Nat /\ n \in Nat /\ 1 <= n /\ n <= Len(s)
  OBVIOUS
<1> DEFINE a == SubSeq(s, 1, n - 1)
           b == SubSeq(s, n + 1, Len(s))
           r == RemoveAt(s, n)
<1>1. a \in Seq(S) /\ Len(a) = n - 1 /\ \A i \in 1 .. n - 1 : a[i] = s[i]
  <2>1. \A i \in 1 .. n - 1 : s[i] \in S
    BY <1>0
  <2>2. n - 1 \in Int /\ 1 \in Int
    BY <1>0
  <2>3. /\ a \in Seq(S)
        /\ Len(a) = IF 1 <= n - 1 THEN n - 1 - 1 + 1 ELSE 0
        /\ \A i \in 1 .. n - 1 - 1 + 1 : a[i] = s[1 + i - 1]
    BY <2>1, <2>2, SubSeqProperties
  <2> HIDE DEF a
  <2> QED
    BY <1>0, <2>3
<1>2. b \in Seq(S) /\ Len(b) = Len(s) - n /\ \A i \in 1 .. Len(s) - n : b[i] = s[n + i]
  <2>1. \A i \in n + 1 .. Len(s) : s[i] \in S
    BY <1>0
  <2>2. n + 1 \in Int /\ Len(s) \in Int
    BY <1>0
  <2>3. /\ b \in Seq(S)
        /\ Len(b) = IF n + 1 <= Len(s) THEN Len(s) - (n + 1) + 1 ELSE 0
        /\ \A i \in 1 .. Len(s) - (n + 1) + 1 : b[i] = s[n + 1 + i - 1]
    BY <2>1, <2>2, SubSeqProperties
  <2> HIDE DEF b
  <2> QED
    BY <1>0, <2>3
<1>3. r = a \o b
  BY DEF RemoveAt
<1> HIDE DEF a, b
<1>4. /\ a \o b \in Seq(S) /\ Len(a \o b) = Len(a) + Len(b)
      /\ \A i \in 1 .. Len(a) + Len(b) : (a \o b)[i] = IF i <= Len(a) THEN a[i] ELSE b[i - Len(a)]
  BY <1>1, <1>2, ConcatProperties
<1>5. r \in Seq(S) /\ Len(r) = Len(a) + Len(b)
      /\ \A i \in 1 .. Len(a) + Len(b) : r[i] = IF i <= Len(a) THEN a[i] ELSE b[i - Len(a)]
  BY <1>3, <1>4, Zenon
<1> HIDE DEF r
<1>6. ASSUME NEW i \in 1 .. Len(s) - 1 PROVE r[i] = s[IF i < n THEN i ELSE i + 1]
  <2>1. r[i] = IF i <= n - 1 THEN a[i] ELSE b[i - (n - 1)]
    BY <1>0, <1>1, <1>2, <1>5
  <2>2. CASE i <= n - 1
    BY <1>0, <1>1, <2>1, <2>2
  <2>3. CASE ~ (i <= n - 1)
    <3>1. i - (n - 1) \in 1 .. Len(s) - n /\ n + (i - (n - 1)) = i + 1
      BY <1>0, <2>3
    <3> QED
      BY <1>0, <1>2, <2>1, <2>3, <3>1
  <2> QED
    BY <2>2, <2>3
<1> QED
  BY <1>0, <1>1, <1>2, <1>5, <1>6 DEF r

LEMMA Removed ==
  ASSUME NEW S, NEW s \in Seq(S), NEW x, IsInjective(s)
  PROVE  /\ RemoveFirst(s, x) \in Seq(S) /\ IsInjective(RemoveFirst(s, x))
         /\ Len(RemoveFirst(s, x)) <= Len(s)
         /\ \A i \in DOMAIN RemoveFirst(s, x) : RemoveFirst(s, x)[i] # x
<1>0. Len(s) \in Nat /\ DOMAIN s = 1 .. Len(s)
  OBVIOUS
<1> DEFINE I == {i \in 1 .. Len(s) : s[i] = x}
<1>1. CASE I = {}
  <2>1. RemoveFirst(s, x) = s
    BY <1>1 DEF RemoveFirst
  <2> QED
    BY <1>0, <1>1, <2>1
<1>2. CASE I # {}
  <2>1. PICK n \in 1 .. Len(s) : s[n] = x /\ n = Min(I)
    <3>1. I \in SUBSET Nat /\ \A i \in I : i \in 1 .. Len(s) /\ s[i] = x
      BY <1>0
    <3> HIDE DEF I
    <3> QED
      BY <1>2, <3>1, LeastNat
  <2>2. RemoveFirst(s, x) = RemoveAt(s, n)
    <3>1. SelectInSeq(s, LAMBDA v : v = x) = n
      BY <1>2, <2>1, Zenon DEF SelectInSeq
    <3> QED
      BY <2>1, <3>1, Zenon DEF RemoveFirst
  <2> DEFINE r == RemoveAt(s, n)
  <2>3. /\ r \in Seq(S) /\ Len(r) = Len(s) - 1
        /\ \A i \in 1 .. Len(s) - 1 : r[i] = s[IF i < n THEN i ELSE i + 1]
    BY Spliced
  <2> HIDE DEF r, I
  <2>4. DOMAIN r = 1 .. Len(s) - 1
    BY <2>3
  <2> DEFINE at(i) == IF i < n THEN i ELSE i + 1
  <2>5. \A i, j \in 1 .. Len(s) - 1 : /\ at(i) \in 1 .. Len(s) /\ at(i) # n /\ (at(i) = at(j) => i = j)
                                    /\ r[i] = s[at(i)] /\ r[j] = s[at(j)]
    BY <1>0, <2>3
  <2> HIDE DEF at
  <2>6. \A i \in 1 .. Len(s) - 1 : r[i] # x
    BY <1>0, <2>1, <2>5 DEF IsInjective
  <2>7. IsInjective(r)
    BY <1>0, <2>5, <2>4 DEF IsInjective
  <2> QED
    BY <1>0, <2>2, <2>3, <2>4, <2>6, <2>7 DEF r
<1> QED
  BY <1>1, <1>2

(* There are no more values than places they are at. *)
LEMMA ImageSize ==
  ASSUME NEW S, IsFiniteSet(S), NEW f, NEW T, T = {f[x] : x \in S}
  PROVE  IsFiniteSet(T) /\ Cardinality(T) <= Cardinality(S)
<1> DEFINE g == [x \in S |-> f[x]]
<1>1. g \in Surjection(S, T)
  BY DEF Surjection
<1> QED
  BY <1>1, FS_Surjection

LEMMA KeysAreFinite == IsFiniteSet(Key) /\ Cardinality(Key) \in Nat
<1>1. Keys \in Seq(Key) /\ Len(Keys) \in Nat /\ DOMAIN Keys = 1 .. Len(Keys)
  BY RegistryAssumption
<1>2. IsFiniteSet(1 .. Len(Keys))
  BY <1>1, FS_Interval
<1>3. Key = {Keys[i] : i \in 1 .. Len(Keys)}
  BY <1>1 DEF Key, ToSet
<1>4. IsFiniteSet(Key)
  BY <1>2, <1>3, ImageSize
<1> QED
  BY <1>4, FS_CardinalityType

(* An order of some keys names only those. *)
LEMMA OrdersOfKeys ==
  ASSUME NEW S \in SUBSET Key
  PROVE  SetToSeqs(S) \subseteq Seq(S) /\ Sorted(S) \subseteq Seq(S)
<1>1. Cardinality(S) \in Nat
  BY KeysAreFinite, FS_Subset, FS_CardinalityType
<1>2. SetToSeqs(S) \subseteq [1 .. Cardinality(S) -> S]
  BY DEF SetToSeqs
<1> QED
  BY <1>1, <1>2 DEF Sorted

-----------------------------------------------------------------------------
(* Type correctness of the registry. *)

LEMMA AskedIsOffered ==
  ASSUME NEW a, NEW b, NEW M, NEW N,
         a.key = b.key, a.stage = b.stage, a.concordance = b.concordance, a.mappings = b.mappings
  PROVE  /\ Asked(a, N) \subseteq N
         /\ Asked(a, N) = Asked(b, N)
         /\ Asked(a, N) \cap M \subseteq Asked(a, M)
<1>1. SchemesOf(a) = SchemesOf(b)
  BY DEF SchemesOf
<1>2. Asked(a, N) \subseteq N
  BY DEF Asked
<1>3. Asked(a, N) = Asked(b, N)
  BY <1>1 DEF Asked
<1>4. Asked(a, N) \cap M \subseteq Asked(a, M)
  BY DEF Asked
<1> QED
  BY <1>2, <1>3, <1>4

LEMMA NoLoadType == NoLoad \in Load /\ NoLoad.key = NoKey /\ NoLoad.todo = <<>> /\ NoLoad.missed = {}
<1>1. 1 \in DOMAIN Relays
  BY RegistryAssumption
<1> QED
  BY <1>1 DEF NoLoad, Load, Kind

(* Every note the relay held all the while is read or still to come. *)
StillToCome(ld) ==
  ld.held \subseteq Offered(ld) /\ \A n \in ld.held : n \in ld.got \/ ld.until = 0 \/ note[n].createdAt <= ld.until

Paged(ld) == ld.missed = {} /\ (ld.key # NoKey => StillToCome(ld))

LEMMA OfferedIsNotes ==
  ASSUME RegistryTypeOK, NEW ld \in Load
  PROVE  Offered(ld) \subseteq Note /\ Offered(ld) \subseteq remote[Relays[ld.relay]]
<1>1. Relays[ld.relay] \in Relay
  BY DEF Load, Relay, ToSet
<1>2. Asked(ld, remote[Relays[ld.relay]]) \subseteq remote[Relays[ld.relay]]
  BY AskedIsOffered
<1> QED
  BY <1>1, <1>2 DEF Offered, RegistryTypeOK

LEMMA TopType ==
  ASSUME RegistryTypeOK, NEW ld \in Load
  PROVE  /\ FromTop(ld) \in Load
         /\ FromTop(ld).key = ld.key /\ FromTop(ld).todo = ld.todo
         /\ ld.missed = {} => Paged(FromTop(ld))
<1> DEFINE new == FromTop(ld)
<1>1. new \in Load /\ new.until = 0 /\ new.held = Offered(ld) /\ new.missed = ld.missed
      /\ new.key = ld.key /\ new.todo = ld.todo /\ new.stage = ld.stage /\ new.relay = ld.relay
      /\ new.concordance = ld.concordance /\ new.mappings = ld.mappings
  BY OfferedIsNotes DEF FromTop, Load
<1> HIDE DEF new
<1>2. Offered(new) = Offered(ld)
  BY <1>1, AskedIsOffered DEF Offered
<1> QED
  BY <1>1, <1>2 DEF Paged, StillToCome, new

LEMMA FetchingType ==
  ASSUME RegistryTypeOK, NEW ld \in Load, NEW stage \in Kind
  PROVE  /\ Fetching(ld, stage) \in Load
         /\ Fetching(ld, stage).key = ld.key /\ Fetching(ld, stage).todo = ld.todo
         /\ ld.missed = {} => Paged(Fetching(ld, stage))
<1> DEFINE new == [ld EXCEPT !.stage = stage, !.relay = 1, !.got = {}]
<1>1. 1 \in DOMAIN Relays
  BY RegistryAssumption
<1>2. new \in Load /\ new.key = ld.key /\ new.todo = ld.todo /\ new.missed = ld.missed
  BY <1>1 DEF Load
<1> HIDE DEF new
<1>3. Fetching(ld, stage) = FromTop(new)
  BY DEF Fetching, new
<1> QED
  BY <1>2, <1>3, TopType

(* What follows of a load. *)
LEMMA BeginType ==
  ASSUME RegistryTypeOK, NEW todo \in Seq(Key)
  PROVE  /\ Begin(todo, {}) \in Load /\ Paged(Begin(todo, {}))
         /\ todo = <<>> => Begin(todo, {}).key = NoKey /\ Begin(todo, {}).todo = <<>>
         /\ todo # <<>> => Begin(todo, {}).key = Head(todo) /\ Begin(todo, {}).todo = Tail(todo)
<1>1. CASE todo = <<>>
  <2>1. Begin(todo, {}) = NoLoad
    BY <1>1, NoLoadType DEF Begin, NoLoad
  <2> QED
    BY <1>1, <2>1, NoLoadType DEF Paged
<1>2. CASE todo # <<>>
  <2> DEFINE new == [NoLoad EXCEPT !.key = Head(todo), !.todo = Tail(todo), !.missed = {}]
             stage == IF source[Head(todo)].kind = "concordance" THEN "concordance" ELSE "mapping"
  <2>1. Head(todo) \in Key /\ Tail(todo) \in Seq(Key)
    BY <1>2
  <2>2. new \in Load /\ new.key = Head(todo) /\ new.todo = Tail(todo) /\ new.missed = {}
    BY <2>1, NoLoadType DEF Load
  <2>3. stage \in Kind
    BY DEF Kind
  <2>4. Begin(todo, {}) = Fetching(new, stage)
    BY <1>2 DEF Begin
  <2> HIDE DEF new, stage
  <2> QED
    BY <1>2, <2>2, <2>3, <2>4, FetchingType
<1> QED
  BY <1>1, <1>2

-----------------------------------------------------------------------------
(* Pages.  A full page holds everything newer than the oldest note on it,  *)
(* and a page that is not full everything there is.                        *)

LEMMA NotesAreFinite ==
  ASSUME NEW S \in SUBSET Note
  PROVE  IsFiniteSet(S) /\ Cardinality(S) \in Nat
BY RegistryAssumption, FS_Subset, FS_CardinalityType

LEMMA NewestFirst ==
  ASSUME RegistryTypeOK, NEW ld \in Load, NEW page \in Pages(ld)
  PROVE  /\ page \subseteq Offered(ld) /\ page \subseteq Note /\ Cardinality(page) \in Nat
         /\ Cardinality(page) < PageSize =>
              \A n \in Offered(ld) : ld.until = 0 \/ note[n].createdAt <= ld.until => n \in page
         /\ \A o \in page, n \in Offered(ld) :
              (ld.until = 0 \/ note[n].createdAt <= ld.until) /\ note[n].createdAt > note[o].createdAt => n \in page
<1> DEFINE notes == {n \in Offered(ld) : ld.until = 0 \/ note[n].createdAt <= ld.until}
           size == Min({PageSize, Cardinality(notes)})
           newer(n) == {o \in notes : note[o].createdAt > note[n].createdAt}
           upTo(n) == {o \in notes : note[o].createdAt >= note[n].createdAt}
           certain == {n \in notes : Cardinality(upTo(n)) <= size}
           tied == {n \in notes \ certain : Cardinality(newer(n)) < size}
<1>1. PICK S \in SUBSET tied : Cardinality(S) = size - Cardinality(certain) /\ page = certain \cup S
  BY DEF Pages
<1>2. notes \subseteq Note /\ \A n \in notes : note[n].createdAt \in Nat
  BY OfferedIsNotes, RegistryAssumption
<1>3. \A n \in notes : newer(n) \subseteq notes /\ upTo(n) \subseteq notes
  OBVIOUS
<1>4. \A N \in SUBSET notes : IsFiniteSet(N) /\ Cardinality(N) \in Nat
  <2> HIDE DEF notes
  <2> QED
    BY <1>2, NotesAreFinite
<1>5. certain \subseteq notes /\ S \subseteq notes /\ certain \cap S = {} /\ page \subseteq notes
  BY <1>1
<1>6. size \in Nat /\ size <= Cardinality(notes) /\ size <= PageSize /\ (size = PageSize \/ size = Cardinality(notes))
  <2>1. PageSize \in Nat /\ Cardinality(notes) \in Nat
    BY <1>4, RegistryAssumption
  <2> HIDE DEF notes
  <2> QED
    BY <2>1, LesserOfTwo
<1>7. Cardinality(page) = size
  <2>1. IsFiniteSet(certain) /\ IsFiniteSet(S) /\ Cardinality(certain) \in Nat /\ Cardinality(S) \in Nat
    BY <1>4, <1>5, Zenon
  <2>2. Cardinality(certain \cup S) = Cardinality(certain) + Cardinality(S) - Cardinality(certain \cap S)
    BY <2>1, FS_Union, Zenon
  <2>3. Cardinality(certain \cap S) = 0
    BY <1>5, FS_EmptySet, Zenon
  <2> HIDE DEF certain, size
  <2> QED
    BY <1>1, <1>6, <2>1, <2>2, <2>3
<1>8. ASSUME Cardinality(page) < PageSize PROVE page = notes
  <2>1. Cardinality(notes) = Cardinality(page)
    <3> HIDE DEF size, notes
    <3> QED
      BY <1>6, <1>7, <1>8, RegistryAssumption
  <2>2. IsFiniteSet(notes)
    BY <1>4, Zenon
  <2> HIDE DEF notes
  <2> QED
    BY <1>5, <2>1, <2>2, FS_Subset, Zenon
<1>9. ASSUME NEW o \in page, NEW n \in notes, note[n].createdAt > note[o].createdAt PROVE n \in page
  <2>1. o \in notes /\ note[o].createdAt \in Nat /\ note[n].createdAt \in Nat
    BY <1>2, <1>5
  <2>2. /\ upTo(n) \subseteq newer(o) /\ newer(o) \subseteq upTo(o)
        /\ newer(o) \subseteq notes /\ upTo(o) \subseteq notes /\ upTo(n) \subseteq notes
    BY <1>2, <1>9, <2>1
  <2>3. /\ Cardinality(upTo(n)) <= Cardinality(newer(o)) /\ Cardinality(newer(o)) <= Cardinality(upTo(o))
        /\ Cardinality(upTo(n)) \in Nat /\ Cardinality(newer(o)) \in Nat /\ Cardinality(upTo(o)) \in Nat
    <3> HIDE DEF upTo, newer, notes
    <3> QED
      BY <1>4, <2>2, FS_Subset
  <2>4. Cardinality(upTo(n)) <= size
    <3>1. o \in certain \/ o \in tied
      BY <1>1
    <3>2. Cardinality(upTo(o)) <= size \/ Cardinality(newer(o)) < size
      BY <3>1
    <3> HIDE DEF upTo, newer, notes, size
    <3> QED
      BY <1>6, <2>3, <3>2
  <2> QED
    BY <1>1, <2>4
<1>10. page \subseteq Offered(ld) /\ page \subseteq Note /\ Cardinality(page) \in Nat
  BY <1>2, <1>4, <1>5
<1> QED
  BY <1>8, <1>9, <1>10

LEMMA NoteTimes == \A n \in Note : note[n].createdAt \in Nat /\ note[n].createdAt # 0
BY RegistryAssumption

LEMMA OldestOfPage ==
  ASSUME NEW page \in SUBSET Note, page # {}
  PROVE  /\ Oldest(page) \in Nat \ {0} /\ \A n \in page : Oldest(page) <= note[n].createdAt
         /\ \E o \in page : Oldest(page) = note[o].createdAt
<1> DEFINE T == {note[n].createdAt : n \in page}
<1>1. T \in SUBSET Nat /\ T # {}
  BY NoteTimes
<1>2. Min(T) \in T /\ \A m \in T : Min(T) <= m
  <2> HIDE DEF T
  <2> QED
    BY <1>1, LeastNat
<1>3. Oldest(page) = Min(T)
  BY DEF Oldest
<1>4. PICK o \in page : Oldest(page) = note[o].createdAt
  BY <1>2, <1>3
<1>5. \A n \in page : Oldest(page) <= note[n].createdAt
  BY <1>2, <1>3
<1> QED
  BY <1>4, <1>5, NoteTimes

-----------------------------------------------------------------------------
(* The inductive invariant of the registry: no page is lost, and a cached  *)
(* graph is the one its sources make now.                                  *)

MayHold(l, ld) == l \in Query => ld.key \notin Defaults /\ ld.todo \in Seq(Key \ Defaults)

LoadsOK ==
  /\ loads \in [Loader -> Load]
  /\ \A l \in Loader : Paged(loads[l]) /\ MayHold(l, loads[l])

FailedOK ==
  failedAt \in Seq(Key \ Defaults) /\ IsInjective(failedAt) /\ Len(failedAt) <= MaxFailedSources

EntriesOK ==
  /\ entries \in [Key -> Entry] /\ lastUsed \in [Key -> 0 .. Cardinality(Key)]
  /\ Cardinality(OnDemand) <= MaxOnDemandSources

GraphsOK ==
  /\ graphs \in [DOMAIN graphs -> Entry] /\ DOMAIN graphs \subseteq SUBSET Key
  /\ IsFiniteSet(DOMAIN graphs) /\ Cardinality(DOMAIN graphs) <= MaxCachedGraphs
  /\ \A keys \in DOMAIN graphs : graphs[keys] = Merged(keys)

RemoteOK == remote \in [Relay -> SUBSET Note] /\ failures \in 0 .. MaxFailures

RegistryInv == RemoteOK /\ LoadsOK /\ FailedOK /\ EntriesOK /\ GraphsOK

LEMMA InvHasType == RegistryInv => RegistryTypeOK /\ CachesBounded /\ PagingComplete
<1> SUFFICES ASSUME RegistryInv PROVE RegistryTypeOK /\ CachesBounded /\ PagingComplete
  OBVIOUS
<1> USE DEF RegistryInv
<1>1. PagingComplete /\ \A q \in Query : loads[q].key \notin Defaults /\ loads[q].todo \in Seq(Key \ Defaults)
  BY DEF LoadsOK, PagingComplete, Paged, MayHold, Loader
<1>2. remote \in [Relay -> SUBSET Note] /\ failures \in 0 .. MaxFailures
  BY DEF RemoteOK
<1>3. entries \in [Key -> Entry] /\ lastUsed \in [Key -> 0 .. Cardinality(Key)]
  BY DEF EntriesOK
<1>4. failedAt \in Seq(Key \ Defaults) /\ IsInjective(failedAt)
  BY DEF FailedOK
<1>5. graphs \in [DOMAIN graphs -> Entry] /\ DOMAIN graphs \subseteq SUBSET Key
  BY DEF GraphsOK
<1>6. loads \in [Loader -> Load]
  BY DEF LoadsOK
<1>7. CachesBounded
  BY DEF FailedOK, EntriesOK, GraphsOK, CachesBounded
<1> QED
  BY <1>1, <1>2, <1>3, <1>4, <1>5, <1>6, <1>7, Zenon DEF RegistryTypeOK

LEMMA EntriesStay ==
  EntriesOK /\ UNCHANGED <<entries, lastUsed>> => EntriesOK'
BY DEF EntriesOK, OnDemand, Present

LEMMA GraphsStay ==
  GraphsOK /\ UNCHANGED <<entries, graphs>> => GraphsOK'
<1> SUFFICES ASSUME GraphsOK, UNCHANGED <<entries, graphs>> PROVE GraphsOK'
  OBVIOUS
<1>1. \A keys : Merged(keys)' = Merged(keys)
  BY DEF Merged, AddressesOf
<1>2. \A keys \in DOMAIN graphs' : graphs'[keys] = Merged(keys)'
  BY <1>1 DEF GraphsOK
<1> QED
  BY <1>2 DEF GraphsOK

LEMMA LoadStays ==
  ASSUME NEW l \in Loader, Paged(loads[l]), MayHold(l, loads[l]), loads'[l] = loads[l], remote' = remote
  PROVE  Paged(loads[l])' /\ MayHold(l, loads[l])'
<1>1. Offered(loads[l])' = Offered(loads[l])
  BY DEF Offered, Asked, SchemesOf
<1> QED
  BY <1>1 DEF Paged, StillToCome, MayHold

LEMMA OneLoadChanges ==
  ASSUME LoadsOK, NEW l \in Loader, NEW ld \in Load, Paged(ld), MayHold(l, ld),
         loads' = [loads EXCEPT ![l] = ld], remote' = remote
  PROVE  LoadsOK'
<1>1. \A k \in Loader : loads'[k] = IF k = l THEN ld ELSE loads[k]
  BY DEF LoadsOK
<1>2. ASSUME NEW k \in Loader PROVE Paged(loads[k])' /\ MayHold(k, loads[k])'
  <2>1. CASE k = l
    <3>1. Offered(ld)' = Offered(ld)
      BY DEF Offered, Asked, SchemesOf
    <3> QED
      BY <1>1, <2>1, <3>1 DEF Paged, StillToCome, MayHold
  <2>2. CASE k # l
    BY <1>1, <2>2, LoadStays DEF LoadsOK
  <2> QED
    BY <2>1, <2>2
<1> QED
  BY <1>1, <1>2 DEF LoadsOK

LEMMA GoesOn ==
  ASSUME RegistryInv, NEW l \in Loader, NEW todo \in Seq(Key), l \in Query => todo \in Seq(Key \ Defaults),
         NEW missed, missed = {},
         loads' = [loads EXCEPT ![l] = Begin(todo, missed)], remote' = remote
  PROVE  LoadsOK'
<1> DEFINE ld == Begin(todo, {})
<1>1. ld \in Load /\ Paged(ld)
  BY BeginType, InvHasType
<1>2. MayHold(l, ld)
  <2>1. NoKey \notin Defaults
    BY RegistryAssumption
  <2>2. CASE todo = <<>>
    <3>1. ld.key = NoKey /\ ld.todo = <<>>
      BY <2>2, BeginType, InvHasType
    <3> HIDE DEF ld
    <3> QED
      BY <2>1, <3>1 DEF MayHold
  <2>3. CASE todo # <<>>
    <3>1. ld.key = Head(todo) /\ ld.todo = Tail(todo)
      BY <2>3, BeginType, InvHasType
    <3> HIDE DEF ld
    <3> QED
      BY <2>3, <3>1 DEF MayHold
  <2> QED
    BY <2>2, <2>3
<1> HIDE DEF ld
<1>3. LoadsOK /\ loads' = [loads EXCEPT ![l] = ld]
  BY DEF ld, RegistryInv
<1> QED
  BY <1>1, <1>2, <1>3, OneLoadChanges

LEMMA FailedType ==
  ASSUME RegistryInv, NEW k \in Key \ Defaults
  PROVE  /\ Failed(k) \in Seq(Key \ Defaults) /\ IsInjective(Failed(k))
         /\ Len(Failed(k)) <= MaxFailedSources
<1> DEFINE K == Key \ Defaults
           kept == IF Len(failedAt) >= MaxFailedSources THEN Tail(failedAt) ELSE failedAt
<1>0. MaxFailedSources \in Nat /\ MaxFailedSources # 0
  BY RegistryAssumption
<1>1. failedAt \in Seq(K) /\ IsInjective(failedAt) /\ Len(failedAt) <= MaxFailedSources
  BY DEF RegistryInv, FailedOK
<1>2. kept \in Seq(K) /\ IsInjective(kept) /\ Len(kept) < MaxFailedSources
  <2> HIDE DEF K
  <2>1. CASE Len(failedAt) >= MaxFailedSources
    <3>1. failedAt # <<>>
      BY <1>0, <1>1, <2>1
    <3>2. /\ Tail(failedAt) \in Seq(K) /\ Len(Tail(failedAt)) = Len(failedAt) - 1
          /\ \A i \in 1 .. Len(failedAt) - 1 : Tail(failedAt)[i] = failedAt[i + 1]
      BY <1>1, <3>1
    <3> QED
      BY <1>0, <1>1, <2>1, <3>2 DEF IsInjective
  <2>2. CASE ~ (Len(failedAt) >= MaxFailedSources)
    BY <1>0, <1>1, <2>2
  <2> QED
    BY <2>1, <2>2
<1> DEFINE s == RemoveFirst(kept, k)
<1>3. s \in Seq(K) /\ IsInjective(s) /\ Len(s) <= Len(kept) /\ \A i \in DOMAIN s : s[i] # k
  <2> HIDE DEF kept, K
  <2> QED
    BY <1>2, Removed
<1>4. Failed(k) = Append(s, k)
  BY DEF Failed
<1> HIDE DEF s, kept
<1>5. IsInjective(Append(s, k))
  BY <1>3 DEF IsInjective
<1> QED
  BY <1>0, <1>2, <1>3, <1>4, <1>5

(* The load of l comes to nothing. *)
LEMMA GivingUp ==
  ASSUME RegistryInv, NEW l \in Loader, Loading(l), GiveUp(l), UNCHANGED remote, failures' \in 0 .. MaxFailures
  PROVE  RegistryInv'
<1>1. LoadsOK
  BY DEF RegistryInv
<1>2. loads[l].todo \in Seq(Key) /\ (l \in Query => loads[l].todo \in Seq(Key \ Defaults)) /\ loads[l].missed = {}
  BY <1>1 DEF LoadsOK, MayHold, Paged, Load
<1>3. LoadsOK'
  BY <1>2, GoesOn DEF GiveUp
<1>4. FailedOK'
  <2>1. l \in Query => loads[l].key \in Key \ Defaults
    BY <1>1 DEF LoadsOK, MayHold, Load, Loading
  <2> QED
    BY <2>1, FailedType DEF GiveUp, RegistryInv, FailedOK
<1>5. EntriesOK' /\ GraphsOK'
  BY EntriesStay, GraphsStay DEF GiveUp, RegistryInv
<1> QED
  BY <1>3, <1>4, <1>5 DEF RegistryInv, RemoteOK

LEMMA RankedType ==
  ASSUME NEW live \in SUBSET Key, NEW time
  PROVE  Ranked(live, time) \in [Key -> 0 .. Cardinality(Key)]
<1>1. ASSUME NEW k \in Key
      PROVE  Cardinality({time[j] : j \in {j \in live : time[j] <= time[k]}}) \in 0 .. Cardinality(Key)
  <2> DEFINE J == {j \in live : time[j] <= time[k]}
             T == {time[j] : j \in J}
  <2>1. J \subseteq Key
    OBVIOUS
  <2>2. IsFiniteSet(J) /\ Cardinality(J) <= Cardinality(Key) /\ Cardinality(J) \in Nat
    <3> HIDE DEF J
    <3> QED
      BY <2>1, KeysAreFinite, FS_Subset, FS_CardinalityType
  <2>3. IsFiniteSet(T) /\ Cardinality(T) <= Cardinality(J) /\ Cardinality(T) \in Nat
    <3> HIDE DEF J
    <3> QED
      BY <2>2, ImageSize, FS_CardinalityType
  <2> HIDE DEF J, T
  <2>4. Cardinality(T) \in 0 .. Cardinality(Key)
    BY <2>2, <2>3, KeysAreFinite
  <2> QED
    BY <2>4 DEF J, T
<1>2. 0 \in 0 .. Cardinality(Key)
  BY KeysAreFinite
<1> QED
  BY <1>1, <1>2 DEF Ranked

LEMMA NoGraphs == ASSUME graphs' = <<>>, entries' \in [Key -> Entry] PROVE GraphsOK'
<1>1. DOMAIN <<>> = {} /\ <<>> \in [{} -> Entry]
  OBVIOUS
<1>2. IsFiniteSet({}) /\ Cardinality({}) = 0
  BY FS_EmptySet
<1>3. MaxCachedGraphs \in Nat
  BY RegistryAssumption
<1>4. DOMAIN graphs' = {} /\ graphs' \in [DOMAIN graphs' -> Entry]
  BY <1>1
<1>5. IsFiniteSet(DOMAIN graphs') /\ Cardinality(DOMAIN graphs') <= MaxCachedGraphs
  BY <1>2, <1>3, <1>4
<1> QED
  BY <1>4, <1>5 DEF GraphsOK

(* However many sources queries name, one is dropped for each that is one  *)
(* too many.                                                               *)
LEMMA Storing ==
  ASSUME RegistryInv, NEW l \in Loader, NEW k \in Key, NEW entry \in Entry,
         Store(l, k, entry), UNCHANGED <<remote, failures>>
  PROVE  RegistryInv'
<1> DEFINE live == (OnDemand \cup {k}) \ Defaults
           time == IF Present(k) THEN lastUsed ELSE [lastUsed EXCEPT ![k] = Now]
           over == Cardinality(live) > MaxOnDemandSources
<1>1. PICK gone \in IF over THEN Evictable(live, time) ELSE {NoKey} :
        /\ entries' = [j \in Key |-> IF j = gone THEN Absent ELSE IF j = k THEN entry ELSE entries[j]]
        /\ lastUsed' = Ranked(live \ {gone}, time)
  BY DEF Store
<1>2. entries \in [Key -> Entry] /\ Absent \in Entry
  BY DEF RegistryInv, EntriesOK, Absent, Entry
<1>3. entries' \in [Key -> Entry]
  BY <1>1, <1>2
<1>4. lastUsed' \in [Key -> 0 .. Cardinality(Key)]
  <2>1. live \ {gone} \in SUBSET Key
    BY DEF OnDemand
  <2> HIDE DEF live, time
  <2> QED
    BY <1>1, <2>1, RankedType
<1>5. Cardinality(OnDemand') <= MaxOnDemandSources
  <2>1. OnDemand' = {j \in Key : entries'[j] # Absent /\ j \notin Defaults}
    BY DEF OnDemand, Present
  <2>2. OnDemand' \subseteq live \ {gone}
    BY <1>1, <2>1 DEF OnDemand, Present
  <2>3. /\ IsFiniteSet(OnDemand) /\ Cardinality(OnDemand) \in Nat /\ Cardinality(OnDemand) <= MaxOnDemandSources
        /\ MaxOnDemandSources \in Nat
    <3>1. OnDemand \in SUBSET Key
      BY DEF OnDemand
    <3> QED
      BY <3>1, KeysAreFinite, FS_Subset, FS_CardinalityType, RegistryAssumption DEF RegistryInv, EntriesOK
  <2>4. /\ IsFiniteSet(live) /\ Cardinality(live) \in Nat /\ Cardinality(live) <= Cardinality(OnDemand) + 1
    <3>1. IsFiniteSet(OnDemand \cup {k}) /\ Cardinality(OnDemand \cup {k}) <= Cardinality(OnDemand) + 1
      BY <2>3, FS_AddElement
    <3>2. live \subseteq OnDemand \cup {k}
      OBVIOUS
    <3>3. IsFiniteSet(live) /\ Cardinality(live) <= Cardinality(OnDemand \cup {k})
      BY <3>1, <3>2, FS_Subset
    <3>4. Cardinality(live) \in Nat /\ Cardinality(OnDemand \cup {k}) \in Nat
      BY <3>1, <3>3, FS_CardinalityType
    <3> QED
      BY <2>3, <3>1, <3>3, <3>4
  <2>5. gone \in live <=> over
    <3>1. CASE over
      BY <1>1, <3>1 DEF Evictable
    <3>2. CASE ~ over
      <4>1. NoKey \notin live
        BY RegistryAssumption DEF OnDemand
      <4> QED
        BY <1>1, <3>2, <4>1
    <3> QED
      BY <3>1, <3>2
  <2>6. IsFiniteSet(live \ {gone}) /\ Cardinality(live \ {gone}) <= MaxOnDemandSources
    <3>1. /\ IsFiniteSet(live \ {gone})
          /\ Cardinality(live \ {gone}) = IF gone \in live THEN Cardinality(live) - 1 ELSE Cardinality(live)
      <4> HIDE DEF live
      <4> QED
        BY <2>4, FS_RemoveElement
    <3>2. over <=> Cardinality(live) > MaxOnDemandSources
      OBVIOUS
    <3> HIDE DEF live, over
    <3> QED
      BY <2>3, <2>4, <2>5, <3>1, <3>2
  <2>7. Cardinality(OnDemand') <= Cardinality(live \ {gone}) /\ Cardinality(OnDemand') \in Nat
        /\ Cardinality(live \ {gone}) \in Nat
    <3> DEFINE there == OnDemand'
               kept == live \ {gone}
    <3>1. there \subseteq kept /\ IsFiniteSet(kept)
      BY <2>2, <2>6
    <3> HIDE DEF there, kept
    <3>2. IsFiniteSet(there) /\ Cardinality(there) <= Cardinality(kept)
      BY <3>1, FS_Subset
    <3>3. Cardinality(there) \in Nat /\ Cardinality(kept) \in Nat
      BY <3>1, <3>2, FS_CardinalityType
    <3> QED
      BY <3>2, <3>3 DEF there, kept
  <2> HIDE DEF live
  <2> QED
    BY <2>3, <2>6, <2>7
<1>6. EntriesOK'
  BY <1>3, <1>4, <1>5 DEF EntriesOK
<1>7. FailedOK'
  <2>1. failedAt \in Seq(Key \ Defaults) /\ IsInjective(failedAt) /\ Len(failedAt) <= MaxFailedSources
    BY DEF RegistryInv, FailedOK
  <2>2. /\ RemoveFirst(failedAt, k) \in Seq(Key \ Defaults) /\ IsInjective(RemoveFirst(failedAt, k))
        /\ Len(RemoveFirst(failedAt, k)) <= Len(failedAt)
    BY <2>1, Removed
  <2>3. failedAt' = RemoveFirst(failedAt, k)
    BY DEF Store
  <2>4. MaxFailedSources \in Nat
    BY RegistryAssumption
  <2> QED
    BY <2>1, <2>2, <2>3, <2>4 DEF FailedOK
<1>8. GraphsOK'
  BY <1>3, NoGraphs DEF Store, KeptGraphs
<1>9. LoadsOK'
  <2>1. loads[l].todo \in Seq(Key) /\ (l \in Query => loads[l].todo \in Seq(Key \ Defaults)) /\ loads[l].missed = {}
    BY DEF RegistryInv, LoadsOK, MayHold, Paged, Load
  <2> QED
    BY <2>1, GoesOn DEF Store
<1> QED
  BY <1>6, <1>7, <1>8, <1>9 DEF RegistryInv, RemoteOK

LEMMA LoadsOnly ==
  ASSUME RegistryInv, LoadsOK', UNCHANGED <<remote, entries, lastUsed, failedAt, graphs>>,
         failures' \in 0 .. MaxFailures
  PROVE  RegistryInv'
<1>1. FailedOK'
  BY DEF RegistryInv, FailedOK
<1> QED
  BY <1>1, EntriesStay, GraphsStay DEF RegistryInv, RemoteOK

LEMMA PageThenPage ==
  ASSUME RegistryInv, NEW l \in Loader, Loading(l), NEW page \in Pages(loads[l]), NextPage(l, page), UNCHANGED remote
  PROVE  LoadsOK'
<1> DEFINE ld == loads[l]
           new == [ld EXCEPT !.until = Oldest(page), !.seen = @ \cup page, !.got = @ \cup page]
<1>1. ld \in Load /\ ld.key # NoKey /\ ld.missed = {} /\ StillToCome(ld) /\ MayHold(l, ld) /\ loads \in [Loader -> Load]
  BY DEF RegistryInv, LoadsOK, Paged, Loading
<1>2. loads' = [loads EXCEPT ![l] = new]
  BY <1>1 DEF NextPage, NextUntil
<1>3. page \subseteq Note /\ page # {}
  <2>1. page \subseteq Note
    BY <1>1, NewestFirst, InvHasType
  <2>2. Cardinality(page) = PageSize /\ PageSize # 0
    BY RegistryAssumption DEF NextPage
  <2> QED
    BY <2>1, <2>2, FS_EmptySet
<1>4. PICK o \in page : /\ Oldest(page) = note[o].createdAt /\ Oldest(page) \in Nat
  BY <1>3, OldestOfPage
<1>5. /\ new \in Load /\ new.key = ld.key /\ new.todo = ld.todo /\ new.stage = ld.stage /\ new.relay = ld.relay
      /\ new.concordance = ld.concordance /\ new.mappings = ld.mappings /\ new.missed = {}
      /\ new.held = ld.held /\ new.until = note[o].createdAt /\ new.got = ld.got \cup page
  <2> HIDE DEF ld
  <2> QED
    BY <1>1, <1>3, <1>4 DEF Load
<1> HIDE DEF ld, new
<1>6. Offered(new) = Offered(ld)
  BY <1>5, AskedIsOffered DEF Offered
<1>7. ASSUME NEW n \in ld.held PROVE n \in ld.got \cup page \/ note[n].createdAt <= note[o].createdAt
  <2>1. n \in Offered(ld) /\ (n \in ld.got \/ ld.until = 0 \/ note[n].createdAt <= ld.until)
    BY <1>1 DEF StillToCome
  <2>2. note[n].createdAt \in Nat /\ note[o].createdAt \in Nat
    BY <1>1, <1>3, NoteTimes DEF Load
  <2>3. (ld.until = 0 \/ note[n].createdAt <= ld.until) /\ note[n].createdAt > note[o].createdAt => n \in page
    BY <1>1, <2>1, NewestFirst, InvHasType DEF ld
  <2> QED
    BY <2>1, <2>2, <2>3
<1>8. Paged(new)
  BY <1>1, <1>5, <1>6, <1>7 DEF Paged, StillToCome
<1>9. MayHold(l, new)
  BY <1>1, <1>5 DEF MayHold
<1> QED
  BY <1>2, <1>5, <1>8, <1>9, OneLoadChanges DEF RegistryInv

(* The last page brings what was still to come. *)
LEMMA LastPageBringsAll ==
  ASSUME RegistryInv, NEW l \in Loader, Loading(l), NEW page \in Pages(loads[l]), LastPage(page)
  PROVE  /\ Received(l, page) \in Load /\ Received(l, page).missed = {}
         /\ Received(l, page).key = loads[l].key /\ Received(l, page).todo = loads[l].todo
         /\ Received(l, page).relay = loads[l].relay
         /\ Received(l, page).key \in Key /\ MayHold(l, Received(l, page))
<1> DEFINE ld == loads[l]
           new == [ld EXCEPT !.got = @ \cup page, !.missed = @ \cup (ld.held \ (ld.got \cup page))]
<1>1. ld \in Load /\ ld.key # NoKey /\ ld.missed = {} /\ StillToCome(ld) /\ MayHold(l, ld)
  BY DEF RegistryInv, LoadsOK, Paged, Loading
<1>2. page \subseteq Note
  BY <1>1, NewestFirst, InvHasType
<1>3. \A n \in ld.held : n \in ld.got \cup page
  BY <1>1, NewestFirst, InvHasType DEF StillToCome, LastPage
<1>4. Received(l, page) = new
  BY DEF Received
<1> HIDE DEF ld
<1>5. /\ new \in Load /\ new.missed = {} /\ new.key = ld.key /\ new.todo = ld.todo /\ new.relay = ld.relay
  BY <1>1, <1>2, <1>3 DEF Load
<1>6. ld.key \in Key
  BY <1>1 DEF Load
<1> HIDE DEF new
<1> QED
  BY <1>1, <1>4, <1>5, <1>6 DEF ld, MayHold

LEMMA RelayThenRelay ==
  ASSUME RegistryInv, NEW l \in Loader, Loading(l), NEW page \in Pages(loads[l]), NextRelay(l, page), UNCHANGED remote
  PROVE  LoadsOK'
<1> DEFINE ld == Received(l, page)
           new == [ld EXCEPT !.relay = @ + 1]
<1>1. ld \in Load /\ ld.missed = {} /\ MayHold(l, ld) /\ ld.relay = loads[l].relay
  BY LastPageBringsAll DEF NextRelay
<1>2. loads[l].relay < Len(Relays) /\ loads' = [loads EXCEPT ![l] = FromTop(new)]
  BY DEF NextRelay
<1> HIDE DEF ld
<1>3. ld.relay + 1 \in DOMAIN Relays
  BY <1>1, <1>2, RegistryAssumption DEF Load
<1>4. new \in Load /\ new.missed = {} /\ new.key = ld.key /\ new.todo = ld.todo
  BY <1>1, <1>3 DEF Load
<1> HIDE DEF new
<1>5. FromTop(new) \in Load /\ Paged(FromTop(new)) /\ FromTop(new).key = ld.key /\ FromTop(new).todo = ld.todo
  BY <1>4, TopType, InvHasType
<1>6. MayHold(l, FromTop(new))
  BY <1>1, <1>5 DEF MayHold
<1> QED
  BY <1>2, <1>5, <1>6, OneLoadChanges DEF RegistryInv

LEMMA ParsedNotes ==
  ASSUME NEW S \in SUBSET Note
  PROVE  /\ Valid(S) \in SUBSET Note /\ Valid(S) \subseteq S
         /\ \A c : Members(c, S) \in SUBSET Note
BY DEF Valid, Latest, Members

LEMMA StageAfterStage ==
  ASSUME RegistryInv, NEW l \in Loader, NEW ld \in Load, ld.missed = {}, MayHold(l, ld), NEW stage \in Kind,
         loads' = [loads EXCEPT ![l] = Fetching(ld, stage)], UNCHANGED <<remote, entries, lastUsed, failedAt, graphs>>,
         failures' \in 0 .. MaxFailures
  PROVE  RegistryInv'
<1> DEFINE new == Fetching(ld, stage)
<1>1. new \in Load /\ Paged(new) /\ new.key = ld.key /\ new.todo = ld.todo
  BY FetchingType, InvHasType
<1> HIDE DEF new
<1>2. MayHold(l, new)
  BY <1>1 DEF MayHold
<1>3. LoadsOK'
  BY <1>1, <1>2, OneLoadChanges DEF RegistryInv, new
<1> QED
  BY <1>3, LoadsOnly

LEMMA ReadingConcordance ==
  ASSUME RegistryInv, NEW l \in Loader, Loading(l), NEW page \in Pages(loads[l]), LastPage(page),
         ConcordanceRead(l, Received(l, page)), UNCHANGED <<remote, failures>>
  PROVE  RegistryInv'
<1> DEFINE ld == Received(l, page)
<1>0. failures' \in 0 .. MaxFailures
  BY DEF RegistryInv, RemoteOK
<1>1. ld \in Load /\ ld.missed = {} /\ MayHold(l, ld)
  BY LastPageBringsAll
<1>2. CASE Valid(ld.got) = {}
  <2>1. GiveUp(l)
    BY <1>2 DEF ConcordanceRead
  <2> QED
    BY <1>0, <2>1, GivingUp
<1>3. CASE Valid(ld.got) # {}
  <2> DEFINE c == CHOOSE n \in Valid(ld.got) : TRUE
             new == [ld EXCEPT !.concordance = c]
  <2>1. /\ loads' = [loads EXCEPT ![l] = Fetching(new, "mapping")]
        /\ UNCHANGED <<entries, lastUsed, failedAt, graphs>>
    BY <1>3 DEF ConcordanceRead
  <2>2. c \in Note
    BY <1>1, <1>3, ParsedNotes DEF Load
  <2> HIDE DEF c, ld
  <2>3. new \in Load /\ new.missed = {} /\ new.key = ld.key /\ new.todo = ld.todo
    BY <1>1, <2>2 DEF Load
  <2> HIDE DEF new
  <2>4. MayHold(l, new) /\ "mapping" \in Kind
    BY <1>1, <2>3 DEF MayHold, Kind
  <2> QED
    BY <1>0, <2>1, <2>3, <2>4, StageAfterStage
<1> QED
  BY <1>2, <1>3

LEMMA ReadingMappings ==
  ASSUME RegistryInv, NEW l \in Loader, Loading(l), NEW page \in Pages(loads[l]), LastPage(page),
         MappingsRead(l, Received(l, page)), UNCHANGED <<remote, failures>>
  PROVE  RegistryInv'
<1> DEFINE ld == Received(l, page)
           found == IF ld.concordance = NoNote THEN Valid(ld.got) ELSE Members(ld.concordance, Valid(ld.got))
           new == [ld EXCEPT !.mappings = found]
<1>0. failures' \in 0 .. MaxFailures
  BY DEF RegistryInv, RemoteOK
<1>1. ld \in Load /\ ld.missed = {} /\ MayHold(l, ld) /\ ld.key \in Key
  BY LastPageBringsAll
<1>2. found \in SUBSET Note
  <2> HIDE DEF ld
  <2> QED
    BY <1>1, ParsedNotes DEF Load
<1>3. \/ GiveUp(l)
      \/ Store(l, ld.key, [concepts |-> {}, mappings |-> found])
      \/ /\ loads' = [loads EXCEPT ![l] = Fetching(new, "concept")]
         /\ UNCHANGED <<entries, lastUsed, failedAt, graphs>>
  BY DEF MappingsRead
<1> HIDE DEF ld, found
<1>4. CASE GiveUp(l)
  BY <1>0, <1>4, GivingUp
<1>5. CASE Store(l, ld.key, [concepts |-> {}, mappings |-> found])
  <2>1. [concepts |-> {}, mappings |-> found] \in Entry
    BY <1>2 DEF Entry
  <2> QED
    BY <1>1, <1>5, <2>1, Storing
<1>6. CASE /\ loads' = [loads EXCEPT ![l] = Fetching(new, "concept")]
           /\ UNCHANGED <<entries, lastUsed, failedAt, graphs>>
  <2>1. new \in Load /\ new.missed = {} /\ new.key = ld.key /\ new.todo = ld.todo
    BY <1>1, <1>2 DEF Load
  <2> HIDE DEF new
  <2>2. MayHold(l, new) /\ "concept" \in Kind
    BY <1>1, <2>1 DEF MayHold, Kind
  <2> QED
    BY <1>0, <1>6, <2>1, <2>2, StageAfterStage
<1> QED
  BY <1>3, <1>4, <1>5, <1>6

LEMMA ReadingConcepts ==
  ASSUME RegistryInv, NEW l \in Loader, Loading(l), NEW page \in Pages(loads[l]), LastPage(page),
         ConceptsRead(l, Received(l, page)), UNCHANGED <<remote, failures>>
  PROVE  RegistryInv'
<1> DEFINE ld == Received(l, page)
           entry == [concepts |-> Valid(ld.got), mappings |-> ld.mappings]
<1>0. failures' \in 0 .. MaxFailures
  BY DEF RegistryInv, RemoteOK
<1>1. ld \in Load /\ ld.key \in Key
  BY LastPageBringsAll
<1>2. GiveUp(l) \/ Store(l, ld.key, entry)
  BY DEF ConceptsRead
<1> HIDE DEF ld
<1>3. entry \in Entry
  BY <1>1, ParsedNotes DEF Load, Entry
<1> HIDE DEF entry
<1> QED
  BY <1>0, <1>1, <1>2, <1>3, GivingUp, Storing

(* A page arrives: the note it could lose is the one that shares a second  *)
(* with the oldest of it.                                                  *)
LEMMA PageArriving ==
  ASSUME RegistryInv, NEW l \in Loader, PageArrives(l)
  PROVE  RegistryInv'
<1>0. Loading(l) /\ UNCHANGED <<remote, failures>> /\ failures' \in 0 .. MaxFailures
  BY DEF PageArrives, RegistryInv, RemoteOK
<1>1. PICK page \in Pages(loads[l]) :
        \/ NextPage(l, page)
        \/ GiveUp(l)
        \/ NextRelay(l, page)
        \/ LastPage(page) /\ ConcordanceRead(l, Received(l, page))
        \/ LastPage(page) /\ MappingsRead(l, Received(l, page))
        \/ LastPage(page) /\ ConceptsRead(l, Received(l, page))
  BY DEF PageArrives
<1>2. CASE NextPage(l, page)
  BY <1>0, <1>2, PageThenPage, LoadsOnly DEF NextPage
<1>3. CASE GiveUp(l)
  BY <1>0, <1>3, GivingUp
<1>4. CASE NextRelay(l, page)
  BY <1>0, <1>4, RelayThenRelay, LoadsOnly DEF NextRelay
<1>5. CASE LastPage(page) /\ ConcordanceRead(l, Received(l, page))
  BY <1>0, <1>5, ReadingConcordance
<1>6. CASE LastPage(page) /\ MappingsRead(l, Received(l, page))
  BY <1>0, <1>6, ReadingMappings
<1>7. CASE LastPage(page) /\ ConceptsRead(l, Received(l, page))
  BY <1>0, <1>7, ReadingConcepts
<1> QED
  BY <1>1, <1>2, <1>3, <1>4, <1>5, <1>6, <1>7

LEMMA PageFailing ==
  ASSUME RegistryInv, NEW l \in Loader, PageFails(l)
  PROVE  RegistryInv'
<1>1. failures' \in 0 .. MaxFailures
  BY RegistryAssumption DEF PageFails, Unlucky, RegistryInv, RemoteOK
<1> QED
  BY <1>1, GivingUp DEF PageFails

LEMMA NoneLeft == <<>> \in Seq(Key) /\ <<>> \in Seq(Key \ Defaults)
OBVIOUS

LEMMA DeadlinePassing ==
  ASSUME RegistryInv, NEW q \in Query, DeadlinePasses(q)
  PROVE  RegistryInv'
<1>0. q \in Loader /\ failures' \in 0 .. MaxFailures
  BY DEF DeadlinePasses, RegistryInv, RemoteOK, Loader
<1>1. loads[q].missed = {} /\ loads[q].key \in Key \ Defaults
  BY <1>0 DEF RegistryInv, LoadsOK, Paged, MayHold, Load, DeadlinePasses, Loading
<1>2. LoadsOK'
  BY <1>0, <1>1, NoneLeft, GoesOn DEF DeadlinePasses
<1>3. FailedOK'
  BY <1>1, FailedType DEF DeadlinePasses, RegistryInv, FailedOK
<1>4. EntriesOK' /\ GraphsOK'
  BY EntriesStay, GraphsStay DEF DeadlinePasses, RegistryInv
<1> QED
  BY <1>0, <1>2, <1>3, <1>4 DEF RegistryInv, RemoteOK, DeadlinePasses

LEMMA RefreshTimingOut ==
  ASSUME RegistryInv, RefreshTimesOut
  PROVE  RegistryInv'
<1>0. Refresher \in Loader /\ Refresher \notin Query /\ failures' \in 0 .. MaxFailures
  BY RegistryAssumption DEF RefreshTimesOut, Unlucky, RegistryInv, RemoteOK, Loader
<1>1. loads[Refresher].missed = {}
  BY <1>0 DEF RegistryInv, LoadsOK, Paged
<1>2. LoadsOK'
  BY <1>0, <1>1, NoneLeft, GoesOn DEF RefreshTimesOut
<1> QED
  BY <1>0, <1>2, LoadsOnly DEF RefreshTimesOut

LEMMA Refreshing ==
  ASSUME RegistryInv, Refresh
  PROVE  RegistryInv'
<1>0. Refresher \in Loader /\ Refresher \notin Query /\ failures' \in 0 .. MaxFailures
  BY RegistryAssumption DEF Refresh, RegistryInv, RemoteOK, Loader
<1>1. PICK todo \in RefreshOrders : loads' = [loads EXCEPT ![Refresher] = Begin(todo, loads[Refresher].missed)]
  BY DEF Refresh
<1>2. todo \in Seq(Key)
  <2>1. PICK d \in Sorted(Defaults), s \in SetToSeqs(OnDemand) : todo = d \o s
    BY <1>1 DEF RefreshOrders
  <2>2. Defaults \in SUBSET Key /\ OnDemand \in SUBSET Key
    BY RegistryAssumption DEF OnDemand
  <2>3. d \in Seq(Defaults) /\ s \in Seq(OnDemand)
    BY <2>1, <2>2, OrdersOfKeys
  <2>4. d \in Seq(Key) /\ s \in Seq(Key)
    BY <2>2, <2>3, SeqMonotonic
  <2> QED
    BY <2>1, <2>4, ConcatProperties
<1>3. loads[Refresher].missed = {}
  BY <1>0 DEF RegistryInv, LoadsOK, Paged
<1>4. LoadsOK'
  BY <1>0, <1>1, <1>2, <1>3, GoesOn DEF Refresh
<1> QED
  BY <1>0, <1>4, LoadsOnly DEF Refresh

LEMMA RetryElapsing ==
  ASSUME RegistryInv, RetryElapses
  PROVE  RegistryInv'
<1> DEFINE K == Key \ Defaults
<1>1. failedAt \in Seq(K) /\ IsInjective(failedAt) /\ Len(failedAt) <= MaxFailedSources /\ failedAt # <<>>
  BY DEF RegistryInv, FailedOK, RetryElapses
<1>2. MaxFailedSources \in Nat
  BY RegistryAssumption
<1>3. /\ Tail(failedAt) \in Seq(K) /\ Len(Tail(failedAt)) = Len(failedAt) - 1
      /\ \A i \in 1 .. Len(failedAt) - 1 : Tail(failedAt)[i] = failedAt[i + 1]
  <2> HIDE DEF K
  <2> QED
    BY <1>1
<1>4. IsInjective(Tail(failedAt)) /\ Len(Tail(failedAt)) <= MaxFailedSources
  <2> HIDE DEF K
  <2> QED
    BY <1>1, <1>2, <1>3 DEF IsInjective
<1>5. FailedOK'
  BY <1>3, <1>4 DEF FailedOK, RetryElapses
<1>6. EntriesOK' /\ GraphsOK'
  BY EntriesStay, GraphsStay DEF RetryElapses, RegistryInv
<1>7. LoadsOK'
  BY LoadStays DEF RetryElapses, RegistryInv, LoadsOK
<1>8. RemoteOK'
  BY DEF RetryElapses, RegistryInv, RemoteOK
<1> QED
  BY <1>5, <1>6, <1>7, <1>8 DEF RegistryInv

(* What a relay no longer has, loads do not count on. *)
LEMMA Publishing ==
  ASSUME RegistryInv, NEW r \in Relay, NEW n \in Note, Publish(r, n)
  PROVE  RegistryInv'
<1> DEFINE old == {o \in remote[r] : note[o].address = note[n].address}
<1>1. /\ remote' = [remote EXCEPT ![r] = (@ \ old) \cup {n}]
      /\ loads' = [l \in Loader |->
           IF Relays[loads[l].relay] = r THEN [loads[l] EXCEPT !.held = @ \ old] ELSE loads[l]]
  BY DEF Publish
<1>2. remote \in [Relay -> SUBSET Note]
  BY DEF RegistryInv, RemoteOK
<1> HIDE DEF old
<1>3. remote' \in [Relay -> SUBSET Note] /\ remote'[r] = (remote[r] \ old) \cup {n}
      /\ \A s \in Relay : s # r => remote'[s] = remote[s]
  BY <1>1, <1>2
<1>4. ASSUME NEW l \in Loader PROVE loads'[l] \in Load /\ Paged(loads[l])' /\ MayHold(l, loads[l])'
  <2> DEFINE ld == loads[l]
             new == loads'[l]
  <2>1. ld \in Load /\ Paged(ld) /\ MayHold(l, ld) /\ Relays[ld.relay] \in Relay
    BY DEF RegistryInv, LoadsOK, Load, Relay, ToSet
  <2>2. new = IF Relays[ld.relay] = r THEN [ld EXCEPT !.held = @ \ old] ELSE ld
    BY <1>1
  <2> HIDE DEF ld, new
  <2>3. /\ new \in Load /\ new.key = ld.key /\ new.todo = ld.todo /\ new.stage = ld.stage /\ new.relay = ld.relay
        /\ new.concordance = ld.concordance /\ new.mappings = ld.mappings /\ new.missed = ld.missed
        /\ new.until = ld.until /\ new.got = ld.got
        /\ new.held = IF Relays[ld.relay] = r THEN ld.held \ old ELSE ld.held
    BY <2>1, <2>2 DEF Load
  <2>4. Asked(ld, remote[Relays[ld.relay]]) \cap remote'[Relays[ld.relay]] \subseteq Asked(new, remote'[Relays[new.relay]])
    <3>1. Asked(ld, remote[Relays[ld.relay]]) \cap remote'[Relays[ld.relay]]
            \subseteq Asked(ld, remote'[Relays[ld.relay]])
      BY AskedIsOffered
    <3>2. Asked(ld, remote'[Relays[ld.relay]]) = Asked(new, remote'[Relays[ld.relay]])
      BY <2>3, AskedIsOffered
    <3> QED
      BY <2>3, <3>1, <3>2
  <2>5. ASSUME ld.held \subseteq Asked(ld, remote[Relays[ld.relay]])
        PROVE  new.held \subseteq Asked(new, remote'[Relays[new.relay]])
    <3>1. Asked(ld, remote[Relays[ld.relay]]) \subseteq remote[Relays[ld.relay]]
      BY AskedIsOffered
    <3>2. new.held \subseteq remote'[Relays[ld.relay]]
      BY <1>3, <2>1, <2>3, <2>5, <3>1
    <3> QED
      BY <2>3, <2>4, <2>5, <3>2
  <2>6. Paged(loads[l])'
    <3>1. Paged(loads[l])' <=> /\ new.missed = {}
                               /\ new.key # NoKey =>
                                    /\ new.held \subseteq Asked(new, remote'[Relays[new.relay]])
                                    /\ \A m \in new.held : m \in new.got \/ new.until = 0 \/ note[m].createdAt <= new.until
      BY DEF Paged, StillToCome, Offered, Asked, SchemesOf, new
    <3>2. new.held \subseteq ld.held
      BY <2>3
    <3> QED
      BY <2>1, <2>3, <2>5, <3>1, <3>2 DEF Paged, StillToCome, Offered
  <2>7. MayHold(l, loads[l])'
    BY <2>1, <2>3 DEF MayHold, new
  <2> QED
    BY <2>3, <2>6, <2>7 DEF new
<1>5. LoadsOK'
  BY <1>1, <1>4 DEF LoadsOK
<1>6. EntriesOK' /\ GraphsOK' /\ FailedOK'
  BY EntriesStay, GraphsStay DEF Publish, RegistryInv, FailedOK
<1> QED
  BY <1>3, <1>5, <1>6 DEF RegistryInv, RemoteOK, Publish

LEMMA MergedType ==
  ASSUME RegistryInv, NEW keys \in SUBSET Key
  PROVE  Merged(keys) \in Entry
<1>1. \A k \in keys : entries[k].concepts \subseteq Note /\ entries[k].mappings \subseteq Note
  BY DEF RegistryInv, EntriesOK, Entry
<1> QED
  BY <1>1 DEF Merged, Entry

(* A graph comes from the cache only when building it would give the same, *)
(* and there is room for it.                                               *)
LEMMA PickingGraph ==
  ASSUME RegistryInv, NEW keys \in SUBSET Key, PickGraph(keys),
         UNCHANGED <<remote, entries, failedAt, loads, failures>>
  PROVE  RegistryInv' /\ CachedGraph(LoadedOf(keys)) = Merged(LoadedOf(keys))
<1> DEFINE loaded == LoadedOf(keys)
           room == IF loaded \in DOMAIN graphs \/ Cardinality(DOMAIN graphs) < MaxCachedGraphs THEN graphs ELSE <<>>
<1>1. loaded \in SUBSET Key
  BY DEF LoadedOf
<1>2. /\ graphs \in [DOMAIN graphs -> Entry] /\ DOMAIN graphs \subseteq SUBSET Key
      /\ IsFiniteSet(DOMAIN graphs) /\ Cardinality(DOMAIN graphs) <= MaxCachedGraphs
      /\ \A k \in DOMAIN graphs : graphs[k] = Merged(k)
  BY DEF RegistryInv, GraphsOK
<1>3. CachedGraph(loaded) = Merged(loaded) /\ Merged(loaded) \in Entry
  BY <1>1, <1>2, MergedType DEF CachedGraph
<1>4. graphs' = IF loaded = {} THEN graphs
                ELSE [k \in DOMAIN room \cup {loaded} |-> IF k = loaded THEN CachedGraph(loaded) ELSE room[k]]
  BY DEF PickGraph
<1>5. lastUsed' \in [Key -> 0 .. Cardinality(Key)]
  <2>1. OnDemand \in SUBSET Key
    BY DEF OnDemand
  <2> QED
    BY <2>1, RankedType DEF PickGraph
<1>6. EntriesOK'
  BY <1>5 DEF EntriesOK, RegistryInv, OnDemand, Present
<1> HIDE DEF loaded
<1>7. \A k : Merged(k)' = Merged(k)
  BY DEF Merged, AddressesOf
<1>8. /\ DOMAIN room \subseteq DOMAIN graphs /\ IsFiniteSet(DOMAIN room) /\ Cardinality(DOMAIN room) \in Nat
      /\ loaded \notin DOMAIN room => Cardinality(DOMAIN room) < MaxCachedGraphs
      /\ loaded \in DOMAIN room => Cardinality(DOMAIN room) <= MaxCachedGraphs
      /\ \A k \in DOMAIN room : room[k] = graphs[k]
  <2>0. MaxCachedGraphs \in Nat /\ MaxCachedGraphs # 0
    BY RegistryAssumption
  <2>1. CASE loaded \in DOMAIN graphs \/ Cardinality(DOMAIN graphs) < MaxCachedGraphs
    <3>1. room = graphs
      BY <2>1
    <3> QED
      BY <1>2, <2>0, <2>1, <3>1, FS_CardinalityType
  <2>2. CASE ~ (loaded \in DOMAIN graphs \/ Cardinality(DOMAIN graphs) < MaxCachedGraphs)
    <3>1. DOMAIN room = {}
      BY <2>2
    <3> HIDE DEF room
    <3> QED
      BY <2>0, <3>1, FS_EmptySet
  <2> QED
    BY <2>1, <2>2
<1> HIDE DEF room
<1>9. GraphsOK'
  <2>1. CASE loaded = {}
    BY <1>4, <2>1, GraphsStay DEF RegistryInv
  <2>2. CASE loaded # {}
    <3>1. DOMAIN graphs' = DOMAIN room \cup {loaded}
      BY <1>4, <2>2
    <3>2. \A k \in DOMAIN graphs' : k \in SUBSET Key /\ graphs'[k] = Merged(k) /\ graphs'[k] \in Entry
      BY <1>1, <1>2, <1>3, <1>4, <1>8, <2>2
    <3>3. graphs' \in [DOMAIN graphs' -> Entry]
      BY <1>4, <2>2, <3>1, <3>2
    <3>4. IsFiniteSet(DOMAIN graphs') /\ Cardinality(DOMAIN graphs') <= MaxCachedGraphs
      <4>1. /\ IsFiniteSet(DOMAIN room \cup {loaded})
            /\ Cardinality(DOMAIN room \cup {loaded}) =
                 IF loaded \in DOMAIN room THEN Cardinality(DOMAIN room) ELSE Cardinality(DOMAIN room) + 1
        BY <1>8, FS_AddElement
      <4> QED
        BY <1>8, <3>1, <4>1, RegistryAssumption
    <3> QED
      BY <1>7, <3>2, <3>3, <3>4 DEF GraphsOK
  <2> QED
    BY <2>1, <2>2
<1>10. FailedOK' /\ LoadsOK' /\ RemoteOK'
  <2>1. FailedOK' /\ RemoteOK'
    BY DEF RegistryInv, FailedOK, RemoteOK
  <2>2. LoadsOK'
    BY LoadStays DEF RegistryInv, LoadsOK
  <2> QED
    BY <2>1, <2>2
<1> QED
  BY <1>3, <1>6, <1>9, <1>10 DEF RegistryInv, loaded

LEMMA TrustedKeys ==
  ASSUME NEW q \in Query, NEW f \in Filters[q]
  PROVE  TrustKeys(f) \in SUBSET Key
<1>1. f.trust \subseteq Key /\ Defaults \subseteq Key
  BY ReadAssumption, RegistryAssumption
<1> QED
  BY <1>1 DEF TrustKeys

-----------------------------------------------------------------------------
(* Requests.  The inductive invariant: a document that is due is in the    *)
(* answer, or among those the producer holds, or in a collection that is   *)
(* still to be asked with clauses it matches.                              *)

RequestType(q, r) ==
  /\ DOMAIN r = DOMAIN NoRequest
  /\ r.at \in States /\ r.producer \in {"off", "fetch", "yield", "done"}
  /\ r.at # "idle" => r.filter \in Filters[q]
  /\ r.left \in Seq(Collection) /\ r.gaps \in BOOLEAN
  /\ r.docs \subseteq Doc /\ r.out \subseteq Doc /\ r.due \subseteq Doc
  /\ r.offer \in r.docs \cup {NoDoc}

ToBeAsked(r, d) == Matches(d, r.clauses) /\ \E i \in DOMAIN r.left : r.left[i] = collectionOf[d]

OnItsWay(r, d) ==
  \/ d \in r.out
  \/ r.producer = "fetch" /\ ToBeAsked(r, d)
  \/ r.producer = "yield" /\ ToBeAsked(r, d) /\ (collectionOf[d] = Head(r.left) => d \in r.docs)

Kept(r) ==
  /\ r.due \subseteq indexed \ blocked
  /\ r.at = "expand" => \A d \in r.due : /\ Matches(d, r.filter.groups)
                                        /\ \E i \in DOMAIN Selected(r.filter) : Selected(r.filter)[i] = collectionOf[d]
  /\ r.at \in {"open", "answered"} /\ ~r.gaps => \A d \in r.due : OnItsWay(r, d)
  /\ r.producer \in {"fetch", "yield"} => r.left # <<>>
  /\ r.at = "answered" => r.producer = "done"
  /\ r.offer # NoDoc => r.producer = "yield"
  /\ r.at = "expand" => r.producer = "off"

RequestInv ==
  /\ indexed \subseteq Doc /\ blocked \subseteq Doc
  /\ DOMAIN req = Query
  /\ \A q \in Query : RequestType(q, req[q]) /\ Kept(req[q]) /\ (Loading(q) => req[q].at = "expand")

(* Whatever graph it is expanded with, a filter matches what it matched.   *)
LEMMA ExpansionWidens ==
  ASSUME NEW q \in Query, NEW f \in Filters[q], NEW d \in Doc, NEW g, Matches(d, f.groups)
  PROVE  Matches(d, Rewrite(f, g))
<1> DEFINE wide == [i \in DOMAIN f.groups |-> Widened(g, f.groups[i].values, f.related)]
           new == Rewrite(f, g)
<1>1. \A i \in DOMAIN f.groups : f.groups[i].values \subseteq wide[i]
  BY DEF Widened
<1>2. DOMAIN new = DOMAIN f.groups
  BY DEF Rewrite
<1>3. \A i \in DOMAIN f.groups : new[i] = [field |-> AnyField, values |-> wide[i]] \/ new[i] = f.groups[i]
  BY DEF Rewrite
<1>4. \A i \in DOMAIN f.groups : NamedIn(d, f.groups[i].field) \subseteq NamedIn(d, AnyField)
  <2>1. \A i \in DOMAIN f.groups : f.groups[i].field \in DOMAIN concepts[d]
    BY ReadAssumption
  <2> QED
    BY <2>1 DEF NamedIn, Range
<1> HIDE DEF wide, new
<1>5. ASSUME NEW i \in DOMAIN f.groups PROVE NamedIn(d, new[i].field) \cap new[i].values # {}
  <2>1. NamedIn(d, f.groups[i].field) \cap f.groups[i].values # {}
    BY DEF Matches
  <2>2. CASE new[i] = [field |-> AnyField, values |-> wide[i]]
    <3>1. new[i].field = AnyField /\ new[i].values = wide[i]
      BY <2>2
    <3> QED
      BY <1>1, <1>4, <2>1, <3>1
  <2>3. CASE new[i] = f.groups[i]
    BY <2>1, <2>3
  <2> QED
    BY <1>3, <2>2, <2>3
<1> QED
  BY <1>2, <1>5 DEF Matches, new

LEMMA OneRequest ==
  ASSUME RequestInv, NEW q \in Query, NEW r, RequestType(q, r), Kept(r),
         Loading(q)' => r.at = "expand", \A p \in Query : p # q /\ Loading(p)' => Loading(p),
         req' = [req EXCEPT ![q] = r], UNCHANGED docVars
  PROVE  RequestInv'
<1>1. DOMAIN req' = Query /\ req'[q] = r /\ \A p \in Query : p # q => req'[p] = req[p]
  BY DEF RequestInv
<1>2. indexed' = indexed /\ blocked' = blocked
  BY DEF docVars
<1>3. ASSUME NEW p \in Query
      PROVE  RequestType(p, req'[p]) /\ Kept(req[p])' /\ (Loading(p)' => req'[p].at = "expand")
  <2>1. CASE p = q
    BY <1>1, <1>2, <2>1 DEF Kept, OnItsWay, ToBeAsked
  <2>2. CASE p # q
    <3>1. req'[p] = req[p]
      BY <1>1, <2>2
    <3>2. RequestType(p, req[p]) /\ Kept(req[p]) /\ (Loading(p) => req[p].at = "expand")
      BY DEF RequestInv
    <3> QED
      BY <1>2, <2>2, <3>1, <3>2 DEF Kept, OnItsWay, ToBeAsked
  <2> QED
    BY <2>1, <2>2
<1> QED
  BY <1>1, <1>2, <1>3 DEF RequestInv

LEMMA SelectedType ==
  ASSUME NEW q \in Query, NEW f \in Filters[q]
  PROVE  Selected(f) \in Seq(Collection) /\ Selected(f) # <<>>
<1>1. Collections \in Seq(Collection) /\ AMB \in Collection /\ f.kinds \in Seq(Collection)
  BY ReadAssumption
<1>2. Collections # <<>>
  BY <1>1 DEF Collection, ToSet
<1> QED
  BY <1>1, <1>2 DEF Selected

LEMMA FetchFields ==
  ASSUME NEW q \in Query, NEW r, DOMAIN r = DOMAIN NoRequest, NEW clauses
  PROVE  LET new == Fetch(r, clauses)
         IN /\ DOMAIN new = DOMAIN NoRequest
            /\ new.at = "open" /\ new.clauses = clauses /\ new.producer = "fetch" /\ new.left = Selected(r.filter)
            /\ new.filter = r.filter /\ new.docs = r.docs /\ new.offer = r.offer /\ new.out = r.out
            /\ new.gaps = r.gaps /\ new.due = r.due
BY DEF Fetch, NoRequest

(* A request begins to fetch with clauses that match what is due. *)
LEMMA Fetched ==
  ASSUME NEW q \in Query, NEW r, RequestType(q, r), NEW clauses,
         r.filter \in Filters[q], r.offer = NoDoc, r.due \subseteq indexed \ blocked,
         \A d \in r.due : /\ Matches(d, clauses)
                          /\ \E i \in DOMAIN Selected(r.filter) : Selected(r.filter)[i] = collectionOf[d]
  PROVE  RequestType(q, Fetch(r, clauses)) /\ Kept(Fetch(r, clauses))
<1> DEFINE new == Fetch(r, clauses)
<1>1. /\ DOMAIN new = DOMAIN NoRequest
      /\ new.at = "open" /\ new.clauses = clauses /\ new.producer = "fetch" /\ new.left = Selected(r.filter)
      /\ new.filter = r.filter /\ new.docs = r.docs /\ new.offer = NoDoc /\ new.out = r.out
      /\ new.gaps = r.gaps /\ new.due = r.due
  BY FetchFields DEF RequestType
<1>2. Selected(r.filter) \in Seq(Collection) /\ Selected(r.filter) # <<>>
  BY SelectedType
<1> HIDE DEF new
<1>3. RequestType(q, new)
  BY <1>1, <1>2 DEF RequestType, States
<1>4. Kept(new)
  BY <1>1, <1>2 DEF Kept, OnItsWay, ToBeAsked
<1> QED
  BY <1>3, <1>4 DEF new

LEMMA Asking ==
  ASSUME RegistryInv, RequestInv, NEW q \in Query, Ask(q)
  PROVE  RegistryInv' /\ RequestInv'
<1>1. PICK f \in Filters[q] :
        LET due == {d \in UNION {Hits(c, f.groups) : c \in ToSet(Selected(f))} : d \notin blocked}
            r == [NoRequest EXCEPT !.filter = f, !.due = due]
        IN IF Expandable(f)
           THEN /\ req' = [req EXCEPT ![q] = [r EXCEPT !.at = "expand"]]
                /\ \E todo \in Sorted(ToLoad(TrustKeys(f))) : loads' = [loads EXCEPT ![q] = Begin(todo, {})]
           ELSE req' = [req EXCEPT ![q] = Fetch(r, f.groups)] /\ UNCHANGED loads
  BY DEF Ask
<1> DEFINE due == {d \in UNION {Hits(c, f.groups) : c \in ToSet(Selected(f))} : d \notin blocked}
           r == [NoRequest EXCEPT !.filter = f, !.due = due]
<1>2. /\ DOMAIN r = DOMAIN NoRequest /\ r.at = "idle" /\ r.filter = f /\ r.producer = "off" /\ r.left = <<>> /\ r.docs = {}
      /\ r.offer = NoDoc /\ r.out = {} /\ r.gaps = FALSE /\ r.due = due
  BY DEF NoRequest
<1>3. /\ due \subseteq indexed \ blocked /\ due \subseteq Doc
      /\ \A d \in due : /\ Matches(d, f.groups)
                        /\ \E i \in DOMAIN Selected(f) : Selected(f)[i] = collectionOf[d]
  BY DEF Hits, ToSet, RequestInv
<1>4. UNCHANGED <<remote, entries, lastUsed, failedAt, graphs, failures>> /\ UNCHANGED docVars
  BY DEF Ask
<1>5. failures' \in 0 .. MaxFailures /\ q \in Loader
  BY <1>4 DEF RegistryInv, RemoteOK, Loader
<1> HIDE DEF due, r
<1>6. CASE Expandable(f)
  <2>1. /\ req' = [req EXCEPT ![q] = [r EXCEPT !.at = "expand"]]
    BY <1>1, <1>6 DEF r, due
  <2>2. PICK todo \in Sorted(ToLoad(TrustKeys(f))) : loads' = [loads EXCEPT ![q] = Begin(todo, {})]
    BY <1>1, <1>6
  <2>3. todo \in Seq(Key \ Defaults) /\ todo \in Seq(Key)
    <3>1. ToLoad(TrustKeys(f)) \subseteq Key \ Defaults
      BY TrustedKeys DEF ToLoad
    <3>2. todo \in Seq(ToLoad(TrustKeys(f)))
      BY <2>2, <3>1, OrdersOfKeys
    <3> QED
      BY <3>1, <3>2, SeqMonotonic
  <2>4. LoadsOK'
    BY <1>4, <1>5, <2>2, <2>3, GoesOn
  <2>5. RegistryInv'
    BY <1>4, <1>5, <2>4, LoadsOnly
  <2> DEFINE new == [r EXCEPT !.at = "expand"]
  <2>6. /\ DOMAIN new = DOMAIN NoRequest /\ new.at = "expand" /\ new.filter = f /\ new.producer = "off" /\ new.left = <<>>
        /\ new.docs = {} /\ new.offer = NoDoc /\ new.out = {} /\ new.gaps = FALSE /\ new.due = due
    BY <1>2 DEF NoRequest
  <2>7. req' = [req EXCEPT ![q] = new]
    BY <2>1
  <2> HIDE DEF new
  <2>8. RequestType(q, new) /\ Kept(new)
    <3>1. <<>> \in Seq(Collection)
      OBVIOUS
    <3>2. RequestType(q, new)
      BY <1>3, <2>6, <3>1 DEF RequestType, States
    <3>3. Kept(new)
      BY <1>3, <2>6 DEF Kept
    <3> QED
      BY <3>2, <3>3
  <2>9. \A p \in Query : p # q => loads'[p] = loads[p]
    BY <2>2 DEF RegistryInv, LoadsOK, Loader
  <2>10. \A p \in Query : p # q /\ Loading(p)' => Loading(p)
    BY <2>9 DEF Loading
  <2> QED
    BY <1>4, <2>5, <2>6, <2>7, <2>8, <2>10, OneRequest
<1>7. CASE ~ Expandable(f)
  <2>1. req' = [req EXCEPT ![q] = Fetch(r, f.groups)] /\ UNCHANGED loads
    BY <1>1, <1>7 DEF r, due
  <2>2. RequestType(q, Fetch(r, f.groups)) /\ Kept(Fetch(r, f.groups))
    <3>1. <<>> \in Seq(Collection)
      OBVIOUS
    <3>2. RequestType(q, r)
      BY <1>2, <1>3, <3>1 DEF RequestType, States
    <3> QED
      BY <1>2, <1>3, <3>2, Fetched
  <2>3. ~ Loading(q) /\ \A p \in Query : Loading(p)' <=> Loading(p)
    BY <2>1 DEF RequestInv, Ask, Loading
  <2>4. RequestInv'
    BY <1>4, <2>1, <2>2, <2>3, OneRequest
  <2>5. LoadsOK'
    BY <1>4, <2>1, LoadStays DEF RegistryInv, LoadsOK
  <2> QED
    BY <1>4, <1>5, <2>4, <2>5, LoadsOnly
<1> QED
  BY <1>6, <1>7

LEMMA Expanding ==
  ASSUME RegistryInv, RequestInv, NEW q \in Query, Expanded(q)
  PROVE  RegistryInv' /\ RequestInv'
<1> DEFINE r == req[q]
           f == r.filter
           loaded == LoadedOf(TrustKeys(f))
           clauses == IF loaded = {} THEN f.groups ELSE Rewrite(f, GraphOf(CachedGraph(loaded)))
<1>1. /\ r.at = "expand" /\ ~Loading(q) /\ req' = [req EXCEPT ![q] = Fetch(r, clauses)] /\ PickGraph(TrustKeys(f))
      /\ UNCHANGED <<remote, entries, failedAt, loads, failures, docVars>>
  BY DEF Expanded
<1>2. RequestType(q, r) /\ Kept(r)
  BY DEF RequestInv
<1>3. f \in Filters[q]
  BY <1>1, <1>2 DEF RequestType
<1>4. RegistryInv'
  BY <1>1, <1>3, TrustedKeys, PickingGraph
<1> HIDE DEF loaded
<1>5. ASSUME NEW d \in r.due PROVE Matches(d, clauses)
  <2>1. Matches(d, f.groups) /\ d \in Doc
    BY <1>1, <1>2 DEF Kept, RequestType
  <2>2. \A g : Matches(d, Rewrite(f, g))
    BY <1>3, <2>1, ExpansionWidens
  <2> QED
    BY <2>1, <2>2
<1> HIDE DEF clauses
<1>6. /\ r.offer = NoDoc /\ r.due \subseteq indexed \ blocked
      /\ \A d \in r.due : \E i \in DOMAIN Selected(r.filter) : Selected(r.filter)[i] = collectionOf[d]
  BY <1>1, <1>2 DEF Kept
<1>7. RequestType(q, Fetch(r, clauses)) /\ Kept(Fetch(r, clauses))
  <2> HIDE DEF r
  <2> QED
    BY <1>2, <1>3, <1>5, <1>6, Fetched
<1>8. \A p \in Query : Loading(p)' => Loading(p)
  BY <1>1 DEF Loading
<1> QED
  BY <1>1, <1>4, <1>7, <1>8, OneRequest

LEMMA RegistryRests ==
  ASSUME RegistryInv, UNCHANGED <<remote, entries, lastUsed, failedAt, graphs, loads>>, failures' \in 0 .. MaxFailures
  PROVE  RegistryInv' /\ \A p \in Query : Loading(p)' => Loading(p)
<1>1. LoadsOK'
  BY LoadStays DEF RegistryInv, LoadsOK
<1> QED
  BY <1>1, LoadsOnly DEF Loading

(* The step of a request that has nothing to do with the registry.         *)
LEMMA RequestGoesOn ==
  ASSUME RegistryInv, RequestInv, NEW q \in Query, NEW r, RequestType(q, r), Kept(r),
         req[q].at # "expand", req' = [req EXCEPT ![q] = r], UNCHANGED <<registryVars, docVars>>
  PROVE  RegistryInv' /\ RequestInv'
<1>1. failures' \in 0 .. MaxFailures /\ UNCHANGED <<remote, entries, lastUsed, failedAt, graphs, loads>>
  BY DEF registryVars, RegistryInv, RemoteOK
<1>2. RegistryInv' /\ \A p \in Query : Loading(p)' => Loading(p)
  BY <1>1, RegistryRests
<1>3. ~ Loading(q)
  BY DEF RequestInv
<1> QED
  BY <1>2, <1>3, OneRequest

LEMMA NextFields ==
  ASSUME NEW q \in Query, NEW r, RequestType(q, r), r.left # <<>>
  PROVE  LET new == NextCollection(r)
         IN /\ DOMAIN new = DOMAIN NoRequest
            /\ new.at = r.at /\ new.filter = r.filter /\ new.clauses = r.clauses
            /\ new.offer = r.offer /\ new.out = r.out /\ new.gaps = r.gaps /\ new.due = r.due
            /\ new.docs = {} /\ new.left = Tail(r.left)
            /\ new.producer = IF Len(r.left) = 1 THEN "done" ELSE "fetch"
BY DEF NextCollection, RequestType, NoRequest

(* The next collection is asked when of the present one nothing that is    *)
(* due is missing.                                                         *)
LEMMA CollectionDone ==
  ASSUME NEW q \in Query, NEW r, RequestType(q, r), r.left # <<>>, r.offer = NoDoc, r.due \subseteq indexed \ blocked,
         r.at \notin {"answered", "expand"},
         r.at = "open" /\ ~r.gaps => \A d \in r.due : d \in r.out \/ (ToBeAsked(r, d) /\ collectionOf[d] # Head(r.left))
  PROVE  RequestType(q, NextCollection(r)) /\ Kept(NextCollection(r))
<1> DEFINE new == NextCollection(r)
<1>1. /\ DOMAIN new = DOMAIN NoRequest
      /\ new.at = r.at /\ new.filter = r.filter /\ new.clauses = r.clauses
      /\ new.offer = r.offer /\ new.out = r.out /\ new.gaps = r.gaps /\ new.due = r.due
      /\ new.docs = {} /\ new.left = Tail(r.left)
      /\ new.producer = IF Len(r.left) = 1 THEN "done" ELSE "fetch"
  BY NextFields
<1> HIDE DEF new
<1>2. r.left \in Seq(Collection) /\ Tail(r.left) \in Seq(Collection) /\ Len(r.left) \in Nat /\ Len(r.left) # 0
  BY DEF RequestType
<1>3. Len(Tail(r.left)) = Len(r.left) - 1
  BY <1>2
<1>4. RequestType(q, new)
  BY <1>1, <1>2 DEF RequestType
<1>5. ASSUME NEW d, \E i \in DOMAIN r.left : r.left[i] = collectionOf[d], collectionOf[d] # Head(r.left)
      PROVE  Len(r.left) # 1 /\ \E i \in DOMAIN Tail(r.left) : Tail(r.left)[i] = collectionOf[d]
  <2>1. PICK i \in 1 .. Len(r.left) : r.left[i] = collectionOf[d] /\ i # 1
    BY <1>2, <1>5
  <2>2. i - 1 \in 1 .. Len(r.left) - 1 /\ Len(r.left) # 1
    BY <1>2, <2>1
  <2>3. Tail(r.left)[i - 1] = collectionOf[d]
    BY <1>2, <2>1, <2>2
  <2>4. i - 1 \in DOMAIN Tail(r.left)
    BY <1>2, <1>3, <2>2
  <2> QED
    BY <2>2, <2>3, <2>4
<1>6. ASSUME NEW d \in r.due, r.at = "open", ~r.gaps PROVE OnItsWay(new, d)
  <2>1. CASE d \in r.out
    BY <1>1, <2>1 DEF OnItsWay
  <2>2. CASE ToBeAsked(r, d) /\ collectionOf[d] # Head(r.left)
    BY <1>1, <1>5, <2>2 DEF OnItsWay, ToBeAsked
  <2> QED
    BY <1>6, <2>1, <2>2
<1>7. new.producer # "yield" /\ (new.producer = "fetch" => new.left # <<>>)
  <2>1. Len(<<>>) = 0
    OBVIOUS
  <2>2. Len(r.left) # 1 => Len(Tail(r.left)) # 0
    BY <1>2, <1>3
  <2> QED
    BY <1>1, <2>1, <2>2
<1>8. Kept(new)
  <2>1. new.due \subseteq indexed \ blocked /\ new.at \notin {"answered", "expand"} /\ new.offer = NoDoc
    BY <1>1
  <2>2. new.at \in {"open", "answered"} /\ ~new.gaps => \A d \in new.due : OnItsWay(new, d)
    BY <1>1, <1>6
  <2> QED
    BY <1>7, <2>1, <2>2 DEF Kept
<1> QED
  BY <1>4, <1>8 DEF new

LEMMA FetchReturning ==
  ASSUME RegistryInv, RequestInv, NEW q \in Query, FetchReturns(q)
  PROVE  RegistryInv' /\ RequestInv'
<1> DEFINE r == req[q]
           hits == Hits(Head(r.left), r.clauses)
<1>1. r.producer = "fetch" /\ UNCHANGED <<registryVars, docVars>>
  BY DEF FetchReturns
<1>2. RequestType(q, r) /\ Kept(r) /\ DOMAIN r = DOMAIN NoRequest
  BY DEF RequestInv, RequestType
<1>3. r.left # <<>> /\ r.at \notin {"expand", "answered"} /\ r.offer = NoDoc /\ r.due \subseteq indexed \ blocked
  BY <1>1, <1>2 DEF Kept
<1>4. hits \subseteq Doc /\ \A d \in r.due : ToBeAsked(r, d) /\ collectionOf[d] = Head(r.left) => d \in hits
  BY <1>2, <1>3 DEF Hits, ToBeAsked, RequestInv
<1>5. r.at = "open" /\ ~r.gaps => \A d \in r.due : d \in r.out \/ ToBeAsked(r, d)
  BY <1>1, <1>2 DEF Kept, OnItsWay
<1> HIDE DEF hits
<1>6. ASSUME NEW list \in SUBSET hits,
             req' = [req EXCEPT ![q] = [r EXCEPT !.producer = "yield", !.docs = list, !.gaps = @ \/ list # hits]]
      PROVE  RegistryInv' /\ RequestInv'
  <2> DEFINE new == [r EXCEPT !.producer = "yield", !.docs = list, !.gaps = @ \/ list # hits]
  <2>1. /\ DOMAIN new = DOMAIN NoRequest
        /\ new.at = r.at /\ new.filter = r.filter /\ new.clauses = r.clauses /\ new.left = r.left
        /\ new.offer = r.offer /\ new.out = r.out /\ new.due = r.due
        /\ new.docs = list /\ new.producer = "yield"
    BY <1>2 DEF NoRequest
  <2>2. new.gaps = (r.gaps \/ list # hits)
    BY <1>2 DEF NoRequest
  <2>3. req' = [req EXCEPT ![q] = new]
    BY <1>6
  <2> HIDE DEF new, r
  <2>4. RequestType(q, new)
    <3>1. new.gaps \in BOOLEAN
      BY <2>2
    <3> QED
      BY <1>2, <1>3, <1>4, <2>1, <3>1 DEF RequestType
  <2>5. ASSUME new.at = "open", ~new.gaps, NEW d \in new.due PROVE OnItsWay(new, d)
    <3>1. ~r.gaps /\ list = hits
      BY <2>2, <2>5
    <3>2. d \in r.out \/ ToBeAsked(r, d)
      BY <1>5, <2>1, <2>5, <3>1
    <3> QED
      BY <1>4, <2>1, <2>5, <3>1, <3>2 DEF OnItsWay, ToBeAsked
  <2>6. Kept(new)
    BY <1>3, <2>1, <2>5 DEF Kept
  <2> QED
    BY <1>1, <1>3, <2>3, <2>4, <2>6, RequestGoesOn DEF r
<1>7. ASSUME req' = [req EXCEPT ![q] = NextCollection([r EXCEPT !.out = @ \cup hits])]
      PROVE  RegistryInv' /\ RequestInv'
  <2> DEFINE new == [r EXCEPT !.out = @ \cup hits]
  <2>1. /\ DOMAIN new = DOMAIN NoRequest
        /\ new.at = r.at /\ new.filter = r.filter /\ new.clauses = r.clauses /\ new.left = r.left
        /\ new.offer = r.offer /\ new.docs = r.docs /\ new.due = r.due /\ new.producer = r.producer
        /\ new.gaps = r.gaps /\ new.out = r.out \cup hits
    BY <1>2 DEF NoRequest
  <2>2. req' = [req EXCEPT ![q] = NextCollection(new)]
    BY <1>7
  <2> HIDE DEF new, r
  <2>3. RequestType(q, new)
    BY <1>2, <1>4, <2>1 DEF RequestType
  <2>4. new.at = "open" /\ ~new.gaps =>
          \A d \in new.due : d \in new.out \/ (ToBeAsked(new, d) /\ collectionOf[d] # Head(new.left))
    BY <1>4, <1>5, <2>1 DEF ToBeAsked
  <2>5. RequestType(q, NextCollection(new)) /\ Kept(NextCollection(new))
    BY <1>3, <2>1, <2>3, <2>4, CollectionDone
  <2> QED
    BY <1>1, <1>3, <2>2, <2>5, RequestGoesOn DEF r
<1> QED
  BY <1>6, <1>7 DEF FetchReturns, hits

LEMMA FetchFailing ==
  ASSUME RegistryInv, RequestInv, NEW q \in Query, FetchFails(q)
  PROVE  RegistryInv' /\ RequestInv'
<1> DEFINE r == [req[q] EXCEPT !.gaps = TRUE]
           new == IF r.filter.op = "req" THEN NextCollection(r) ELSE [r EXCEPT !.producer = "done"]
<1>1. /\ r.producer = "fetch" /\ Unlucky /\ failures' = failures + 1 /\ req' = [req EXCEPT ![q] = new]
      /\ UNCHANGED <<remote, entries, lastUsed, failedAt, graphs, loads, docVars>>
  BY DEF FetchFails
<1>2. RequestType(q, req[q]) /\ Kept(req[q]) /\ DOMAIN req[q] = DOMAIN NoRequest
  BY DEF RequestInv, RequestType
<1>3. /\ DOMAIN r = DOMAIN NoRequest /\ r.at = req[q].at /\ r.filter = req[q].filter /\ r.left = req[q].left
      /\ r.docs = req[q].docs /\ r.offer = req[q].offer /\ r.out = req[q].out /\ r.due = req[q].due
      /\ r.producer = req[q].producer /\ r.gaps = TRUE
  BY <1>2 DEF NoRequest
<1> HIDE DEF r
<1>4. RequestType(q, r)
  BY <1>2, <1>3 DEF RequestType
<1>5. r.left # <<>> /\ r.at \notin {"expand", "answered"} /\ r.offer = NoDoc /\ r.due \subseteq indexed \ blocked
  BY <1>1, <1>2, <1>3 DEF Kept
<1>6. RequestType(q, new) /\ Kept(new) /\ new.at = r.at
  <2>1. CASE r.filter.op = "req"
    <3>1. RequestType(q, NextCollection(r)) /\ Kept(NextCollection(r))
      BY <1>3, <1>4, <1>5, CollectionDone
    <3> QED
      BY <1>4, <1>5, <2>1, <3>1, NextFields
  <2>2. CASE r.filter.op # "req"
    <3> DEFINE over == [r EXCEPT !.producer = "done"]
    <3>1. /\ DOMAIN over = DOMAIN NoRequest /\ over.at = r.at /\ over.filter = r.filter /\ over.left = r.left
          /\ over.docs = r.docs /\ over.offer = r.offer /\ over.out = r.out /\ over.due = r.due
          /\ over.producer = "done" /\ over.gaps = TRUE
      BY <1>3 DEF NoRequest
    <3>2. new = over
      BY <2>2
    <3> HIDE DEF over, new
    <3>3. RequestType(q, over)
      BY <1>4, <3>1 DEF RequestType
    <3>4. Kept(over)
      BY <1>5, <3>1 DEF Kept
    <3> QED
      BY <3>1, <3>2, <3>3, <3>4
  <2> QED
    BY <2>1, <2>2
<1> HIDE DEF new
<1>7. failures' \in 0 .. MaxFailures
  BY <1>1, RegistryAssumption DEF RegistryInv, RemoteOK, Unlucky
<1>8. RegistryInv' /\ \A p \in Query : Loading(p)' => Loading(p)
  BY <1>1, <1>7, RegistryRests
<1>9. ~ Loading(q)
  BY <1>3, <1>5 DEF RequestInv
<1> QED
  BY <1>1, <1>6, <1>8, <1>9, OneRequest

LEMMA Yielding ==
  ASSUME RegistryInv, RequestInv, NEW q \in Query, Yield(q)
  PROVE  RegistryInv' /\ RequestInv'
<1> DEFINE r == req[q]
<1>1. r.producer = "yield" /\ r.offer = NoDoc /\ UNCHANGED <<registryVars, docVars>>
  BY DEF Yield
<1>2. RequestType(q, r) /\ Kept(r) /\ DOMAIN r = DOMAIN NoRequest
  BY DEF RequestInv, RequestType
<1>3. r.left # <<>> /\ r.at \notin {"expand", "answered"} /\ r.due \subseteq indexed \ blocked
  BY <1>1, <1>2 DEF Kept
<1>4. r.at = "open" /\ ~r.gaps =>
        \A d \in r.due : d \in r.out \/ (ToBeAsked(r, d) /\ (collectionOf[d] = Head(r.left) => d \in r.docs))
  BY <1>1, <1>2 DEF Kept, OnItsWay
<1>5. ASSUME r.docs = {}, req' = [req EXCEPT ![q] = NextCollection(r)]
      PROVE  RegistryInv' /\ RequestInv'
  <2> HIDE DEF r
  <2>1. RequestType(q, NextCollection(r)) /\ Kept(NextCollection(r))
    BY <1>1, <1>2, <1>3, <1>4, <1>5, CollectionDone
  <2> QED
    BY <1>1, <1>3, <1>5, <2>1, RequestGoesOn DEF r
<1>6. ASSUME NEW d \in r.docs, Passes(d), req' = [req EXCEPT ![q] = [r EXCEPT !.offer = d]]
      PROVE  RegistryInv' /\ RequestInv'
  <2> DEFINE new == [r EXCEPT !.offer = d]
  <2>1. /\ DOMAIN new = DOMAIN NoRequest /\ new.at = r.at /\ new.filter = r.filter /\ new.clauses = r.clauses
        /\ new.left = r.left /\ new.docs = r.docs /\ new.offer = d /\ new.out = r.out /\ new.due = r.due
        /\ new.producer = r.producer /\ new.gaps = r.gaps
    BY <1>2 DEF NoRequest
  <2>2. req' = [req EXCEPT ![q] = new]
    BY <1>6
  <2> HIDE DEF new, r
  <2>3. RequestType(q, new)
    BY <1>2, <1>6, <2>1 DEF RequestType
  <2>4. Kept(new)
    BY <1>1, <1>3, <1>4, <2>1 DEF Kept, OnItsWay, ToBeAsked
  <2> QED
    BY <1>1, <1>3, <2>2, <2>3, <2>4, RequestGoesOn DEF r
<1>7. ASSUME NEW d \in r.docs, ~Passes(d), req' = [req EXCEPT ![q] = [r EXCEPT !.docs = @ \ {d}]]
      PROVE  RegistryInv' /\ RequestInv'
  <2> DEFINE new == [r EXCEPT !.docs = @ \ {d}]
  <2>1. /\ DOMAIN new = DOMAIN NoRequest /\ new.at = r.at /\ new.filter = r.filter /\ new.clauses = r.clauses
        /\ new.left = r.left /\ new.docs = r.docs \ {d} /\ new.offer = NoDoc /\ new.out = r.out /\ new.due = r.due
        /\ new.producer = r.producer /\ new.gaps = r.gaps
    BY <1>1, <1>2 DEF NoRequest
  <2>2. req' = [req EXCEPT ![q] = new]
    BY <1>7
  <2> HIDE DEF new, r
  <2>3. RequestType(q, new)
    BY <1>2, <1>7, <2>1 DEF RequestType
  <2>4. d \notin r.due
    BY <1>3, <1>7 DEF Passes
  <2>5. Kept(new)
    BY <1>1, <1>3, <1>4, <2>1, <2>4 DEF Kept, OnItsWay, ToBeAsked
  <2> QED
    BY <1>1, <1>3, <2>2, <2>3, <2>5, RequestGoesOn DEF r
<1> QED
  BY <1>5, <1>6, <1>7 DEF Yield

LEMMA Taking ==
  ASSUME RegistryInv, RequestInv, NEW q \in Query, Take(q)
  PROVE  RegistryInv' /\ RequestInv'
<1> DEFINE r == req[q]
           taken == [r EXCEPT !.docs = @ \ {r.offer}, !.offer = NoDoc]
<1>1. r.at = "open" /\ r.offer # NoDoc /\ UNCHANGED <<registryVars, docVars>>
  BY DEF Take
<1>2. RequestType(q, r) /\ Kept(r) /\ DOMAIN r = DOMAIN NoRequest
  BY DEF RequestInv, RequestType
<1>3. r.left # <<>> /\ r.producer = "yield" /\ r.due \subseteq indexed \ blocked /\ r.offer \in Doc
  BY <1>1, <1>2 DEF Kept, RequestType
<1>4. ~r.gaps => \A d \in r.due : d \in r.out \/ (ToBeAsked(r, d) /\ (collectionOf[d] = Head(r.left) => d \in r.docs))
  BY <1>1, <1>2, <1>3 DEF Kept, OnItsWay
<1>5. /\ DOMAIN taken = DOMAIN NoRequest /\ taken.at = "open" /\ taken.filter = r.filter /\ taken.clauses = r.clauses
      /\ taken.left = r.left /\ taken.docs = r.docs \ {r.offer} /\ taken.offer = NoDoc /\ taken.out = r.out
      /\ taken.due = r.due /\ taken.producer = "yield" /\ taken.gaps = r.gaps
  BY <1>1, <1>2, <1>3 DEF NoRequest
<1> HIDE DEF taken
<1>6. ASSUME req' = [req EXCEPT ![q] = [taken EXCEPT !.out = @ \cup {r.offer}]]
      PROVE  RegistryInv' /\ RequestInv'
  <2> DEFINE new == [taken EXCEPT !.out = @ \cup {r.offer}]
  <2>1. /\ DOMAIN new = DOMAIN NoRequest /\ new.at = "open" /\ new.filter = r.filter /\ new.clauses = r.clauses
        /\ new.left = r.left /\ new.docs = r.docs \ {r.offer} /\ new.offer = NoDoc /\ new.out = r.out \cup {r.offer}
        /\ new.due = r.due /\ new.producer = "yield" /\ new.gaps = r.gaps
    BY <1>5 DEF NoRequest
  <2>2. req' = [req EXCEPT ![q] = new]
    BY <1>6
  <2> HIDE DEF new, r
  <2>3. RequestType(q, new)
    BY <1>1, <1>2, <1>3, <2>1 DEF RequestType, States
  <2>4. Kept(new)
    BY <1>3, <1>4, <2>1 DEF Kept, OnItsWay, ToBeAsked
  <2> QED
    BY <1>1, <2>2, <2>3, <2>4, RequestGoesOn DEF r
<1>7. ASSUME req' = [req EXCEPT ![q] = [taken EXCEPT !.at = "left"]]
      PROVE  RegistryInv' /\ RequestInv'
  <2> DEFINE new == [taken EXCEPT !.at = "left"]
  <2>1. /\ DOMAIN new = DOMAIN NoRequest /\ new.at = "left" /\ new.filter = r.filter /\ new.clauses = r.clauses
        /\ new.left = r.left /\ new.docs = r.docs \ {r.offer} /\ new.offer = NoDoc /\ new.out = r.out
        /\ new.due = r.due /\ new.producer = "yield" /\ new.gaps = r.gaps
    BY <1>5 DEF NoRequest
  <2>2. req' = [req EXCEPT ![q] = new]
    BY <1>7
  <2> HIDE DEF new, r
  <2>3. RequestType(q, new)
    BY <1>1, <1>2, <1>3, <2>1 DEF RequestType, States
  <2>4. Kept(new)
    BY <1>3, <2>1 DEF Kept
  <2> QED
    BY <1>1, <2>2, <2>3, <2>4, RequestGoesOn DEF r
<1> QED
  BY <1>6, <1>7 DEF Take, taken

LEMMA BudgetEnding ==
  ASSUME RegistryInv, RequestInv, NEW q \in Query, TimerFires(q)
  PROVE  RegistryInv' /\ RequestInv'
<1> DEFINE r == req[q]
           new == [r EXCEPT !.at = "cut"]
<1>1. r.at = "open" /\ UNCHANGED <<registryVars, docVars>>
  BY DEF TimerFires
<1>2. RequestType(q, r) /\ Kept(r) /\ DOMAIN r = DOMAIN NoRequest
  BY DEF RequestInv, RequestType
<1>3. req' = [req EXCEPT ![q] = new]
  BY DEF TimerFires
<1>4. /\ DOMAIN new = DOMAIN NoRequest /\ new.at = "cut" /\ new.filter = r.filter /\ new.left = r.left /\ new.docs = r.docs
      /\ new.offer = r.offer /\ new.out = r.out /\ new.due = r.due /\ new.producer = r.producer /\ new.gaps = r.gaps
  BY <1>2 DEF NoRequest
<1> HIDE DEF new, r
<1>5. RequestType(q, new)
  BY <1>1, <1>2, <1>4 DEF RequestType, States
<1>6. Kept(new)
  BY <1>1, <1>2, <1>4 DEF Kept
<1> QED
  BY <1>1, <1>3, <1>5, <1>6, RequestGoesOn DEF r

LEMMA Answering ==
  ASSUME RegistryInv, RequestInv, NEW q \in Query, Answered(q)
  PROVE  RegistryInv' /\ RequestInv'
<1> DEFINE r == req[q]
           new == [r EXCEPT !.at = "answered"]
<1>1. r.at = "open" /\ r.producer = "done" /\ UNCHANGED <<registryVars, docVars>>
  BY DEF Answered
<1>2. RequestType(q, r) /\ Kept(r) /\ DOMAIN r = DOMAIN NoRequest
  BY DEF RequestInv, RequestType
<1>3. req' = [req EXCEPT ![q] = new]
  BY DEF Answered
<1>4. /\ DOMAIN new = DOMAIN NoRequest /\ new.at = "answered" /\ new.filter = r.filter /\ new.left = r.left
      /\ new.clauses = r.clauses /\ new.docs = r.docs /\ new.offer = r.offer /\ new.out = r.out /\ new.due = r.due
      /\ new.producer = r.producer /\ new.gaps = r.gaps
  BY <1>2 DEF NoRequest
<1> HIDE DEF new, r
<1>5. RequestType(q, new)
  BY <1>1, <1>2, <1>4 DEF RequestType, States
<1>6. Kept(new)
  BY <1>1, <1>2, <1>4 DEF Kept, OnItsWay, ToBeAsked
<1> QED
  BY <1>1, <1>3, <1>5, <1>6, RequestGoesOn DEF r

LEMMA Stopping ==
  ASSUME RegistryInv, RequestInv, NEW q \in Query, Stopped(q)
  PROVE  RegistryInv' /\ RequestInv'
<1> DEFINE r == req[q]
           new == [r EXCEPT !.producer = "done", !.offer = NoDoc, !.docs = {}]
<1>1. r.at \in {"answered", "cut", "left"} /\ r.offer # NoDoc /\ UNCHANGED <<registryVars, docVars>>
  BY DEF Stopped, Over
<1>2. RequestType(q, r) /\ Kept(r) /\ DOMAIN r = DOMAIN NoRequest
  BY DEF RequestInv, RequestType
<1>3. req' = [req EXCEPT ![q] = new]
  BY DEF Stopped
<1>4. /\ DOMAIN new = DOMAIN NoRequest /\ new.at = r.at /\ new.filter = r.filter /\ new.left = r.left /\ new.docs = {}
      /\ new.offer = NoDoc /\ new.out = r.out /\ new.due = r.due /\ new.producer = "done" /\ new.gaps = r.gaps
  BY <1>2 DEF NoRequest
<1>5. r.at \notin {"expand", "answered"}
  BY <1>1, <1>2 DEF Kept
<1> HIDE DEF new, r
<1>6. RequestType(q, new)
  BY <1>1, <1>2, <1>4 DEF RequestType, States
<1>7. Kept(new)
  BY <1>1, <1>2, <1>4, <1>5 DEF Kept
<1> QED
  BY <1>1, <1>3, <1>5, <1>6, <1>7, RequestGoesOn DEF r

(* Documents come and go.                                                  *)
LEMMA Changed ==
  ASSUME RegistryInv, RequestInv, NEW d \in Changing, Index(d) \/ Block(d) \/ Purge(d)
  PROVE  RegistryInv' /\ RequestInv'
<1>1. failures' \in 0 .. MaxFailures /\ UNCHANGED <<remote, entries, lastUsed, failedAt, graphs, loads>>
  BY DEF Index, Block, Purge, registryVars, RegistryInv, RemoteOK
<1>2. RegistryInv' /\ \A p \in Query : Loading(p)' => Loading(p)
  BY <1>1, RegistryRests
<1>3. d \in Doc
  BY ReadAssumption
<1>4. indexed' \subseteq Doc /\ blocked' \subseteq Doc
  BY <1>3 DEF Index, Block, Purge, RequestInv
<1>5. CASE Index(d) \/ Purge(d)
  <2>1. req' = req
    BY <1>5 DEF Index, Purge
  <2>2. indexed \ blocked \subseteq indexed' \ blocked'
    BY <1>5 DEF Index, Purge
  <2>3. \A p \in Query : Kept(req[p])'
    BY <2>1, <2>2 DEF RequestInv, Kept, OnItsWay, ToBeAsked
  <2> QED
    BY <1>2, <1>4, <2>1, <2>3 DEF RequestInv
<1>6. CASE Block(d)
  <2>1. req' = [p \in Query |-> [req[p] EXCEPT !.due = @ \ {d}]]
    BY <1>6 DEF Block, NoLongerDue
  <2>2. indexed' = indexed /\ blocked' = blocked \cup {d}
    BY <1>6 DEF Block
  <2>3. ASSUME NEW p \in Query
        PROVE  RequestType(p, req'[p]) /\ Kept(req[p])' /\ (Loading(p)' => req'[p].at = "expand")
    <3> DEFINE r == req[p]
               new == [r EXCEPT !.due = @ \ {d}]
    <3>1. req'[p] = new
      BY <2>1
    <3>2. RequestType(p, r) /\ Kept(r) /\ DOMAIN r = DOMAIN NoRequest /\ (Loading(p) => r.at = "expand")
      BY DEF RequestInv, RequestType
    <3>3. /\ DOMAIN new = DOMAIN NoRequest /\ new.at = r.at /\ new.filter = r.filter /\ new.left = r.left
          /\ new.clauses = r.clauses /\ new.docs = r.docs /\ new.offer = r.offer /\ new.out = r.out
          /\ new.due = r.due \ {d} /\ new.producer = r.producer /\ new.gaps = r.gaps
      BY <3>2 DEF NoRequest
    <3> HIDE DEF new, r
    <3>4. RequestType(p, new)
      BY <3>2, <3>3 DEF RequestType
    <3>5. Kept(req[p])'
      BY <2>2, <3>1, <3>2, <3>3 DEF Kept, OnItsWay, ToBeAsked
    <3> QED
      BY <1>2, <3>1, <3>2, <3>3, <3>4, <3>5
  <2>4. DOMAIN req' = Query
    BY <2>1
  <2> QED
    BY <1>2, <1>4, <2>3, <2>4 DEF RequestInv
<1> QED
  BY <1>5, <1>6

-----------------------------------------------------------------------------
(* The registry works on; no load begins but for a request that asks.      *)
LEMMA OthersKeepTheirLoad ==
  ASSUME RegistryInv, NEW l \in Loader, PageArrives(l)
  PROVE  \A p \in Loader : p # l => loads'[p] = loads[p]
<1> DEFINE OthersRest == \A p \in Loader : p # l => loads'[p] = loads[p]
<1>0. DOMAIN loads = Loader
  BY DEF RegistryInv, LoadsOK
<1>1. ASSUME NEW page, NextPage(l, page) PROVE OthersRest
  BY <1>0, <1>1 DEF NextPage
<1>2. ASSUME GiveUp(l) PROVE OthersRest
  BY <1>0, <1>2 DEF GiveUp
<1>3. ASSUME NEW page, NextRelay(l, page) PROVE OthersRest
  BY <1>0, <1>3 DEF NextRelay
<1>4. ASSUME NEW k, NEW entry, Store(l, k, entry) PROVE OthersRest
  BY <1>0, <1>4 DEF Store
<1>5. ASSUME NEW ld, ConcordanceRead(l, ld) PROVE OthersRest
  BY <1>0, <1>2, <1>5 DEF ConcordanceRead
<1>6. ASSUME NEW ld, MappingsRead(l, ld) PROVE OthersRest
  <2>1. \/ GiveUp(l)
        \/ \E k, entry : Store(l, k, entry)
        \/ \E new : loads' = [loads EXCEPT ![l] = new]
    BY <1>6 DEF MappingsRead
  <2> QED
    BY <1>0, <1>2, <1>4, <2>1
<1>7. ASSUME NEW ld, ConceptsRead(l, ld) PROVE OthersRest
  BY <1>2, <1>4, <1>7 DEF ConceptsRead
<1> HIDE DEF OthersRest
<1>8. OthersRest
  <2>1. PICK page :
          \/ NextPage(l, page) \/ GiveUp(l) \/ NextRelay(l, page)
          \/ \E ld : ConcordanceRead(l, ld) \/ MappingsRead(l, ld) \/ ConceptsRead(l, ld)
    BY DEF PageArrives
  <2> QED
    BY <1>1, <1>2, <1>3, <1>5, <1>6, <1>7, <2>1
<1> QED
  BY <1>8 DEF OthersRest

LEMMA RegistryWorking ==
  ASSUME RegistryInv, RequestInv, Registry
  PROVE  RegistryInv' /\ RequestInv'
<1> DEFINE NoneBegins == \A p \in Query : Loading(p)' => Loading(p)
<1>0. DOMAIN loads = Loader /\ Query \subseteq Loader /\ Refresher \in Loader /\ Refresher \notin Query
  BY RegistryAssumption DEF RegistryInv, LoadsOK, Loader
<1>1. ASSUME NEW l \in Loader, Loading(l), \A p \in Loader : p # l => loads'[p] = loads[p]
      PROVE  NoneBegins
  BY <1>0, <1>1 DEF Loading
<1> HIDE DEF NoneBegins
<1>2. ASSUME NEW l \in Loader, PageArrives(l) PROVE RegistryInv' /\ NoneBegins
  <2>1. Loading(l)
    BY <1>2 DEF PageArrives
  <2> QED
    BY <1>1, <1>2, <2>1, OthersKeepTheirLoad, PageArriving
<1>3. ASSUME NEW l \in Loader, PageFails(l) PROVE RegistryInv' /\ NoneBegins
  <2>1. Loading(l) /\ \A p \in Loader : p # l => loads'[p] = loads[p]
    BY <1>0, <1>3 DEF PageFails, GiveUp
  <2> QED
    BY <1>1, <1>3, <2>1, PageFailing
<1>4. ASSUME NEW q \in Query, DeadlinePasses(q) PROVE RegistryInv' /\ NoneBegins
  <2>1. Loading(q) /\ \A p \in Loader : p # q => loads'[p] = loads[p]
    BY <1>0, <1>4 DEF DeadlinePasses
  <2> QED
    BY <1>0, <1>1, <1>4, <2>1, DeadlinePassing
<1>5. ASSUME RetryElapses PROVE RegistryInv' /\ NoneBegins
  <2>1. NoneBegins
    BY <1>5 DEF NoneBegins, RetryElapses, Loading
  <2> QED
    BY <1>5, <2>1, RetryElapsing
<1>6. ASSUME Refresh PROVE RegistryInv' /\ NoneBegins
  <2>1. \A p \in Query : loads'[p] = loads[p]
    BY <1>0, <1>6 DEF Refresh
  <2>2. NoneBegins
    BY <2>1 DEF NoneBegins, Loading
  <2> QED
    BY <1>6, <2>2, Refreshing
<1>7. ASSUME RefreshTimesOut PROVE RegistryInv' /\ NoneBegins
  <2>1. \A p \in Query : loads'[p] = loads[p]
    BY <1>0, <1>7 DEF RefreshTimesOut
  <2>2. NoneBegins
    BY <2>1 DEF NoneBegins, Loading
  <2> QED
    BY <1>7, <2>2, RefreshTimingOut
<1>8. ASSUME NEW m \in Moving, Publish(m[1], m[2]) PROVE RegistryInv' /\ NoneBegins
  <2>1. m[1] \in Relay /\ m[2] \in Note
    BY RegistryAssumption
  <2>2. \A p \in Query : loads'[p].key = loads[p].key
    <3>1. \A p \in Query : loads'[p] = loads[p] \/ \E h : loads'[p] = [loads[p] EXCEPT !.held = h]
      BY <1>0, <1>8 DEF Publish
    <3>2. \A p \in Query : loads[p] \in Load
      BY <1>0 DEF RegistryInv, LoadsOK
    <3> QED
      BY <3>1, <3>2 DEF Load
  <2>3. NoneBegins
    BY <2>2 DEF NoneBegins, Loading
  <2> QED
    BY <1>8, <2>1, <2>3, Publishing
<1>9. RegistryInv' /\ NoneBegins
  BY <1>2, <1>3, <1>4, <1>5, <1>6, <1>7, <1>8 DEF Registry, Lookup, Upkeep
<1>10. UNCHANGED <<indexed, blocked, req>>
  BY DEF Registry, docVars
<1>11. RequestInv'
  BY <1>9, <1>10 DEF RequestInv, NoneBegins, Kept, OnItsWay, ToBeAsked
<1> QED
  BY <1>9, <1>11

LEMMA FindableType == ASSUME RemoteOK, NEW k \in Key PROVE Findable(k) \in Entry
<1> DEFINE all == UNION Range(remote)
           load == [NoLoad EXCEPT !.key = k]
           ask(ld) == Valid(Asked(ld, all))
           concordance == IF source[k].kind = "author" THEN {NoNote} ELSE ask([load EXCEPT !.stage = "concordance"])
           first == [load EXCEPT !.concordance = CHOOSE c \in concordance : TRUE, !.stage = "mapping"]
           mappings == IF source[k].kind = "author" THEN ask(first) ELSE Members(first.concordance, ask(first))
           second == [first EXCEPT !.mappings = mappings, !.stage = "concept"]
           found == IF SchemesOf(second) = {} THEN {} ELSE ask(second)
<1>1. all \subseteq Note
  BY DEF RemoteOK, Range
<1> HIDE DEF all
<1>2. \A ld : Asked(ld, all) \in SUBSET Note
  BY <1>1 DEF Asked
<1>3. \A ld : ask(ld) \in SUBSET Note
  BY <1>2, ParsedNotes
<1> HIDE DEF ask
<1>4. mappings \in SUBSET Note
  BY <1>3 DEF Members
<1> HIDE DEF mappings
<1>5. found \in SUBSET Note
  BY <1>3
<1> HIDE DEF found
<1>6. Findable(k) = Absent \/ Findable(k) = [concepts |-> found, mappings |-> mappings]
  BY DEF Findable, found, mappings, ask, all
<1> QED
  BY <1>4, <1>5, <1>6 DEF Absent, Entry

LEMMA AtTheStart == Init => RegistryInv /\ RequestInv
<1> SUFFICES ASSUME Init PROVE RegistryInv /\ RequestInv
  OBVIOUS
<1>0. RegistryInit /\ blocked = {} /\ req = [q \in Query |-> NoRequest] /\ indexed \subseteq Doc
  BY ReadAssumption DEF Init
<1>1. RemoteOK
  BY <1>0, RegistryAssumption DEF RegistryInit, RemoteOK
<1>2. \A l \in Loader : loads[l] = NoLoad
  BY <1>0 DEF RegistryInit
<1>3. LoadsOK
  <2>1. Paged(NoLoad) /\ NoLoad \in Load
    BY NoLoadType DEF Paged
  <2>2. \A l \in Loader : MayHold(l, NoLoad)
    <3>1. NoKey \notin Defaults
      BY RegistryAssumption
    <3> QED
      BY <3>1, NoLoadType, NoneLeft DEF MayHold
  <2> QED
    BY <1>0, <1>2, <2>1, <2>2 DEF LoadsOK, RegistryInit
<1>4. FailedOK
  <2>1. MaxFailedSources \in Nat /\ failedAt = <<>>
    BY <1>0, RegistryAssumption DEF RegistryInit
  <2>2. Len(<<>>) = 0 /\ DOMAIN <<>> = {}
    OBVIOUS
  <2> QED
    BY <2>1, <2>2, NoneLeft DEF FailedOK, IsInjective
<1>5. GraphsOK
  <2>1. graphs = <<>> /\ MaxCachedGraphs \in Nat
    BY <1>0, RegistryAssumption DEF RegistryInit
  <2>2. DOMAIN <<>> = {} /\ <<>> \in [{} -> Entry]
    OBVIOUS
  <2>3. IsFiniteSet({}) /\ Cardinality({}) = 0
    BY FS_EmptySet
  <2>4. DOMAIN graphs = {} /\ graphs \in [DOMAIN graphs -> Entry]
    BY <2>1, <2>2
  <2>5. IsFiniteSet(DOMAIN graphs) /\ Cardinality(DOMAIN graphs) <= MaxCachedGraphs
    BY <2>1, <2>3, <2>4
  <2> QED
    BY <2>4, <2>5 DEF GraphsOK
<1>6. EntriesOK
  <2>1. entries \in [Key -> Entry]
    <3>1. Absent \in Entry
      BY DEF Absent, Entry
    <3> QED
      BY <1>0, <1>1, <3>1, FindableType DEF Init
  <2>2. OnDemand = {}
    BY DEF Init, OnDemand, Present
  <2>3. Cardinality(OnDemand) <= MaxOnDemandSources
    BY <2>2, FS_EmptySet, RegistryAssumption
  <2>4. lastUsed \in [Key -> 0 .. Cardinality(Key)]
    BY <1>0, KeysAreFinite DEF RegistryInit
  <2> QED
    BY <2>1, <2>3, <2>4 DEF EntriesOK
<1>7. ASSUME NEW q \in Query PROVE RequestType(q, req[q]) /\ Kept(req[q]) /\ ~Loading(q)
  <2>1. /\ DOMAIN NoRequest = DOMAIN NoRequest /\ NoRequest.at = "idle" /\ NoRequest.producer = "off"
        /\ NoRequest.left = <<>> /\ NoRequest.docs = {} /\ NoRequest.offer = NoDoc /\ NoRequest.out = {}
        /\ NoRequest.gaps = FALSE /\ NoRequest.due = {}
    BY DEF NoRequest
  <2>2. req[q] = NoRequest
    BY <1>0
  <2>3. <<>> \in Seq(Collection)
    OBVIOUS
  <2>4. RequestType(q, NoRequest)
    BY <2>1, <2>3 DEF RequestType, States
  <2>5. Kept(NoRequest)
    BY <2>1 DEF Kept
  <2>6. ~Loading(q)
    BY <1>2, NoLoadType DEF Loading, Loader
  <2> QED
    BY <2>2, <2>4, <2>5, <2>6
<1>8. RequestInv
  BY <1>0, <1>7 DEF RequestInv
<1> QED
  BY <1>1, <1>3, <1>4, <1>5, <1>6, <1>8 DEF RegistryInv

-----------------------------------------------------------------------------
ReadInv == RegistryInv /\ RequestInv

LEMMA EveryStep == ReadInv /\ [Next]_vars => ReadInv'
<1> SUFFICES ASSUME ReadInv, [Next]_vars PROVE ReadInv'
  OBVIOUS
<1> USE DEF ReadInv
<1>1. CASE Registry
  BY <1>1, RegistryWorking
<1>2. ASSUME NEW q \in Query, Serve(q) PROVE ReadInv'
  BY <1>2, Asking, Expanding, FetchReturning, FetchFailing, BudgetEnding, Yielding, Taking, Answering, Stopping DEF Serve
<1>3. ASSUME NEW d \in Changing, Change(d) PROVE ReadInv'
  BY <1>3, Changed DEF Change
<1>4. CASE UNCHANGED vars
  <2>1. failures' \in 0 .. MaxFailures /\ UNCHANGED <<remote, entries, lastUsed, failedAt, graphs, loads>>
    BY <1>4 DEF vars, registryVars, RegistryInv, RemoteOK
  <2>2. RegistryInv' /\ \A p \in Query : Loading(p)' => Loading(p)
    BY <2>1, RegistryRests
  <2>3. UNCHANGED <<indexed, blocked, req>>
    BY <1>4 DEF vars
  <2> QED
    BY <2>2, <2>3 DEF RequestInv, Kept, OnItsWay, ToBeAsked
<1> QED
  BY <1>1, <1>2, <1>3, <1>4 DEF Next

LEMMA InvHolds == Spec => []ReadInv
<1>1. Init => ReadInv
  BY AtTheStart DEF ReadInv
<1> QED
  BY <1>1, EveryStep, PTL DEF Spec

(* Every variable of the read path keeps its type: a load is always of a   *)
(* source, no query loads a default, no failure is remembered of one, and  *)
(* a request loads only before its filter is expanded.                     *)
THEOREM ReadTypeCorrect == Spec => []ReadTypeOK
<1>1. ReadInv => ReadTypeOK
  <2> SUFFICES ASSUME ReadInv PROVE ReadTypeOK
    OBVIOUS
  <2>1. RegistryTypeOK
    BY InvHasType DEF ReadInv
  <2>2. indexed \subseteq Doc /\ blocked \subseteq Doc /\ DOMAIN req = Query
    BY DEF ReadInv, RequestInv
  <2>3. \A q \in Query : RequestType(q, req[q]) /\ (Loading(q) => req[q].at = "expand")
    BY DEF ReadInv, RequestInv
  <2> QED
    BY <2>1, <2>2, <2>3 DEF ReadTypeOK, RequestType
<1> QED
  BY <1>1, InvHolds, PTL

(* A fetch that ended well got every note its relay held all the while it  *)
(* was paged (pageRelay): whatever the page size, the relays' choice among *)
(* notes of one second, and what is published in between.                  *)
THEOREM PagesLoseNothing == Spec => []PagingComplete
<1>1. ReadInv => PagingComplete
  BY InvHasType DEF ReadInv
<1> QED
  BY <1>1, InvHolds, PTL

(* The cached sources, the remembered failures and the cached graphs keep  *)
(* to their limits (store, markFailed, graphFor), however many loads are   *)
(* under way at once and whatever they store.                              *)
THEOREM CachesStayBounded == Spec => []CachesBounded
<1>1. ReadInv => CachesBounded
  BY InvHasType DEF ReadInv
<1> QED
  BY <1>1, InvHolds, PTL

(* A request that was answered in full holds all that was due to it, with  *)
(* whatever graph its filter was expanded, however many collections it     *)
(* went through and whatever was written or blocked meanwhile              *)
(* (main.go:1089-1117).                                                    *)
THEOREM NothingDueIsLost == Spec => []NothingLost
<1>1. ReadInv => NothingLost
  <2> SUFFICES ASSUME ReadInv, NEW q \in Query, req[q].at = "answered", ~req[q].gaps, NEW d \in req[q].due
               PROVE  d \in req[q].out
    BY DEF NothingLost
  <2>1. Kept(req[q])
    BY DEF ReadInv, RequestInv
  <2> QED
    BY <2>1 DEF Kept, OnItsWay
<1> QED
  BY <1>1, InvHolds, PTL

(* A graph from the cache is the one the sources of the query make at that *)
(* moment: no load, refresh or eviction leaves a stale one behind          *)
(* (graphFor, store).                                                      *)
THEOREM ExpandedRightly == Spec => ExpandedByWhatIsLoaded
<1> DEFINE Right(q) ==
      req[q].at = "expand" /\ req'[q].at = "open" =>
        LET f == req[q].filter
            loaded == LoadedOf(TrustKeys(f))
        IN req'[q].clauses = IF loaded = {} THEN f.groups ELSE Rewrite(f, GraphOf(Merged(loaded)))
<1>1. ReadInv /\ [Next]_vars => [\A q \in Query : Right(q)]_vars
  <2> SUFFICES ASSUME ReadInv, Next, NEW q \in Query, req[q].at = "expand", req'[q].at = "open"
               PROVE  Right(q)
    BY DEF vars
  <2>1. req[q].producer = "off" /\ req[q].offer = NoDoc /\ DOMAIN req = Query
    BY DEF ReadInv, RequestInv, Kept
  <2>2. CASE Expanded(q)
    <3> DEFINE f == req[q].filter
               loaded == LoadedOf(TrustKeys(f))
    <3>1. f \in Filters[q] /\ DOMAIN req[q] = DOMAIN NoRequest
      BY DEF ReadInv, RequestInv, RequestType
    <3>2. TrustKeys(f) \in SUBSET Key
      BY <3>1, TrustedKeys
    <3>3. CachedGraph(loaded) = Merged(loaded)
      BY <2>2, <3>2, PickingGraph DEF Expanded, docVars, ReadInv
    <3>4. req'[q] = Fetch(req[q], IF loaded = {} THEN f.groups ELSE Rewrite(f, GraphOf(CachedGraph(loaded))))
      BY <2>1, <2>2 DEF Expanded
    <3> HIDE DEF loaded
    <3>5. req'[q].clauses = IF loaded = {} THEN f.groups ELSE Rewrite(f, GraphOf(Merged(loaded)))
      BY <3>1, <3>3, <3>4, FetchFields
    <3> QED
      BY <3>5 DEF loaded
  <2>3. ASSUME NEW p \in Query, Serve(p), ~Expanded(p) PROVE FALSE
    <3>1. CASE p = q
      <4>1. (Ask(q) => req[q].at = "idle") /\ (Answered(q) \/ Take(q) \/ TimerFires(q) => req[q].at = "open")
        BY DEF Ask, Answered, Take, TimerFires
      <4>2. FetchReturns(q) => req[q].producer = "fetch"
        BY DEF FetchReturns
      <4>3. FetchFails(q) => req[q].producer = "fetch"
        <5>1. DOMAIN req[q] = DOMAIN NoRequest
          BY DEF ReadInv, RequestInv, RequestType
        <5>2. [req[q] EXCEPT !.gaps = TRUE].producer = req[q].producer
          BY <5>1 DEF NoRequest
        <5> QED
          BY <5>2 DEF FetchFails
      <4>4. Yield(q) => req[q].producer = "yield"
        BY DEF Yield
      <4>5. Stopped(q) => req[q].offer # NoDoc
        BY DEF Stopped
      <4> QED
        BY <2>1, <2>3, <3>1, <4>1, <4>2, <4>3, <4>4, <4>5 DEF Serve
    <3>2. CASE p # q
      <4>1. \E r : req' = [req EXCEPT ![p] = r]
        BY <2>3 DEF Serve, Ask, FetchReturns, FetchFails, TimerFires, Yield, Take, Answered, Stopped
      <4> QED
        BY <2>1, <3>2, <4>1
    <3> QED
      BY <3>1, <3>2
  <2>4. ASSUME NEW p \in Query, Expanded(p), p # q PROVE FALSE
    BY <2>1, <2>4 DEF Expanded
  <2>5. ASSUME Registry PROVE FALSE
    BY <2>5 DEF Registry
  <2>6. ASSUME NEW d \in Changing, Change(d) PROVE FALSE
    <3>1. req' = req \/ req'[q] = [req[q] EXCEPT !.due = @ \ {d}]
      BY <2>6 DEF Change, Index, Block, Purge, NoLongerDue
    <3>2. DOMAIN req[q] = DOMAIN NoRequest
      BY DEF ReadInv, RequestInv, RequestType
    <3> QED
      BY <3>1, <3>2 DEF NoRequest
  <2> QED
    BY <2>2, <2>3, <2>4, <2>5, <2>6 DEF Next
<1> QED
  BY <1>1, InvHolds, PTL DEF Spec, ExpandedByWhatIsLoaded

-----------------------------------------------------------------------------
(* The walk through a concept graph, for every graph: Expand against the   *)
(* reference definition of what an expansion finds.                        *)

(* Induction over numbers, without an operator for a parameter.            *)
LEMMA InductionOnNat ==
  ASSUME NEW T, 0 \in T, \A n \in Nat : n \in T => n + 1 \in T
  PROVE  \A n \in Nat : n \in T
<1> SUFFICES ASSUME NEW k \in Nat, k \notin T PROVE FALSE
  OBVIOUS
<1>1. PICK n \in Nat \ T : \A m \in Nat \ T : n <= m
  <2>1. Nat \ T \in SUBSET Nat /\ Nat \ T # {}
    OBVIOUS
  <2> QED
    BY <2>1, LeastNat
<1>2. n - 1 \in Nat /\ n - 1 \notin T
  BY <1>1
<1> QED
  BY <1>1, <1>2

(* A sequence of values each of which is made from the one before it: what *)
(* the recursive functions of the model are.                               *)
Iterates(f, a, F, m) == f[0] = a /\ \A n \in 1 .. m : f[n] = F[<<n, f[n - 1]>>]

LEMMA Iterated ==
  ASSUME NEW S, NEW a \in S, NEW F \in [Nat \X S -> S]
  PROVE  \A m \in Nat : \E f \in [0 .. m -> S] : Iterates(f, a, F, m)
<1> DEFINE Fits(f, m) == f[0] = a /\ \A n \in 1 .. m : f[n] = F[<<n, f[n - 1]>>]
           T == {m \in Nat : \E f \in [0 .. m -> S] : Fits(f, m)}
<1>1. 0 \in T
  <2>1. [n \in 0 .. 0 |-> a] \in [0 .. 0 -> S] /\ Fits([n \in 0 .. 0 |-> a], 0)
    OBVIOUS
  <2> QED
    BY <2>1
<1>2. ASSUME NEW m \in Nat, m \in T PROVE m + 1 \in T
  <2>1. PICK f \in [0 .. m -> S] : Fits(f, m)
    BY <1>2
  <2> DEFINE g == [n \in 0 .. m + 1 |-> IF n = m + 1 THEN F[<<n, f[m]>>] ELSE f[n]]
  <2>2. m + 1 \in 0 .. m + 1 /\ m \in 0 .. m /\ m \in 0 .. m + 1
    OBVIOUS
  <2>3. F[<<m + 1, f[m]>>] \in S
    BY <2>1, <2>2
  <2>4. g \in [0 .. m + 1 -> S]
    BY <2>1, <2>3
  <2>5. g[m + 1] = F[<<m + 1, f[m]>>]
    BY <2>2
  <2>6. \A n \in 0 .. m : g[n] = f[n]
    OBVIOUS
  <2> HIDE DEF g
  <2>7. Fits(g, m + 1)
    <3>1. g[0] = a
      BY <2>1, <2>6
    <3>2. ASSUME NEW n \in 1 .. m + 1 PROVE g[n] = F[<<n, g[n - 1]>>]
      <4>1. CASE n = m + 1
        BY <2>2, <2>5, <2>6, <4>1
      <4>2. CASE n # m + 1
        <5>1. n \in 1 .. m /\ n \in 0 .. m /\ n - 1 \in 0 .. m
          BY <4>2
        <5> QED
          BY <2>1, <2>6, <5>1
      <4> QED
        BY <4>1, <4>2
    <3> QED
      BY <3>1, <3>2
  <2> QED
    BY <2>4, <2>7
<1> HIDE DEF T
<1>3. \A m \in Nat : m \in T
  BY <1>1, <1>2, InductionOnNat
<1> QED
  BY <1>3 DEF T, Iterates

-----------------------------------------------------------------------------
(* Sequences as lists without repetition. *)

Begins(s, t) == Len(s) <= Len(t) /\ \A i \in 1 .. Len(s) : t[i] = s[i]

LEMMA Listed ==
  ASSUME NEW S, NEW s \in Seq(S)
  PROVE  /\ Len(s) \in Nat /\ DOMAIN s = 1 .. Len(s)
         /\ ToSet(s) \subseteq S
         /\ \A x : x \in ToSet(s) <=> \E i \in 1 .. Len(s) : s[i] = x
         /\ \A x : Contains(s, x) <=> x \in ToSet(s)
BY DEF ToSet, Contains

LEMMA WithOne ==
  ASSUME NEW S, NEW s \in Seq(S), NEW e \in S
  PROVE  /\ With(s, e) \in Seq(S) /\ ToSet(With(s, e)) = ToSet(s) \cup {e}
         /\ Begins(s, With(s, e))
         /\ IsInjective(s) => IsInjective(With(s, e))
<1>1. CASE Contains(s, e)
  BY <1>1, Listed DEF With, Begins
<1>2. CASE ~ Contains(s, e)
  <2> DEFINE r == Append(s, e)
  <2>1. /\ r \in Seq(S) /\ Len(r) = Len(s) + 1 /\ Len(s) \in Nat
        /\ \A i \in 1 .. Len(s) : r[i] = s[i]
        /\ r[Len(s) + 1] = e
    OBVIOUS
  <2>2. With(s, e) = r
    BY <1>2 DEF With
  <2> HIDE DEF r
  <2>3. ToSet(r) = ToSet(s) \cup {e}
    <3>1. \A x : x \in ToSet(r) <=> \E i \in 1 .. Len(s) + 1 : r[i] = x
      BY <2>1, Listed
    <3>2. \A x : x \in ToSet(s) <=> \E i \in 1 .. Len(s) : s[i] = x
      BY Listed
    <3>3. \A i \in 1 .. Len(s) + 1 : i \in 1 .. Len(s) \/ i = Len(s) + 1
      BY <2>1
    <3>4. 1 .. Len(s) \subseteq 1 .. Len(s) + 1 /\ Len(s) + 1 \in 1 .. Len(s) + 1
      BY <2>1
    <3>5. ASSUME NEW x PROVE x \in ToSet(r) <=> x \in ToSet(s) \cup {e}
      BY <2>1, <3>1, <3>2, <3>3, <3>4, Zenon
    <3> QED
      BY <3>5
  <2>4. ASSUME IsInjective(s) PROVE IsInjective(r)
    <3>1. \A i \in 1 .. Len(s) : s[i] # e
      BY <1>2 DEF Contains
    <3>2. \A i, j \in 1 .. Len(s) : s[i] = s[j] => i = j
      BY <2>4 DEF IsInjective
    <3>3. DOMAIN r = 1 .. Len(s) + 1
      BY <2>1
    <3> QED
      BY <2>1, <3>1, <3>2, <3>3 DEF IsInjective
  <2> QED
    BY <2>1, <2>2, <2>3, <2>4 DEF Begins
<1> QED
  BY <1>1, <1>2

LEMMA BeginsThen ==
  ASSUME NEW r, NEW s, NEW t, Len(r) \in Nat, Len(s) \in Nat, Len(t) \in Nat, Begins(r, s), Begins(s, t)
  PROVE  Begins(r, t)
BY DEF Begins
-----------------------------------------------------------------------------
(* Extend: the old list first, then what is new.                           *)

IsExtend(f, seq, more, m) == f = [n \in 0 .. m |-> IF n = 0 THEN seq ELSE With(f[n - 1], more[n])]

LEMMA ExtendIs ==
  ASSUME NEW S, NEW seq \in Seq(S), NEW more \in Seq(S)
  PROVE  \E f : /\ f[0] = seq /\ Extend(seq, more) = f[Len(more)]
                /\ \A n \in 1 .. Len(more) : f[n] = With(f[n - 1], more[n])
<1> DEFINE m == Len(more)
           F == [p \in Nat \X Seq(S) |-> IF p[1] \in 1 .. m THEN With(p[2], more[p[1]]) ELSE p[2]]
           h == CHOOSE f : IsExtend(f, seq, more, m)
<1>1. m \in Nat /\ \A n \in 1 .. m : more[n] \in S
  OBVIOUS
<1> HIDE DEF m
<1>2. F \in [Nat \X Seq(S) -> Seq(S)]
  BY <1>1, WithOne
<1>3. \A n \in 1 .. m, s \in Seq(S) : F[<<n, s>>] = With(s, more[n])
  BY <1>1
<1> HIDE DEF F
<1>4. PICK f \in [0 .. m -> Seq(S)] : f[0] = seq /\ \A n \in 1 .. m : f[n] = F[<<n, f[n - 1]>>]
  <2>1. seq \in Seq(S)
    OBVIOUS
  <2>2. \A k \in Nat : \E f \in [0 .. k -> Seq(S)] : Iterates(f, seq, F, k)
    BY <1>2, <2>1, Iterated, Zenon
  <2> QED
    BY <1>1, <2>2, Zenon DEF Iterates
<1>5. \A n \in 1 .. m : f[n] = With(f[n - 1], more[n])
  <2> SUFFICES ASSUME NEW n \in 1 .. m PROVE f[n] = With(f[n - 1], more[n])
    OBVIOUS
  <2>1. f[n - 1] \in Seq(S)
    BY <1>1
  <2> QED
    BY <1>3, <1>4, <2>1
<1>6. IsExtend(f, seq, more, m)
  <2>1. \A n \in 0 .. m : f[n] = IF n = 0 THEN seq ELSE With(f[n - 1], more[n])
    BY <1>4, <1>5
  <2> QED
    BY <2>1 DEF IsExtend
<1>7. IsExtend(h, seq, more, m)
  BY <1>6, Zenon
<1> HIDE DEF h
<1>8. h[0] = seq /\ \A n \in 1 .. m : h[n] = With(h[n - 1], more[n])
  <2>1. \A n \in 0 .. m : h[n] = IF n = 0 THEN seq ELSE With(h[n - 1], more[n])
    BY <1>7, Zenon DEF IsExtend
  <2>2. 0 \in 0 .. m /\ \A n \in 1 .. m : n \in 0 .. m /\ n # 0
    BY <1>1
  <2> QED
    BY <2>1, <2>2, Zenon
<1>9. Extend(seq, more) = h[m]
  BY Zenon DEF Extend, IsExtend, h, m
<1> QED
  BY <1>8, <1>9 DEF m

LEMMA Extended ==
  ASSUME NEW S, NEW seq \in Seq(S), NEW more \in Seq(S)
  PROVE  /\ Extend(seq, more) \in Seq(S) /\ ToSet(Extend(seq, more)) = ToSet(seq) \cup ToSet(more)
         /\ Begins(seq, Extend(seq, more))
         /\ IsInjective(seq) => IsInjective(Extend(seq, more))
<1>1. PICK f : /\ f[0] = seq /\ Extend(seq, more) = f[Len(more)]
               /\ \A n \in 1 .. Len(more) : f[n] = With(f[n - 1], more[n])
  BY ExtendIs
<1> DEFINE upTo(n) == {more[i] : i \in 1 .. n}
           Good(n) == /\ f[n] \in Seq(S) /\ ToSet(f[n]) = ToSet(seq) \cup upTo(n)
                      /\ Begins(seq, f[n])
                      /\ IsInjective(seq) => IsInjective(f[n])
           T == {n \in Nat : n <= Len(more) => Good(n)}
<1>2. Len(more) \in Nat /\ Len(seq) \in Nat /\ \A n \in 1 .. Len(more) : more[n] \in S
  OBVIOUS
<1>3. 0 \in T
  <2>1. upTo(0) = {}
    OBVIOUS
  <2>2. Begins(seq, seq)
    BY <1>2 DEF Begins
  <2> HIDE DEF upTo
  <2> QED
    BY <1>1, <2>1, <2>2
<1>4. ASSUME NEW n \in Nat, n \in T PROVE n + 1 \in T
  <2> SUFFICES ASSUME n + 1 <= Len(more) PROVE Good(n + 1)
    OBVIOUS
  <2>1. PICK k \in 1 .. Len(more) : k = n + 1 /\ k - 1 = n
    BY <1>2
  <2>2. Good(n)
    BY <1>2, <1>4
  <2>3. f[k] = With(f[n], more[k])
    BY <1>1, <2>1
  <2>4. /\ f[k] \in Seq(S) /\ ToSet(f[k]) = ToSet(f[n]) \cup {more[k]}
        /\ Begins(f[n], f[k])
        /\ IsInjective(f[n]) => IsInjective(f[k])
    <3>1. f[n] \in Seq(S) /\ more[k] \in S
      BY <1>2, <2>2
    <3>2. PICK u \in Seq(S), e \in S : u = f[n] /\ e = more[k]
      BY <3>1
    <3>3. /\ With(u, e) \in Seq(S) /\ ToSet(With(u, e)) = ToSet(u) \cup {e}
          /\ Begins(u, With(u, e))
          /\ IsInjective(u) => IsInjective(With(u, e))
      BY WithOne
    <3> QED
      BY <2>3, <3>2, <3>3, Zenon
  <2>5. upTo(k) = upTo(n) \cup {more[k]}
    <3>1. \A i : i \in 1 .. k <=> i \in 1 .. n \/ i = k
      BY <2>1
    <3> QED
      BY <3>1
  <2> HIDE DEF upTo
  <2>6. ToSet(f[k]) = ToSet(seq) \cup upTo(k)
    BY <2>2, <2>4, <2>5
  <2>7. Begins(seq, f[k])
    <3>1. Len(f[n]) \in Nat /\ Len(f[k]) \in Nat
      BY <2>2, <2>4
    <3> QED
      BY <1>2, <2>2, <2>4, <3>1, BeginsThen
  <2> QED
    BY <2>1, <2>2, <2>4, <2>6, <2>7
<1>5. Good(Len(more))
  <2> HIDE DEF T
  <2>1. Len(more) \in T
    BY <1>2, <1>3, <1>4, InductionOnNat
  <2> QED
    BY <1>2, <2>1 DEF T
<1>6. upTo(Len(more)) = ToSet(more)
  BY Listed
<1> QED
  BY <1>1, <1>5, <1>6

-----------------------------------------------------------------------------
(* AllOf: what is said of any member. *)

(* The provers do better with concatenation under a name of its own.       *)
Then(s, t) == s \o t

IsAllOf(f, seq, next, m) == f = [n \in 0 .. m |-> IF n = 0 THEN <<>> ELSE Then(f[n - 1], next[seq[n]])]

LEMMA AllOfIs ==
  ASSUME NEW S, NEW seq \in Seq(S), NEW next \in [S -> Seq(S)]
  PROVE  \E f : /\ f[0] = <<>> /\ AllOf(seq, next) = f[Len(seq)]
                /\ \A n \in 1 .. Len(seq) : f[n] = Then(f[n - 1], next[seq[n]])
<1> DEFINE m == Len(seq)
           F == [p \in Nat \X Seq(S) |-> IF p[1] \in 1 .. m THEN Then(p[2], next[seq[p[1]]]) ELSE p[2]]
           h == CHOOSE f : IsAllOf(f, seq, next, m)
<1>1. m \in Nat /\ \A n \in 1 .. m : next[seq[n]] \in Seq(S)
  OBVIOUS
<1> HIDE DEF m
<1>2. F \in [Nat \X Seq(S) -> Seq(S)]
  <2>1. \A p \in Nat \X Seq(S) : p[1] \in 1 .. m => Then(p[2], next[seq[p[1]]]) \in Seq(S)
    <3> SUFFICES ASSUME NEW n \in 1 .. m, NEW s \in Seq(S) PROVE Then(s, next[seq[n]]) \in Seq(S)
      OBVIOUS
    <3>1. next[seq[n]] \in Seq(S)
      BY <1>1
    <3> QED
      BY <3>1, ConcatProperties DEF Then
  <2> QED
    BY <2>1
<1>3. \A n \in 1 .. m, s \in Seq(S) : F[<<n, s>>] = Then(s, next[seq[n]])
  BY <1>1
<1> HIDE DEF F
<1>4. PICK f \in [0 .. m -> Seq(S)] : f[0] = <<>> /\ \A n \in 1 .. m : f[n] = F[<<n, f[n - 1]>>]
  <2>1. <<>> \in Seq(S)
    OBVIOUS
  <2>2. \A k \in Nat : \E f \in [0 .. k -> Seq(S)] : Iterates(f, <<>>, F, k)
    BY <1>2, <2>1, Iterated, Zenon
  <2> QED
    BY <1>1, <2>2, Zenon DEF Iterates
<1>5. \A n \in 1 .. m : f[n] = Then(f[n - 1], next[seq[n]])
  <2> SUFFICES ASSUME NEW n \in 1 .. m PROVE f[n] = Then(f[n - 1], next[seq[n]])
    OBVIOUS
  <2>1. f[n - 1] \in Seq(S)
    BY <1>1
  <2> QED
    BY <1>3, <1>4, <2>1
<1>6. IsAllOf(f, seq, next, m)
  <2>1. \A n \in 0 .. m : f[n] = IF n = 0 THEN <<>> ELSE Then(f[n - 1], next[seq[n]])
    BY <1>4, <1>5
  <2> QED
    BY <2>1 DEF IsAllOf
<1>7. IsAllOf(h, seq, next, m)
  BY <1>6, Zenon
<1> HIDE DEF h
<1>8. h[0] = <<>> /\ \A n \in 1 .. m : h[n] = Then(h[n - 1], next[seq[n]])
  <2>1. \A n \in 0 .. m : h[n] = IF n = 0 THEN <<>> ELSE Then(h[n - 1], next[seq[n]])
    BY <1>7, Zenon DEF IsAllOf
  <2>2. 0 \in 0 .. m /\ \A n \in 1 .. m : n \in 0 .. m /\ n # 0
    BY <1>1
  <2> QED
    BY <2>1, <2>2, Zenon
<1>9. AllOf(seq, next) = h[m]
  BY Zenon DEF AllOf, IsAllOf, h, m, Then
<1> QED
  BY <1>8, <1>9 DEF m

LEMMA Joined ==
  ASSUME NEW S, NEW s \in Seq(S), NEW t \in Seq(S)
  PROVE  Then(s, t) \in Seq(S) /\ ToSet(Then(s, t)) = ToSet(s) \cup ToSet(t)
<1> DEFINE r == Then(s, t)
<1>1. /\ r \in Seq(S) /\ Len(r) = Len(s) + Len(t) /\ Len(s) \in Nat /\ Len(t) \in Nat
      /\ \A i \in 1 .. Len(s) + Len(t) : r[i] = IF i <= Len(s) THEN s[i] ELSE t[i - Len(s)]
  BY ConcatProperties DEF Then
<1> HIDE DEF r
<1>2. \A i \in 1 .. Len(s) : i \in 1 .. Len(r) /\ r[i] = s[i]
  BY <1>1
<1>3. ASSUME NEW i \in 1 .. Len(t) PROVE \E j \in 1 .. Len(r) : r[j] = t[i]
  <2>1. PICK j \in 1 .. Len(r) : j = Len(s) + i
    BY <1>1
  <2>2. ~ (j <= Len(s)) /\ j - Len(s) = i
    BY <1>1, <2>1
  <2> QED
    BY <1>1, <2>1, <2>2
<1>4. ASSUME NEW i \in 1 .. Len(r)
      PROVE  (\E j \in 1 .. Len(s) : r[i] = s[j]) \/ (\E j \in 1 .. Len(t) : r[i] = t[j])
  <2>1. CASE i <= Len(s)
    BY <1>1, <2>1
  <2>2. CASE ~ (i <= Len(s))
    <3>1. i - Len(s) \in 1 .. Len(t)
      BY <1>1, <2>2
    <3>2. r[i] = t[i - Len(s)]
      BY <1>1, <2>2
    <3> QED
      BY <3>1, <3>2
  <2> QED
    BY <2>1, <2>2
<1>5. ASSUME NEW x PROVE x \in ToSet(r) <=> x \in ToSet(s) \cup ToSet(t)
  <2>1. /\ x \in ToSet(s) <=> \E i \in 1 .. Len(s) : s[i] = x
        /\ x \in ToSet(t) <=> \E i \in 1 .. Len(t) : t[i] = x
        /\ x \in ToSet(r) <=> \E i \in 1 .. Len(r) : r[i] = x
    BY <1>1, Listed
  <2>2. x \in ToSet(r) => x \in ToSet(s) \/ x \in ToSet(t)
    BY <1>4, <2>1, Zenon
  <2>3. x \in ToSet(s) => x \in ToSet(r)
    BY <1>2, <2>1, Zenon
  <2>4. x \in ToSet(t) => x \in ToSet(r)
    BY <1>3, <2>1, Zenon
  <2> QED
    BY <2>2, <2>3, <2>4
<1> QED
  BY <1>1, <1>5 DEF r

LEMMA AllSaid ==
  ASSUME NEW S, NEW seq \in Seq(S), NEW next \in [S -> Seq(S)]
  PROVE  /\ AllOf(seq, next) \in Seq(S)
         /\ \A y : y \in ToSet(AllOf(seq, next)) <=> \E x \in ToSet(seq) : y \in ToSet(next[x])
<1>1. PICK f : /\ f[0] = <<>> /\ AllOf(seq, next) = f[Len(seq)]
               /\ \A n \in 1 .. Len(seq) : f[n] = Then(f[n - 1], next[seq[n]])
  BY AllOfIs
<1> DEFINE Good(n) == /\ f[n] \in Seq(S)
                      /\ \A y : y \in ToSet(f[n]) <=> \E i \in 1 .. n : y \in ToSet(next[seq[i]])
           T == {n \in Nat : n <= Len(seq) => Good(n)}
<1>2. Len(seq) \in Nat /\ \A n \in 1 .. Len(seq) : next[seq[n]] \in Seq(S)
  OBVIOUS
<1>3. 0 \in T
  <2>1. <<>> \in Seq(S) /\ ToSet(<<>>) = {}
    BY DEF ToSet
  <2>2. \A i \in 1 .. 0 : FALSE
    OBVIOUS
  <2>3. Good(0)
    BY <1>1, <2>1, <2>2, Zenon
  <2> QED
    BY <2>3
<1>4. ASSUME NEW n \in Nat, n \in T PROVE n + 1 \in T
  <2> SUFFICES ASSUME n + 1 <= Len(seq) PROVE Good(n + 1)
    OBVIOUS
  <2>1. PICK k \in 1 .. Len(seq) : k = n + 1 /\ k - 1 = n
    BY <1>2
  <2>2. Good(n)
    BY <1>2, <1>4
  <2>3. f[k] = Then(f[n], next[seq[k]])
    BY <1>1, <2>1
  <2>4. f[k] \in Seq(S) /\ ToSet(f[k]) = ToSet(f[n]) \cup ToSet(next[seq[k]])
    <3>1. f[n] \in Seq(S) /\ next[seq[k]] \in Seq(S)
      BY <1>2, <2>2
    <3>2. PICK u \in Seq(S), v \in Seq(S) : u = f[n] /\ v = next[seq[k]]
      BY <3>1
    <3>3. Then(u, v) \in Seq(S) /\ ToSet(Then(u, v)) = ToSet(u) \cup ToSet(v)
      BY Joined
    <3> QED
      BY <2>3, <3>2, <3>3, Zenon
  <2>5. \A i : i \in 1 .. k <=> i \in 1 .. n \/ i = k
    BY <2>1
  <2>6. ASSUME NEW y PROVE y \in ToSet(f[k]) <=> \E i \in 1 .. k : y \in ToSet(next[seq[i]])
    <3>1. y \in ToSet(f[k]) <=> y \in ToSet(f[n]) \/ y \in ToSet(next[seq[k]])
      BY <2>4
    <3>2. y \in ToSet(f[n]) <=> \E i \in 1 .. n : y \in ToSet(next[seq[i]])
      BY <2>2
    <3> QED
      BY <2>5, <3>1, <3>2, Zenon
  <2> QED
    BY <2>1, <2>4, <2>6
<1>5. Good(Len(seq))
  <2> HIDE DEF T
  <2>1. Len(seq) \in T
    BY <1>2, <1>3, <1>4, InductionOnNat
  <2> QED
    BY <1>2, <2>1 DEF T
<1>6. \A x : x \in ToSet(seq) <=> \E i \in 1 .. Len(seq) : seq[i] = x
  BY Listed
<1>7. ASSUME NEW y
      PROVE  (\E i \in 1 .. Len(seq) : y \in ToSet(next[seq[i]])) <=> \E x \in ToSet(seq) : y \in ToSet(next[x])
  BY <1>6, Zenon
<1> QED
  BY <1>1, <1>5, <1>7
-----------------------------------------------------------------------------
(* InOrder lists a finite set: the rank is one-to-one. *)

LEMMA RanksAreOneToOne ==
  ASSUME NEW S \in SUBSET Nat, IsFiniteSet(S)
  PROVE  [n \in S |-> Cardinality({m \in S : m <= n})] \in Bijection(S, 1 .. Cardinality(S))
<1> DEFINE upTo(n) == {m \in S : m <= n}
           c == Cardinality(S)
           rank == [n \in S |-> Cardinality(upTo(n))]
<1>1. c \in Nat
  BY FS_CardinalityType
<1>2. ASSUME NEW n \in S PROVE IsFiniteSet(upTo(n)) /\ Cardinality(upTo(n)) \in 1 .. c
  <2>1. upTo(n) \in SUBSET S /\ n \in upTo(n)
    OBVIOUS
  <2> HIDE DEF upTo
  <2>2. IsFiniteSet(upTo(n)) /\ Cardinality(upTo(n)) <= c
    BY <2>1, FS_Subset
  <2>3. Cardinality(upTo(n)) \in Nat /\ Cardinality(upTo(n)) # 0
    BY <2>1, <2>2, FS_CardinalityType, FS_EmptySet
  <2> QED
    BY <1>1, <2>2, <2>3
<1>3. ASSUME NEW n \in S, NEW k \in S, n < k PROVE rank[n] < rank[k]
  <2>1. upTo(n) \in SUBSET (upTo(k) \ {k}) /\ k \in upTo(k)
    <3>1. n \in Nat /\ k \in Nat
      OBVIOUS
    <3>2. ASSUME NEW m \in S, m <= n PROVE m <= k /\ m # k
      <4>1. m \in Nat
        OBVIOUS
      <4> QED
        BY <1>3, <3>1, <3>2, <4>1
    <3>3. k <= k
      BY <3>1
    <3> QED
      BY <3>2, <3>3
  <2>2. Cardinality(upTo(n)) \in Nat /\ Cardinality(upTo(k)) \in Nat /\ IsFiniteSet(upTo(k))
    BY <1>2
  <2> HIDE DEF upTo
  <2>3. IsFiniteSet(upTo(k) \ {k}) /\ Cardinality(upTo(k) \ {k}) = Cardinality(upTo(k)) - 1
    BY <2>1, <2>2, FS_RemoveElement
  <2>4. Cardinality(upTo(n)) <= Cardinality(upTo(k) \ {k})
    BY <2>1, <2>3, FS_Subset
  <2> QED
    BY <2>2, <2>3, <2>4
<1>4. rank \in Injection(S, 1 .. c)
  <2>1. rank \in [S -> 1 .. c]
    BY <1>2
  <2> HIDE DEF rank, c, upTo
  <2>2. \A n \in S : rank[n] \in Nat
    BY <1>1, <2>1
  <2>3. ASSUME NEW n \in S, NEW k \in S, rank[n] = rank[k] PROVE n = k
    <3>1. n < k \/ k < n \/ n = k
      OBVIOUS
    <3> QED
      BY <1>3, <2>2, <2>3, <3>1
  <2> QED
    BY <2>1, <2>3 DEF Injection, IsInjective
<1> HIDE DEF rank
<1>5. IsFiniteSet(1 .. c) /\ Cardinality(1 .. c) = c
  BY <1>1, FS_Interval
<1>6. rank \in Surjection(S, 1 .. c)
  BY <1>4, <1>5, FS_Injection
<1>7. rank \in Bijection(S, 1 .. c)
  BY <1>4, <1>6 DEF Bijection
<1> QED
  BY <1>7 DEF rank

LEMMA Ordered ==
  ASSUME NEW S \in SUBSET Nat, IsFiniteSet(S)
  PROVE  InOrder(S) \in Seq(S) /\ ToSet(InOrder(S)) = S
<1> DEFINE c == Cardinality(S)
           rank == [n \in S |-> Cardinality({m \in S : m <= n})]
           at(i) == CHOOSE n \in S : rank[n] = i
<1>1. c \in Nat
  BY FS_CardinalityType
<1>2. rank \in Bijection(S, 1 .. c)
  BY RanksAreOneToOne
<1>3. InOrder(S) = [i \in 1 .. c |-> at(i)]
  <2>1. ASSUME NEW i \in 1 .. c PROVE at(i) = CHOOSE n \in S : Cardinality({m \in S : m <= n}) = i
    OBVIOUS
  <2> QED
    BY <2>1, Zenon DEF InOrder
<1> HIDE DEF rank, c
<1>4. /\ rank \in [S -> 1 .. c]
      /\ \A n, k \in S : rank[n] = rank[k] => n = k
      /\ \A i \in 1 .. c : \E n \in S : rank[n] = i
  BY <1>2 DEF Bijection, Injection, Surjection, IsInjective
<1>5. \A i \in 1 .. c : at(i) \in S /\ rank[at(i)] = i
  BY <1>4
<1> HIDE DEF at
<1>6. InOrder(S) \in Seq(S) /\ Len(InOrder(S)) = c /\ \A i \in 1 .. c : InOrder(S)[i] = at(i)
  BY <1>1, <1>3, <1>5
<1>7. ASSUME NEW n \in S PROVE \E i \in 1 .. c : InOrder(S)[i] = n
  <2>1. rank[n] \in 1 .. c
    BY <1>4
  <2>2. at(rank[n]) = n
    BY <1>4, <1>5, <2>1
  <2> QED
    BY <1>6, <2>1, <2>2
<1>8. ToSet(InOrder(S)) \subseteq S /\ \A x : x \in ToSet(InOrder(S)) <=> \E i \in 1 .. c : InOrder(S)[i] = x
  BY <1>6, Listed
<1> QED
  BY <1>6, <1>7, <1>8

LEMMA NeighboursAre ==
  ASSUME NEW pairs \in SUBSET (Concept \X Concept)
  PROVE  /\ Neighbours(pairs) \in [Concept -> Seq(Concept)]
         /\ \A x, y \in Concept : y \in ToSet(Neighbours(pairs)[x]) <=> <<x, y>> \in pairs
<1> DEFINE next(x) == {p[2] : p \in {p \in pairs : p[1] = x}}
<1>1. ASSUME NEW x \in Concept
      PROVE  /\ InOrder(next(x)) \in Seq(Concept)
             /\ \A y \in Concept : y \in ToSet(InOrder(next(x))) <=> <<x, y>> \in pairs
  <2>1. next(x) \in SUBSET Concept /\ \A y \in Concept : y \in next(x) <=> <<x, y>> \in pairs
    OBVIOUS
  <2> HIDE DEF next
  <2>2. next(x) \in SUBSET Nat /\ IsFiniteSet(next(x))
    BY <2>1, ConceptAssumption, FS_Subset
  <2>3. InOrder(next(x)) \in Seq(next(x)) /\ ToSet(InOrder(next(x))) = next(x)
    BY <2>2, Ordered
  <2>4. InOrder(next(x)) \in Seq(Concept)
    BY <2>1, <2>3, SeqMonotonic
  <2> QED
    BY <2>1, <2>3, <2>4
<1>2. Neighbours(pairs) = [x \in Concept |-> InOrder(next(x))]
  BY DEF Neighbours
<1> HIDE DEF next
<1> QED
  BY <1>1, <1>2

-----------------------------------------------------------------------------
(* Waves *)

LEMMA WaveIs ==
  ASSUME NEW S, NEW s \in Seq(S), NEW t \in Seq(S), Begins(s, t), IsInjective(t)
  PROVE  /\ Wave(t, Len(s)).all = t /\ Wave(t, Len(s)).new \in Seq(S)
         /\ ToSet(Wave(t, Len(s)).new) = ToSet(t) \ ToSet(s)
         /\ Wave(t, Len(s)).new = <<>> \/ Len(s) < Len(t)
<1> DEFINE new == SubSeq(t, Len(s) + 1, Len(t))
<1>1. Wave(t, Len(s)).all = t /\ Wave(t, Len(s)).new = new
  BY DEF Wave
<1>2. Len(s) \in Nat /\ Len(t) \in Nat /\ Len(s) <= Len(t) /\ \A i \in 1 .. Len(s) : t[i] = s[i]
  BY DEF Begins
<1>3. PICK k \in Int, m \in Int : k = Len(s) + 1 /\ m = Len(t)
  BY <1>2
<1>4. \A i \in k .. m : t[i] \in S
  BY <1>2, <1>3
<1>5. /\ new \in Seq(S)
      /\ Len(new) = IF k <= m THEN m - k + 1 ELSE 0
      /\ \A i \in 1 .. m - k + 1 : new[i] = t[k + i - 1]
  BY <1>3, <1>4, SubSeqProperties
<1> HIDE DEF new
<1>6. Len(new) = Len(t) - Len(s) /\ \A i \in 1 .. Len(t) - Len(s) : new[i] = t[Len(s) + i]
  <2>1. Len(new) = Len(t) - Len(s)
    BY <1>2, <1>3, <1>5
  <2>2. ASSUME NEW i \in 1 .. Len(t) - Len(s) PROVE new[i] = t[Len(s) + i]
    <3>1. i \in 1 .. m - k + 1 /\ k + i - 1 = Len(s) + i
      BY <1>2, <1>3
    <3>2. new[i] = t[k + i - 1]
      BY <1>5, <3>1
    <3> QED
      BY <3>1, <3>2, Zenon
  <2> QED
    BY <2>1, <2>2
<1>7. new = <<>> \/ Len(s) < Len(t)
  BY <1>2, <1>5, <1>6
<1>8. \A i, j \in 1 .. Len(t) : t[i] = t[j] => i = j
  BY DEF IsInjective
<1>9. ASSUME NEW x PROVE x \in ToSet(new) <=> x \in ToSet(t) /\ x \notin ToSet(s)
  <2>1. /\ x \in ToSet(s) <=> \E i \in 1 .. Len(s) : s[i] = x
        /\ x \in ToSet(t) <=> \E i \in 1 .. Len(t) : t[i] = x
        /\ x \in ToSet(new) <=> \E i \in 1 .. Len(new) : new[i] = x
    BY <1>5, Listed
  <2>2. ASSUME NEW i \in 1 .. Len(new), new[i] = x PROVE x \in ToSet(t) /\ x \notin ToSet(s)
    <3>1. PICK j \in 1 .. Len(t) : j = Len(s) + i /\ t[j] = x
      <4>1. i \in 1 .. Len(t) - Len(s) /\ Len(s) + i \in 1 .. Len(t)
        BY <1>2, <1>6
      <4>2. t[Len(s) + i] = x
        BY <1>6, <2>2, <4>1
      <4> QED
        BY <4>1, <4>2
    <3>2. ASSUME NEW l \in 1 .. Len(s), s[l] = x PROVE FALSE
      <4>1. l \in 1 .. Len(t) /\ t[l] = x /\ l # j
        BY <1>2, <3>1, <3>2
      <4> QED
        BY <1>8, <3>1, <4>1
    <3> QED
      BY <2>1, <3>1, <3>2
  <2>3. ASSUME NEW j \in 1 .. Len(t), t[j] = x, x \notin ToSet(s) PROVE x \in ToSet(new)
    <3>1. ~ (j <= Len(s))
      <4> SUFFICES ASSUME j <= Len(s) PROVE FALSE
        OBVIOUS
      <4>1. j \in 1 .. Len(s)
        BY <1>2
      <4> QED
        BY <1>2, <2>1, <2>3, <4>1
    <3>2. PICK i \in 1 .. Len(new) : j = Len(s) + i
      <4>1. j - Len(s) \in 1 .. Len(new) /\ j = Len(s) + (j - Len(s))
        BY <1>2, <1>6, <3>1
      <4> QED
        BY <4>1
    <3>3. new[i] = x
      BY <1>6, <2>3, <3>2
    <3> QED
      BY <2>1, <3>3
  <2> QED
    BY <2>1, <2>2, <2>3
<1>10. ToSet(new) = ToSet(t) \ ToSet(s)
  BY <1>9
<1> QED
  BY <1>1, <1>5, <1>7, <1>10

(* Waves without repetition. *)
Walk == {w \in [all : Seq(Concept), new : Seq(Concept)] : IsInjective(w.all) /\ ToSet(w.new) \subseteq ToSet(w.all)}

LEMMA WaveAfterWave ==
  ASSUME NEW w \in Walk, NEW next \in [Concept -> Seq(Concept)]
  PROVE  /\ NextWave(w, next) \in Walk /\ Begins(w.all, NextWave(w, next).all)
         /\ w.new = <<>> => NextWave(w, next) = w
         /\ w.new # <<>> =>
              /\ \A y : y \in ToSet(NextWave(w, next).all) <=>
                          y \in ToSet(w.all) \/ \E x \in ToSet(w.new) : y \in ToSet(next[x])
              /\ ToSet(NextWave(w, next).new) = ToSet(NextWave(w, next).all) \ ToSet(w.all)
              /\ NextWave(w, next).new = <<>> \/ Len(w.all) < Len(NextWave(w, next).all)
<1> DEFINE s == w.all
           more == AllOf(w.new, next)
           t == Extend(s, more)
<1>1. s \in Seq(Concept) /\ IsInjective(s) /\ w.new \in Seq(Concept) /\ Len(s) \in Nat
  BY DEF Walk
<1>2. CASE w.new = <<>>
  <2>1. NextWave(w, next) = w
    BY <1>2 DEF NextWave
  <2>2. Begins(s, s)
    BY <1>1 DEF Begins
  <2> QED
    BY <1>2, <2>1, <2>2
<1>3. CASE w.new # <<>>
  <2>1. NextWave(w, next) = Wave(t, Len(s))
    BY <1>3 DEF NextWave
  <2>2. more \in Seq(Concept) /\ \A y : y \in ToSet(more) <=> \E x \in ToSet(w.new) : y \in ToSet(next[x])
    BY <1>1, AllSaid
  <2> HIDE DEF more
  <2>3. t \in Seq(Concept) /\ ToSet(t) = ToSet(s) \cup ToSet(more) /\ Begins(s, t) /\ IsInjective(t)
    BY <1>1, <2>2, Extended
  <2> HIDE DEF s, t
  <2>4. /\ Wave(t, Len(s)).all = t /\ Wave(t, Len(s)).new \in Seq(Concept)
        /\ ToSet(Wave(t, Len(s)).new) = ToSet(t) \ ToSet(s)
        /\ Wave(t, Len(s)).new = <<>> \/ Len(s) < Len(t)
    BY <1>1, <2>3, WaveIs
  <2>5. Wave(t, Len(s)) \in Walk
    <3>1. Wave(t, Len(s)) \in [all : Seq(Concept), new : Seq(Concept)]
      BY <2>3, <2>4 DEF Wave
    <3> QED
      BY <2>3, <2>4, <3>1 DEF Walk
  <2> QED
    BY <1>3, <2>1, <2>2, <2>3, <2>4, <2>5 DEF s
<1> QED
  BY <1>2, <1>3
LEMMA FirstWave ==
  ASSUME NEW s \in Seq(Concept), IsInjective(s)
  PROVE  Wave(s, 0) \in Walk /\ Wave(s, 0).all = s /\ ToSet(Wave(s, 0).new) = ToSet(s)
<1>1. <<>> \in Seq(Concept) /\ Len(<<>>) = 0 /\ ToSet(<<>>) = {}
  BY DEF ToSet
<1>2. Begins(<<>>, s)
  BY <1>1 DEF Begins
<1>3. /\ Wave(s, 0).all = s /\ Wave(s, 0).new \in Seq(Concept)
      /\ ToSet(Wave(s, 0).new) = ToSet(s)
  <2>1. PICK e \in Seq(Concept) : e = <<>> /\ Len(e) = 0 /\ ToSet(e) = {} /\ Begins(e, s)
    BY <1>1, <1>2
  <2>2. \A r \in Seq(Concept), t \in Seq(Concept) :
          Begins(r, t) /\ IsInjective(t) =>
            /\ Wave(t, Len(r)).all = t /\ Wave(t, Len(r)).new \in Seq(Concept)
            /\ ToSet(Wave(t, Len(r)).new) = ToSet(t) \ ToSet(r)
    BY WaveIs
  <2>3. /\ Wave(s, Len(e)).all = s /\ Wave(s, Len(e)).new \in Seq(Concept)
        /\ ToSet(Wave(s, Len(e)).new) = ToSet(s) \ ToSet(e)
    BY <2>1, <2>2, Zenon
  <2> QED
    BY <2>1, <2>3
<1>4. Wave(s, 0) \in [all : Seq(Concept), new : Seq(Concept)]
  BY <1>3 DEF Wave
<1> QED
  BY <1>3, <1>4 DEF Walk

LEMMA ListSize ==
  ASSUME NEW S, NEW s \in Seq(S), IsInjective(s)
  PROVE  IsFiniteSet(ToSet(s)) /\ Cardinality(ToSet(s)) = Len(s)
<1>1. Len(s) \in Nat /\ DOMAIN s = 1 .. Len(s) /\ s \in [1 .. Len(s) -> S]
  OBVIOUS
<1>2. \A x : x \in ToSet(s) <=> \E i \in 1 .. Len(s) : s[i] = x
  BY Listed
<1>3. s \in [1 .. Len(s) -> ToSet(s)]
  BY <1>1, <1>2
<1>4. s \in Surjection(1 .. Len(s), ToSet(s))
  BY <1>2, <1>3 DEF Surjection
<1>5. s \in Injection(1 .. Len(s), ToSet(s))
  BY <1>3 DEF Injection
<1>6. IsFiniteSet(1 .. Len(s)) /\ Cardinality(1 .. Len(s)) = Len(s)
  BY <1>1, FS_Interval
<1> QED
  BY <1>4, <1>5, <1>6, FS_Surjection

-----------------------------------------------------------------------------
(* Exact matches *)

GraphOK(g) ==
  /\ g.exact \in SUBSET (Concept \X Concept) /\ g.close \in SUBSET (Concept \X Concept)
  /\ g.related \in SUBSET (Concept \X Concept) /\ g.narrower \in SUBSET (Concept \X Concept)
  /\ \A x, y \in Concept : <<x, y>> \in g.exact => <<y, x>> \in g.exact

Closed(g, S) == \A x, y \in Concept : <<x, y>> \in g.exact /\ x \in S => y \in S

LEMMA SameIsLeast ==
  ASSUME NEW g, GraphOK(g), NEW x \in Concept
  PROVE  /\ Same(g, x) \subseteq Concept /\ x \in Same(g, x) /\ Closed(g, Same(g, x))
         /\ Same(g, x) \subseteq {x} \cup {p[1] : p \in g.exact}
         /\ \A S : x \in S /\ Closed(g, S) => Same(g, x) \subseteq S
<1> DEFINE ids == {x} \cup {p[1] : p \in g.exact}
           Shut(S) == \A p \in g.exact : p[1] \in S => p[2] \in S
<1>1. Same(g, x) = {y \in ids : \A S \in SUBSET ids : x \in S /\ Shut(S) => y \in S}
  BY DEF Same
<1>2. g.exact \in SUBSET (Concept \X Concept) /\ \A y, z \in Concept : <<y, z>> \in g.exact => <<z, y>> \in g.exact
  BY DEF GraphOK
<1>3. \A p \in g.exact : p[1] \in Concept /\ p[2] \in Concept /\ p = <<p[1], p[2]>>
  BY <1>2
<1>4. \A p \in g.exact : p[1] \in ids /\ p[2] \in ids
  <2> SUFFICES ASSUME NEW p \in g.exact PROVE p[1] \in ids /\ p[2] \in ids
    OBVIOUS
  <2>1. <<p[2], p[1]>> \in g.exact
    BY <1>2, <1>3
  <2>2. PICK q \in g.exact : q = <<p[2], p[1]>>
    BY <2>1
  <2>3. q[1] = p[2]
    BY <2>2
  <2> QED
    BY <2>3
<1>5. ids \subseteq Concept /\ x \in ids
  BY <1>3
<1>6. \A S : Shut(S) <=> Closed(g, S)
  BY <1>2, <1>3 DEF Closed
<1> HIDE DEF ids
<1>7. Same(g, x) \subseteq ids /\ x \in Same(g, x)
  BY <1>1, <1>5
<1>8. Shut(Same(g, x))
  BY <1>1, <1>4
<1>9. ASSUME NEW S, x \in S, Closed(g, S) PROVE Same(g, x) \subseteq S
  <2>1. Shut(S)
    BY <1>6, <1>9
  <2>2. S \cap ids \in SUBSET ids /\ x \in S \cap ids /\ Shut(S \cap ids)
    BY <1>4, <1>5, <1>9, <2>1
  <2> QED
    BY <1>1, <2>2
<1> QED
  BY <1>5, <1>6, <1>7, <1>8, <1>9 DEF ids

LEMMA SameWithin ==
  ASSUME NEW g, GraphOK(g), NEW x \in Concept, NEW y \in Same(g, x)
  PROVE  y \in Concept /\ Same(g, y) \subseteq Same(g, x)
<1>1. Same(g, x) \subseteq Concept /\ Closed(g, Same(g, x))
  BY SameIsLeast
<1>2. y \in Concept
  BY <1>1
<1> QED
  BY <1>1, <1>2, SameIsLeast

IsClosure(f, g, x, m) ==
  f = [n \in 0 .. m |-> IF n = 0 THEN Wave(<<x>>, 0) ELSE NextWave(f[n - 1], Neighbours(g.exact))]

LEMMA ExactClosureIs ==
  ASSUME NEW g, GraphOK(g), NEW x \in Concept
  PROVE  /\ Cardinality(g.exact) \in Nat
         /\ \E f : /\ f[0] = Wave(<<x>>, 0) /\ ExactClosure(g, x) = f[Cardinality(g.exact)].all
                   /\ \A n \in 1 .. Cardinality(g.exact) : f[n] = NextWave(f[n - 1], Neighbours(g.exact))
<1> DEFINE m == Cardinality(g.exact)
           next == Neighbours(g.exact)
           a == Wave(<<x>>, 0)
           F == [p \in Nat \X Walk |-> NextWave(p[2], next)]
           h == CHOOSE f : IsClosure(f, g, x, m)
<1>0. m \in Nat
  <2>1. IsFiniteSet(Concept \X Concept)
    BY ConceptAssumption, FS_Product
  <2>2. g.exact \in SUBSET (Concept \X Concept)
    BY DEF GraphOK
  <2>3. IsFiniteSet(g.exact)
    BY <2>1, <2>2, FS_Subset
  <2> QED
    BY <2>3, FS_CardinalityType
<1>1. next \in [Concept -> Seq(Concept)]
  BY NeighboursAre DEF GraphOK
<1>2. a \in Walk
  <2>1. <<x>> \in Seq(Concept) /\ IsInjective(<<x>>)
    BY DEF IsInjective
  <2> QED
    BY <2>1, FirstWave
<1> HIDE DEF m, next, a
<1>3. F \in [Nat \X Walk -> Walk]
  <2>1. \A w \in Walk : NextWave(w, next) \in Walk
    BY <1>1, WaveAfterWave
  <2> QED
    BY <2>1
<1>4. \A n \in Nat, w \in Walk : F[<<n, w>>] = NextWave(w, next)
  OBVIOUS
<1> HIDE DEF F
<1>5. PICK f \in [0 .. m -> Walk] : f[0] = a /\ \A n \in 1 .. m : f[n] = F[<<n, f[n - 1]>>]
  <2>1. \A k \in Nat : \E f \in [0 .. k -> Walk] : Iterates(f, a, F, k)
    BY <1>2, <1>3, Iterated, Zenon
  <2> QED
    BY <1>0, <2>1, Zenon DEF Iterates
<1>6. \A n \in 1 .. m : f[n] = NextWave(f[n - 1], next)
  <2> SUFFICES ASSUME NEW n \in 1 .. m PROVE f[n] = NextWave(f[n - 1], next)
    OBVIOUS
  <2>1. f[n - 1] \in Walk /\ n \in Nat
    BY <1>0
  <2> QED
    BY <1>4, <1>5, <2>1
<1>7. IsClosure(f, g, x, m)
  <2>1. \A n \in 0 .. m : f[n] = IF n = 0 THEN a ELSE NextWave(f[n - 1], next)
    BY <1>5, <1>6
  <2> QED
    BY <2>1 DEF IsClosure, a, next
<1>8. IsClosure(h, g, x, m)
  BY <1>7, Zenon
<1> HIDE DEF h
<1>9. h[0] = a /\ \A n \in 1 .. m : h[n] = NextWave(h[n - 1], next)
  <2>1. \A n \in 0 .. m : h[n] = IF n = 0 THEN a ELSE NextWave(h[n - 1], next)
    BY <1>8, Zenon DEF IsClosure, a, next
  <2>2. 0 \in 0 .. m /\ \A n \in 1 .. m : n \in 0 .. m /\ n # 0
    BY <1>0
  <2> QED
    BY <2>1, <2>2, Zenon
<1>10. ExactClosure(g, x) = h[m].all
  BY Zenon DEF ExactClosure, IsClosure, h, m
<1> QED
  BY <1>0, <1>9, <1>10 DEF a, m, next

(* The walk stops with every exact match found: each wave but the last one *)
(* brings at least one of them.                                            *)
LEMMA ExactFindsSame ==
  ASSUME NEW g, GraphOK(g), NEW x \in Concept
  PROVE  /\ ExactClosure(g, x) \in Seq(Concept) /\ IsInjective(ExactClosure(g, x))
         /\ ToSet(ExactClosure(g, x)) = Same(g, x)
         /\ Len(ExactClosure(g, x)) # 0 /\ ExactClosure(g, x)[1] = x
<1> DEFINE m == Cardinality(g.exact)
           next == Neighbours(g.exact)
<1>1. PICK f : /\ f[0] = Wave(<<x>>, 0) /\ ExactClosure(g, x) = f[m].all
               /\ \A n \in 1 .. m : f[n] = NextWave(f[n - 1], next)
  BY ExactClosureIs
<1>2. m \in Nat
  BY ExactClosureIs
<1>3. /\ next \in [Concept -> Seq(Concept)]
      /\ \A y, z \in Concept : z \in ToSet(next[y]) <=> <<y, z>> \in g.exact
  BY NeighboursAre DEF GraphOK
<1>4. \A y, z \in Concept : <<y, z>> \in g.exact => <<z, y>> \in g.exact
  BY DEF GraphOK
<1>5. /\ Same(g, x) \subseteq Concept /\ x \in Same(g, x) /\ Closed(g, Same(g, x))
      /\ Same(g, x) \subseteq {x} \cup {p[1] : p \in g.exact}
      /\ \A S : x \in S /\ Closed(g, S) => Same(g, x) \subseteq S
  BY SameIsLeast
<1> HIDE DEF m, next
<1> DEFINE All(n) == ToSet(f[n].all)
           New(n) == ToSet(f[n].new)
           Found(n) == /\ f[n] \in Walk /\ Len(f[n].all) \in Nat /\ Len(f[n].all) # 0 /\ f[n].all[1] = x
                       /\ x \in All(n) /\ All(n) \subseteq Same(g, x)
                       /\ \A y, z \in Concept : <<y, z>> \in g.exact /\ y \in All(n) /\ y \notin New(n) => z \in All(n)
                       /\ f[n].new = <<>> \/ n + 1 <= Len(f[n].all)
           T == {n \in Nat : n <= m => Found(n)}
<1>6. 0 \in T
  <2>1. <<x>> \in Seq(Concept) /\ IsInjective(<<x>>) /\ Len(<<x>>) = 1 /\ <<x>>[1] = x
    BY DEF IsInjective
  <2>2. ToSet(<<x>>) = {x}
    BY DEF ToSet
  <2>3. f[0] \in Walk /\ f[0].all = <<x>> /\ ToSet(f[0].new) = ToSet(<<x>>)
    BY <1>1, <2>1, FirstWave
  <2>4. Found(0)
    BY <1>5, <2>1, <2>2, <2>3
  <2> QED
    BY <2>4
<1>7. ASSUME NEW n \in Nat, n \in T PROVE n + 1 \in T
  <2> SUFFICES ASSUME n + 1 <= m PROVE Found(n + 1)
    OBVIOUS
  <2>1. PICK k \in 1 .. m : k = n + 1 /\ k - 1 = n
    BY <1>2
  <2>2. Found(n)
    BY <1>2, <1>7
  <2>3. f[k] = NextWave(f[n], next)
    BY <1>1, <2>1
  <2>4. /\ f[k] \in Walk /\ Begins(f[n].all, f[k].all)
        /\ f[n].new = <<>> => f[k] = f[n]
        /\ f[n].new # <<>> =>
             /\ \A y : y \in All(k) <=> y \in All(n) \/ \E z \in New(n) : y \in ToSet(next[z])
             /\ New(k) = All(k) \ All(n)
             /\ f[k].new = <<>> \/ Len(f[n].all) < Len(f[k].all)
    <3>1. f[n] \in Walk
      BY <2>2
    <3>2. PICK w \in Walk : w = f[n]
      BY <3>1
    <3>3. /\ NextWave(w, next) \in Walk /\ Begins(w.all, NextWave(w, next).all)
          /\ w.new = <<>> => NextWave(w, next) = w
          /\ w.new # <<>> =>
               /\ \A y : y \in ToSet(NextWave(w, next).all) <=>
                           y \in ToSet(w.all) \/ \E z \in ToSet(w.new) : y \in ToSet(next[z])
               /\ ToSet(NextWave(w, next).new) = ToSet(NextWave(w, next).all) \ ToSet(w.all)
               /\ NextWave(w, next).new = <<>> \/ Len(w.all) < Len(NextWave(w, next).all)
      BY <1>3, WaveAfterWave
    <3> QED
      BY <2>3, <3>2, <3>3, Zenon
  <2>5. CASE f[n].new = <<>>
    <3>1. f[k] = f[n]
      BY <2>4, <2>5
    <3>2. Found(k)
      BY <2>2, <2>5, <3>1
    <3> QED
      BY <2>1, <3>2
  <2>6. CASE f[n].new # <<>>
    <3>1. /\ \A y : y \in All(k) <=> y \in All(n) \/ \E z \in New(n) : y \in ToSet(next[z])
          /\ New(k) = All(k) \ All(n)
          /\ f[k].new = <<>> \/ Len(f[n].all) < Len(f[k].all)
      BY <2>4, <2>6
    <3>2. Len(f[k].all) \in Nat /\ All(k) \subseteq Concept /\ New(n) \subseteq All(n) /\ All(n) \subseteq Concept
      <4>1. f[k].all \in Seq(Concept) /\ f[n].all \in Seq(Concept) /\ New(n) \subseteq All(n)
        BY <2>2, <2>4 DEF Walk
      <4> QED
        BY <4>1, Listed
    <3>3. Len(f[k].all) # 0 /\ f[k].all[1] = x /\ Len(f[n].all) <= Len(f[k].all)
      BY <2>2, <2>4, <3>2 DEF Begins
    <3> HIDE DEF All, New
    <3>4. x \in All(k) /\ All(k) \subseteq Same(g, x)
      <4>1. ASSUME NEW y \in All(k), NEW z \in New(n), y \in ToSet(next[z]) PROVE y \in Same(g, x)
        <5>1. y \in Concept /\ z \in Concept /\ z \in Same(g, x)
          BY <2>2, <3>2
        <5> QED
          BY <1>3, <1>5, <4>1, <5>1 DEF Closed
      <4> QED
        BY <2>2, <3>1, <4>1
    <3>5. ASSUME NEW y \in Concept, NEW z \in Concept, <<y, z>> \in g.exact, y \in All(k), y \notin New(k)
          PROVE  z \in All(k)
      <4>1. y \in All(n)
        BY <3>1, <3>5
      <4>2. CASE y \in New(n)
        <5>1. z \in ToSet(next[y])
          BY <1>3, <3>5
        <5> QED
          BY <3>1, <4>2, <5>1
      <4>3. CASE y \notin New(n)
        BY <2>2, <3>1, <3>5, <4>1, <4>3
      <4> QED
        BY <4>2, <4>3
    <3>6. f[k].new = <<>> \/ k + 1 <= Len(f[k].all)
      BY <2>1, <2>2, <2>6, <3>1, <3>2
    <3>7. Found(k)
      BY <2>4, <3>2, <3>3, <3>4, <3>5, <3>6
    <3> QED
      BY <2>1, <3>7
  <2> QED
    BY <2>5, <2>6
<1>8. Found(m)
  <2> HIDE DEF T
  <2>1. m \in T
    BY <1>2, <1>6, <1>7, InductionOnNat
  <2> QED
    BY <1>2, <2>1 DEF T
<1>9. f[m].all \in Seq(Concept) /\ IsInjective(f[m].all)
  BY <1>8 DEF Walk
<1>10. CASE f[m].new = <<>>
  <2>1. New(m) = {}
    BY <1>10 DEF ToSet
  <2>2. Closed(g, All(m))
    BY <1>8, <2>1 DEF Closed
  <2>3. Same(g, x) \subseteq All(m)
    BY <1>5, <1>8, <2>2
  <2> QED
    BY <1>1, <1>8, <1>9, <2>3
<1>11. CASE f[m].new # <<>>
  <2> DEFINE first == {p[1] : p \in g.exact}
             ids == first \cup {x}
  <2>1. IsFiniteSet(g.exact)
    <3>1. IsFiniteSet(Concept \X Concept) /\ g.exact \in SUBSET (Concept \X Concept)
      BY ConceptAssumption, FS_Product DEF GraphOK
    <3> QED
      BY <3>1, FS_Subset
  <2>2. IsFiniteSet(first) /\ Cardinality(first) <= m
    <3>1. first = {[q \in g.exact |-> q[1]][p] : p \in g.exact}
      OBVIOUS
    <3> QED
      BY <2>1, <3>1, ImageSize DEF m
  <2>3. Cardinality(first) \in Nat
    BY <2>2, FS_CardinalityType
  <2> HIDE DEF first
  <2>4. IsFiniteSet(ids) /\ Cardinality(ids) <= m + 1 /\ Cardinality(ids) \in Nat
    <3>1. IsFiniteSet(ids) /\ Cardinality(ids) = IF x \in first THEN Cardinality(first) ELSE Cardinality(first) + 1
      BY <2>2, FS_AddElement
    <3> QED
      BY <1>2, <2>2, <2>3, <3>1
  <2>5. IsFiniteSet(All(m)) /\ Cardinality(All(m)) = Len(f[m].all)
    BY <1>9, ListSize
  <2>6. Same(g, x) \subseteq ids
    BY <1>5 DEF first
  <2>7. All(m) \in SUBSET ids
    BY <1>8, <2>6
  <2>8. m + 1 <= Cardinality(All(m)) /\ Cardinality(All(m)) \in Nat
    BY <1>8, <1>11, <2>5
  <2> HIDE DEF ids
  <2>9. Cardinality(All(m)) <= Cardinality(ids) /\ (Cardinality(ids) = Cardinality(All(m)) => ids = All(m))
    BY <2>4, <2>7, FS_Subset
  <2>10. ids = All(m)
    BY <1>2, <2>4, <2>8, <2>9
  <2> QED
    BY <1>1, <1>8, <1>9, <2>6, <2>10
<1> QED
  BY <1>10, <1>11

-----------------------------------------------------------------------------
(* Close, narrower and related matches *)

LEMMA CloseFindsNear ==
  ASSUME NEW g, GraphOK(g), NEW id \in Concept
  PROVE  /\ WithClose(g, ExactClosure(g, id)) \in Seq(Concept)
         /\ IsInjective(WithClose(g, ExactClosure(g, id)))
         /\ ToSet(WithClose(g, ExactClosure(g, id))) = Near(g, id)
         /\ Begins(ExactClosure(g, id), WithClose(g, ExactClosure(g, id)))
<1> DEFINE exact == ExactClosure(g, id)
           next == Neighbours(g.close)
           more == AllOf(exact, next)
<1>1. exact \in Seq(Concept) /\ IsInjective(exact) /\ ToSet(exact) = Same(g, id)
  BY ExactFindsSame
<1>2. /\ next \in [Concept -> Seq(Concept)]
      /\ \A y, z \in Concept : z \in ToSet(next[y]) <=> <<y, z>> \in g.close
  BY NeighboursAre DEF GraphOK
<1>3. WithClose(g, exact) = Extend(exact, more)
  BY DEF WithClose
<1> HIDE DEF exact, next
<1>4. more \in Seq(Concept) /\ \A y : y \in ToSet(more) <=> \E x \in ToSet(exact) : y \in ToSet(next[x])
  BY <1>1, <1>2, AllSaid
<1> HIDE DEF more
<1>5. /\ Extend(exact, more) \in Seq(Concept) /\ ToSet(Extend(exact, more)) = ToSet(exact) \cup ToSet(more)
      /\ Begins(exact, Extend(exact, more)) /\ IsInjective(Extend(exact, more))
  BY <1>1, <1>4, Extended
<1>6. ToSet(more) = {p[2] : p \in {p \in g.close : p[1] \in Same(g, id)}}
  <2>1. Same(g, id) \subseteq Concept /\ ToSet(more) \subseteq Concept
    BY <1>4, Listed, SameIsLeast
  <2>2. \A p \in g.close : p[1] \in Concept /\ p[2] \in Concept /\ p = <<p[1], p[2]>>
    BY DEF GraphOK
  <2>3. ASSUME NEW y \in ToSet(more) PROVE \E p \in g.close : p[1] \in Same(g, id) /\ p[2] = y
    <3>1. PICK x \in Same(g, id) : y \in ToSet(next[x])
      BY <1>1, <1>4
    <3>2. <<x, y>> \in g.close
      BY <1>2, <2>1, <3>1
    <3>3. PICK p \in g.close : p = <<x, y>>
      BY <3>2
    <3> QED
      BY <3>3
  <2>4. ASSUME NEW p \in g.close, p[1] \in Same(g, id) PROVE p[2] \in ToSet(more)
    <3>1. p[2] \in ToSet(next[p[1]])
      BY <1>2, <2>2
    <3> QED
      BY <1>1, <1>4, <2>4, <3>1
  <2> QED
    BY <2>3, <2>4
<1> QED
  BY <1>1, <1>3, <1>5, <1>6 DEF Near, exact

LEMMA ChildrenAre ==
  ASSUME NEW g, GraphOK(g), NEW found \in Seq(Concept)
  PROVE  /\ Children(g, found) \in [Concept -> Seq(Concept)]
         /\ \A x \in Concept : \A y : y \in ToSet(Children(g, found)[x]) <=>
              \E c \in Concept : <<x, c>> \in g.narrower /\ c \notin ToSet(found) /\ y \in Same(g, c)
<1> DEFINE closure == [c \in Concept |-> IF Contains(found, c) THEN <<>> ELSE ExactClosure(g, c)]
           next == Neighbours(g.narrower)
<1>1. /\ next \in [Concept -> Seq(Concept)]
      /\ \A y, z \in Concept : z \in ToSet(next[y]) <=> <<y, z>> \in g.narrower
  BY NeighboursAre DEF GraphOK
<1>2. ASSUME NEW c \in Concept
      PROVE  /\ closure[c] \in Seq(Concept)
             /\ \A y : y \in ToSet(closure[c]) <=> c \notin ToSet(found) /\ y \in Same(g, c)
  <2>1. ExactClosure(g, c) \in Seq(Concept) /\ ToSet(ExactClosure(g, c)) = Same(g, c)
    BY ExactFindsSame
  <2>2. <<>> \in Seq(Concept) /\ ToSet(<<>>) = {}
    BY DEF ToSet
  <2>3. Contains(found, c) <=> c \in ToSet(found)
    BY Listed
  <2> QED
    BY <2>1, <2>2, <2>3
<1>3. closure \in [Concept -> Seq(Concept)]
  BY <1>2
<1>4. Children(g, found) = [x \in Concept |-> AllOf(next[x], closure)]
  BY DEF Children
<1> HIDE DEF closure, next
<1>5. ASSUME NEW x \in Concept
      PROVE  /\ AllOf(next[x], closure) \in Seq(Concept)
             /\ \A y : y \in ToSet(AllOf(next[x], closure)) <=>
                  \E c \in Concept : <<x, c>> \in g.narrower /\ c \notin ToSet(found) /\ y \in Same(g, c)
  <2>1. PICK s \in Seq(Concept) : s = next[x]
    BY <1>1
  <2>2. /\ AllOf(s, closure) \in Seq(Concept)
        /\ \A y : y \in ToSet(AllOf(s, closure)) <=> \E c \in ToSet(s) : y \in ToSet(closure[c])
    BY <1>3, AllSaid
  <2>3. ToSet(s) \subseteq Concept /\ \A c \in Concept : c \in ToSet(s) <=> <<x, c>> \in g.narrower
    BY <1>1, <2>1, Listed
  <2>4. ASSUME NEW y
        PROVE  (\E c \in ToSet(s) : y \in ToSet(closure[c])) <=>
                 \E c \in Concept : <<x, c>> \in g.narrower /\ c \notin ToSet(found) /\ y \in Same(g, c)
    BY <1>2, <2>3
  <2> QED
    BY <2>1, <2>2, <2>4
<1> QED
  BY <1>4, <1>5

IsNarrower(f, g, near, m) ==
  f = [n \in 0 .. m |-> IF n = 0 THEN Wave(near, 0) ELSE NextWave(f[n - 1], Children(g, f[n - 1].all))]

LEMMA NarrowerIs ==
  ASSUME NEW g, GraphOK(g), NEW near \in Seq(Concept), IsInjective(near)
  PROVE  \E f : /\ f[0] = Wave(near, 0) /\ Narrower(g, near) = f[MaxDepth].all
                /\ \A n \in 1 .. MaxDepth : f[n] = NextWave(f[n - 1], Children(g, f[n - 1].all))
<1> DEFINE a == Wave(near, 0)
           onward(w) == NextWave(w, Children(g, w.all))
           F == [p \in Nat \X Walk |-> onward(p[2])]
           h == CHOOSE f : IsNarrower(f, g, near, MaxDepth)
<1>1. MaxDepth \in Nat
  BY ConceptAssumption
<1>2. a \in Walk
  BY FirstWave
<1> HIDE DEF a
<1>3. \A w \in Walk : onward(w) \in Walk
  <2> SUFFICES ASSUME NEW w \in Walk PROVE onward(w) \in Walk
    OBVIOUS
  <2>1. w.all \in Seq(Concept)
    BY DEF Walk
  <2>2. Children(g, w.all) \in [Concept -> Seq(Concept)]
    BY <2>1, ChildrenAre
  <2> QED
    BY <2>2, WaveAfterWave
<1> HIDE DEF onward
<1>4. F \in [Nat \X Walk -> Walk]
  BY <1>3
<1>5. \A n \in Nat, w \in Walk : F[<<n, w>>] = onward(w)
  OBVIOUS
<1> HIDE DEF F
<1>6. PICK f \in [0 .. MaxDepth -> Walk] : f[0] = a /\ \A n \in 1 .. MaxDepth : f[n] = F[<<n, f[n - 1]>>]
  <2>1. \A k \in Nat : \E f \in [0 .. k -> Walk] : Iterates(f, a, F, k)
    BY <1>2, <1>4, Iterated, Zenon
  <2> QED
    BY <1>1, <2>1, Zenon DEF Iterates
<1>7. \A n \in 1 .. MaxDepth : f[n] = onward(f[n - 1])
  <2> SUFFICES ASSUME NEW n \in 1 .. MaxDepth PROVE f[n] = onward(f[n - 1])
    OBVIOUS
  <2>1. f[n - 1] \in Walk /\ n \in Nat
    BY <1>1
  <2> QED
    BY <1>5, <1>6, <2>1
<1>8. IsNarrower(f, g, near, MaxDepth)
  <2>1. \A n \in 0 .. MaxDepth : f[n] = IF n = 0 THEN a ELSE onward(f[n - 1])
    BY <1>6, <1>7
  <2> QED
    BY <2>1 DEF IsNarrower, a, onward
<1>9. IsNarrower(h, g, near, MaxDepth)
  BY <1>8, Zenon
<1> HIDE DEF h
<1>10. h[0] = a /\ \A n \in 1 .. MaxDepth : h[n] = onward(h[n - 1])
  <2>1. \A n \in 0 .. MaxDepth : h[n] = IF n = 0 THEN a ELSE onward(h[n - 1])
    BY <1>9, Zenon DEF IsNarrower, a, onward
  <2>2. 0 \in 0 .. MaxDepth /\ \A n \in 1 .. MaxDepth : n \in 0 .. MaxDepth /\ n # 0
    BY <1>1
  <2> QED
    BY <2>1, <2>2, Zenon
<1>11. Narrower(g, near) = h[MaxDepth].all
  BY Zenon DEF Narrower, IsNarrower, h
<1> QED
  BY <1>10, <1>11 DEF a, onward

(* What the reference adds in one step down. *)
Down(g, near, S) == S \cup UNION {Same(g, p[2]) : p \in {p \in g.narrower : p[1] \in S /\ p[2] \notin near}}

IsBelow(f, g, near, m) == f = [n \in 0 .. m |-> IF n = 0 THEN near ELSE Down(g, near, f[n - 1])]

LEMMA BelowIs ==
  ASSUME NEW g, GraphOK(g), NEW near \in SUBSET Concept
  PROVE  \E f : /\ f[0] = near /\ Below(g, near, MaxDepth) = f[MaxDepth]
                /\ \A n \in 1 .. MaxDepth : f[n] = Down(g, near, f[n - 1])
<1> DEFINE F == [p \in Nat \X SUBSET Concept |-> Down(g, near, p[2])]
           h == CHOOSE f : IsBelow(f, g, near, MaxDepth)
<1>1. MaxDepth \in Nat
  BY ConceptAssumption
<1>2. \A S \in SUBSET Concept : Down(g, near, S) \in SUBSET Concept
  <2>1. \A p \in g.narrower : p[2] \in Concept
    BY DEF GraphOK
  <2>2. \A p \in g.narrower : Same(g, p[2]) \subseteq Concept
    BY <2>1, SameIsLeast
  <2> QED
    BY <2>2 DEF Down
<1>3. F \in [Nat \X SUBSET Concept -> SUBSET Concept]
  BY <1>2
<1>4. \A n \in Nat, S \in SUBSET Concept : F[<<n, S>>] = Down(g, near, S)
  OBVIOUS
<1> HIDE DEF F
<1>5. PICK f \in [0 .. MaxDepth -> SUBSET Concept] : f[0] = near /\ \A n \in 1 .. MaxDepth : f[n] = F[<<n, f[n - 1]>>]
  <2>1. \A k \in Nat : \E f \in [0 .. k -> SUBSET Concept] : Iterates(f, near, F, k)
    BY <1>3, Iterated, Zenon
  <2> QED
    BY <1>1, <2>1, Zenon DEF Iterates
<1>6. \A n \in 1 .. MaxDepth : f[n] = Down(g, near, f[n - 1])
  <2> SUFFICES ASSUME NEW n \in 1 .. MaxDepth PROVE f[n] = Down(g, near, f[n - 1])
    OBVIOUS
  <2>1. f[n - 1] \in SUBSET Concept /\ n \in Nat
    BY <1>1
  <2> QED
    BY <1>4, <1>5, <2>1
<1>7. IsBelow(f, g, near, MaxDepth)
  <2>1. \A n \in 0 .. MaxDepth : f[n] = IF n = 0 THEN near ELSE Down(g, near, f[n - 1])
    BY <1>5, <1>6
  <2> QED
    BY <2>1 DEF IsBelow
<1>8. IsBelow(h, g, near, MaxDepth)
  BY <1>7, Zenon
<1> HIDE DEF h
<1>9. h[0] = near /\ \A n \in 1 .. MaxDepth : h[n] = Down(g, near, h[n - 1])
  <2>1. \A n \in 0 .. MaxDepth : h[n] = IF n = 0 THEN near ELSE Down(g, near, h[n - 1])
    BY <1>8, Zenon DEF IsBelow
  <2>2. 0 \in 0 .. MaxDepth /\ \A n \in 1 .. MaxDepth : n \in 0 .. MaxDepth /\ n # 0
    BY <1>1
  <2> QED
    BY <2>1, <2>2, Zenon
<1>10. Below(g, near, MaxDepth) = h[MaxDepth]
  BY Zenon DEF Below, IsBelow, h, Down
<1> QED
  BY <1>9, <1>10

(* The walk looks only at what the last wave brought and skips what it     *)
(* knows.  It misses nothing, since whatever came from below came with its *)
(* exact matches.                                                          *)
LEMMA NarrowerFindsBelow ==
  ASSUME NEW g, GraphOK(g), NEW near \in Seq(Concept), IsInjective(near)
  PROVE  /\ Narrower(g, near) \in Seq(Concept) /\ IsInjective(Narrower(g, near))
         /\ ToSet(Narrower(g, near)) = Below(g, ToSet(near), MaxDepth)
         /\ Begins(near, Narrower(g, near))
<1> DEFINE N == ToSet(near)
<1>1. N \in SUBSET Concept /\ Len(near) \in Nat
  BY Listed
<1>2. PICK f : /\ f[0] = Wave(near, 0) /\ Narrower(g, near) = f[MaxDepth].all
               /\ \A n \in 1 .. MaxDepth : f[n] = NextWave(f[n - 1], Children(g, f[n - 1].all))
  BY NarrowerIs
<1>3. PICK b : /\ b[0] = N /\ Below(g, N, MaxDepth) = b[MaxDepth]
               /\ \A n \in 1 .. MaxDepth : b[n] = Down(g, N, b[n - 1])
  BY <1>1, BelowIs
<1>4. MaxDepth \in Nat
  BY ConceptAssumption
<1> HIDE DEF N
<1> DEFINE All(n) == ToSet(f[n].all)
           New(n) == ToSet(f[n].new)
           Whole(n) == \A c \in Concept : c \in All(n) /\ c \notin N => Same(g, c) \subseteq All(n)
           Searched(n) == \A x, c \in Concept :
             <<x, c>> \in g.narrower /\ c \notin N /\ x \in All(n) /\ x \notin New(n) => Same(g, c) \subseteq All(n)
           Found(n) == /\ f[n] \in Walk /\ Begins(near, f[n].all) /\ N \subseteq All(n) /\ All(n) = b[n]
                       /\ Whole(n) /\ Searched(n)
           T == {n \in Nat : n <= MaxDepth => Found(n)}
<1>5. 0 \in T
  <2>1. f[0] \in Walk /\ f[0].all = near /\ New(0) = N
    BY <1>2, FirstWave DEF N
  <2>2. Begins(near, near)
    BY <1>1 DEF Begins
  <2>3. All(0) = N
    BY <2>1 DEF N
  <2> HIDE DEF All, New
  <2>4. Found(0)
    BY <1>3, <2>1, <2>2, <2>3
  <2> QED
    BY <2>4
<1>6. ASSUME NEW n \in Nat, n \in T PROVE n + 1 \in T
  <2> SUFFICES ASSUME n + 1 <= MaxDepth PROVE Found(n + 1)
    OBVIOUS
  <2>1. PICK k \in 1 .. MaxDepth : k = n + 1 /\ k - 1 = n
    BY <1>4
  <2>2. Found(n)
    BY <1>4, <1>6
  <2>3. PICK w \in Walk : w = f[n] /\ w.all \in Seq(Concept)
    BY <2>2 DEF Walk
  <2>4. f[k] = NextWave(w, Children(g, w.all)) /\ b[k] = Down(g, N, b[n])
    BY <1>2, <1>3, <2>1, <2>3
  <2>5. /\ Children(g, w.all) \in [Concept -> Seq(Concept)]
        /\ \A x \in Concept : \A y : y \in ToSet(Children(g, w.all)[x]) <=>
             \E c \in Concept : <<x, c>> \in g.narrower /\ c \notin All(n) /\ y \in Same(g, c)
    <3>1. \A x \in Concept : \A y : y \in ToSet(Children(g, w.all)[x]) <=>
             \E c \in Concept : <<x, c>> \in g.narrower /\ c \notin ToSet(w.all) /\ y \in Same(g, c)
      BY <2>3, ChildrenAre
    <3> QED
      BY <2>3, <3>1, ChildrenAre
  <2> DEFINE next == Children(g, w.all)
  <2>6. /\ f[k] \in Walk /\ Begins(w.all, f[k].all)
        /\ w.new = <<>> => f[k] = w
        /\ w.new # <<>> =>
             /\ \A y : y \in All(k) <=> y \in All(n) \/ \E x \in New(n) : y \in ToSet(next[x])
             /\ New(k) = All(k) \ All(n)
    <3>1. next \in [Concept -> Seq(Concept)] /\ f[k] = NextWave(w, next)
      BY <2>4, <2>5
    <3> HIDE DEF next
    <3>2. /\ NextWave(w, next) \in Walk /\ Begins(w.all, NextWave(w, next).all)
          /\ w.new = <<>> => NextWave(w, next) = w
          /\ w.new # <<>> =>
               /\ \A y : y \in ToSet(NextWave(w, next).all) <=>
                           y \in ToSet(w.all) \/ \E z \in ToSet(w.new) : y \in ToSet(next[z])
               /\ ToSet(NextWave(w, next).new) = ToSet(NextWave(w, next).all) \ ToSet(w.all)
      BY <3>1, WaveAfterWave
    <3> QED
      BY <2>3, <3>1, <3>2, Zenon
  <2>7. /\ New(n) \subseteq All(n) /\ All(n) \subseteq Concept /\ All(k) \subseteq Concept
        /\ Len(f[n].all) \in Nat /\ Len(f[k].all) \in Nat
    <3>1. f[k].all \in Seq(Concept) /\ f[n].all \in Seq(Concept) /\ New(n) \subseteq All(n)
      BY <2>2, <2>6 DEF Walk
    <3> QED
      BY <3>1, Listed
  <2>8. Begins(near, f[k].all)
    <3>1. Begins(near, f[n].all) /\ Begins(f[n].all, f[k].all)
      BY <2>2, <2>3, <2>6
    <3> QED
      BY <1>1, <2>7, <3>1, BeginsThen
  <2>9. w.new = <<>> => New(n) = {}
    BY <2>3 DEF ToSet
  <2>10. \A p \in g.narrower : p[1] \in Concept /\ p[2] \in Concept /\ p = <<p[1], p[2]>>
    BY DEF GraphOK
  <2> HIDE DEF All, New, next
  (* All that is added below All(n). *)
  <2>11. \A y : y \in b[k] <=>
           \/ y \in All(n)
           \/ \E x, c \in Concept : <<x, c>> \in g.narrower /\ x \in All(n) /\ c \notin N /\ y \in Same(g, c)
    <3>1. \A y : y \in b[k] <=> \/ y \in All(n)
                                \/ \E p \in g.narrower : p[1] \in All(n) /\ p[2] \notin N /\ y \in Same(g, p[2])
      BY <2>2, <2>4 DEF Down
    <3>2. ASSUME NEW y, NEW x \in Concept, NEW c \in Concept,
                 <<x, c>> \in g.narrower, x \in All(n), c \notin N, y \in Same(g, c)
          PROVE  \E p \in g.narrower : p[1] \in All(n) /\ p[2] \notin N /\ y \in Same(g, p[2])
      <4>1. PICK p \in g.narrower : p = <<x, c>>
        BY <3>2
      <4> QED
        BY <3>2, <4>1
    <3> QED
      BY <2>10, <3>1, <3>2
  (* It is there already unless the child is new. *)
  <2>12. ASSUME NEW x \in Concept, NEW c \in Concept, <<x, c>> \in g.narrower, x \in All(n), c \notin N,
                x \notin New(n) \/ c \in All(n)
         PROVE  Same(g, c) \subseteq All(n)
    BY <2>2, <2>12
  <2>13. CASE w.new = <<>>
    <3>1. f[k] = f[n] /\ New(n) = {}
      BY <2>3, <2>6, <2>9, <2>13
    <3>2. All(k) = All(n) /\ New(k) = New(n)
      BY <3>1 DEF All, New
    <3>3. b[k] = All(n)
      BY <2>11, <2>12, <3>1
    <3> QED
      BY <2>1, <2>2, <2>6, <2>8, <3>2, <3>3
  <2>14. CASE w.new # <<>>
    <3>1. /\ \A y : y \in All(k) <=> y \in All(n) \/ \E x \in New(n) : y \in ToSet(next[x])
          /\ New(k) = All(k) \ All(n)
      BY <2>6, <2>14
    <3>2. \A y : y \in All(k) <=>
            \/ y \in All(n)
            \/ \E x \in New(n), c \in Concept : <<x, c>> \in g.narrower /\ c \notin All(n) /\ y \in Same(g, c)
      <4>1. \A x \in New(n) : \A y : y \in ToSet(next[x]) <=>
              \E c \in Concept : <<x, c>> \in g.narrower /\ c \notin All(n) /\ y \in Same(g, c)
        BY <2>5, <2>7 DEF next
      <4> QED
        BY <3>1, <4>1
    <3>3. ASSUME NEW x \in Concept, NEW c \in Concept, <<x, c>> \in g.narrower, x \in All(n), c \notin N
          PROVE  Same(g, c) \subseteq All(k)
      <4>1. CASE x \notin New(n) \/ c \in All(n)
        BY <2>12, <3>1, <3>3, <4>1
      <4>2. CASE x \in New(n) /\ c \notin All(n)
        BY <3>2, <3>3, <4>2
      <4> QED
        BY <4>1, <4>2
    <3>4. All(k) = b[k]
      <4>1. ASSUME NEW y \in b[k] PROVE y \in All(k)
        BY <2>11, <3>2, <3>3
      <4>2. ASSUME NEW y \in All(k) PROVE y \in b[k]
        BY <2>2, <2>7, <2>11, <3>2
      <4> QED
        BY <4>1, <4>2
    <3>5. Whole(k)
      <4> SUFFICES ASSUME NEW c \in Concept, c \in All(k), c \notin N PROVE Same(g, c) \subseteq All(k)
        OBVIOUS
      <4>1. CASE c \in All(n)
        BY <2>2, <3>1, <4>1
      <4>2. CASE c \notin All(n)
        <5>1. PICK x \in New(n), e \in Concept : <<x, e>> \in g.narrower /\ e \notin All(n) /\ c \in Same(g, e)
          BY <3>2, <4>2
        <5>2. Same(g, c) \subseteq Same(g, e)
          BY <5>1, SameWithin
        <5>3. Same(g, e) \subseteq All(k)
          BY <3>2, <5>1
        <5> QED
          BY <5>2, <5>3
      <4> QED
        BY <4>1, <4>2
    <3>6. Searched(k)
      BY <3>1, <3>3
    <3>7. N \subseteq All(k)
      BY <2>2, <3>1
    <3>8. Found(k)
      BY <2>6, <2>8, <3>4, <3>5, <3>6, <3>7, Zenon
    <3> QED
      BY <2>1, <3>8
  <2> QED
    BY <2>13, <2>14
<1>7. Found(MaxDepth)
  <2> HIDE DEF T
  <2>1. MaxDepth \in T
    BY <1>4, <1>5, <1>6, InductionOnNat
  <2> QED
    BY <1>4, <2>1 DEF T
<1>8. f[MaxDepth].all \in Seq(Concept) /\ IsInjective(f[MaxDepth].all)
  BY <1>7 DEF Walk
<1> QED
  BY <1>2, <1>3, <1>7, <1>8 DEF N

(* The whole expansion is the reference. *)
LEMMA UncappedFindsAll ==
  ASSUME NEW g, GraphOK(g), NEW id \in Concept, NEW related \in BOOLEAN
  PROVE  /\ Uncapped(g, id, related) \in Seq(Concept) /\ IsInjective(Uncapped(g, id, related))
         /\ ToSet(Uncapped(g, id, related)) = ShouldMatch(g, id, related)
         /\ Begins(WithClose(g, ExactClosure(g, id)), Uncapped(g, id, related))
<1> DEFINE exact == ExactClosure(g, id)
           near == WithClose(g, exact)
           below == Narrower(g, near)
           next == Neighbours(g.related)
           more == AllOf(exact, next)
           all == Uncapped(g, id, related)
<1>1. exact \in Seq(Concept) /\ ToSet(exact) = Same(g, id)
  BY ExactFindsSame
<1>2. near \in Seq(Concept) /\ IsInjective(near) /\ ToSet(near) = Near(g, id)
  BY CloseFindsNear
<1>3. /\ below \in Seq(Concept) /\ IsInjective(below)
      /\ ToSet(below) = Below(g, Near(g, id), MaxDepth) /\ Begins(near, below)
  <2> HIDE DEF near
  <2> QED
    BY <1>2, NarrowerFindsBelow
<1>4. all = IF related THEN Extend(below, more) ELSE below
  BY DEF Uncapped
<1>5. /\ next \in [Concept -> Seq(Concept)]
      /\ \A y, z \in Concept : z \in ToSet(next[y]) <=> <<y, z>> \in g.related
  BY NeighboursAre DEF GraphOK
<1> HIDE DEF exact, near, below, next, all
<1>6. more \in Seq(Concept) /\ \A y : y \in ToSet(more) <=> \E x \in ToSet(exact) : y \in ToSet(next[x])
  BY <1>1, <1>5, AllSaid
<1> HIDE DEF more
<1>7. ToSet(more) = {p[2] : p \in {p \in g.related : p[1] \in Same(g, id)}}
  <2>1. Same(g, id) \subseteq Concept /\ ToSet(more) \subseteq Concept
    BY <1>6, Listed, SameIsLeast
  <2>2. \A p \in g.related : p[1] \in Concept /\ p[2] \in Concept /\ p = <<p[1], p[2]>>
    BY DEF GraphOK
  <2>3. ASSUME NEW y \in ToSet(more) PROVE \E p \in g.related : p[1] \in Same(g, id) /\ p[2] = y
    <3>1. PICK x \in Same(g, id) : y \in ToSet(next[x])
      BY <1>1, <1>6
    <3>2. <<x, y>> \in g.related
      BY <1>5, <2>1, <3>1
    <3>3. PICK p \in g.related : p = <<x, y>>
      BY <3>2
    <3> QED
      BY <3>3
  <2>4. ASSUME NEW p \in g.related, p[1] \in Same(g, id) PROVE p[2] \in ToSet(more)
    <3>1. p[2] \in ToSet(next[p[1]])
      BY <1>5, <2>2
    <3> QED
      BY <1>1, <1>6, <2>4, <3>1
  <2> QED
    BY <2>3, <2>4
<1>8. /\ Extend(below, more) \in Seq(Concept) /\ ToSet(Extend(below, more)) = ToSet(below) \cup ToSet(more)
      /\ Begins(below, Extend(below, more)) /\ IsInjective(Extend(below, more))
  BY <1>3, <1>6, Extended
<1>9. Begins(near, Extend(below, more))
  <2>1. Len(near) \in Nat /\ Len(below) \in Nat /\ Len(Extend(below, more)) \in Nat
    BY <1>2, <1>3, <1>8, LenProperties
  <2> QED
    BY <1>3, <1>8, <2>1, BeginsThen
<1>10. CASE related
  <2>1. ShouldMatch(g, id, related) = Below(g, Near(g, id), MaxDepth) \cup ToSet(more)
    BY <1>7, <1>10, Zenon DEF ShouldMatch
  <2> QED
    BY <1>3, <1>4, <1>8, <1>9, <1>10, <2>1 DEF all, near, exact
<1>11. CASE ~ related
  <2>1. ShouldMatch(g, id, related) = Below(g, Near(g, id), MaxDepth)
    BY <1>11 DEF ShouldMatch
  <2> QED
    BY <1>3, <1>4, <1>11, <2>1 DEF all, near, exact
<1> QED
  BY <1>10, <1>11

-----------------------------------------------------------------------------
(* What is cut off is what was found last. *)

IsFront(r, t, n) == Len(r) = n /\ \A i \in 1 .. n : r[i] = t[i]

LEMMA CutOff ==
  ASSUME NEW S, NEW t \in Seq(S), NEW n \in 0 .. Len(t)
  PROVE  SubSeq(t, 1, n) \in Seq(S) /\ IsFront(SubSeq(t, 1, n), t, n)
<1>1. Len(t) \in Nat /\ n \in Nat /\ n <= Len(t) /\ \A i \in 1 .. Len(t) : t[i] \in S
  OBVIOUS
<1>2. \A i \in 1 .. n : t[i] \in S
  BY <1>1
<1>3. PICK one \in Int : one = 1
  OBVIOUS
<1>4. /\ SubSeq(t, one, n) \in Seq(S)
      /\ Len(SubSeq(t, one, n)) = IF one <= n THEN n - one + 1 ELSE 0
      /\ \A i \in 1 .. n - one + 1 : SubSeq(t, one, n)[i] = t[one + i - 1]
  BY <1>1, <1>2, <1>3, SubSeqProperties
<1>5. \A i \in 1 .. n : i \in 1 .. n - one + 1 /\ one + i - 1 = i
  BY <1>1, <1>3
<1> DEFINE r == SubSeq(t, 1, n)
<1>6. r = SubSeq(t, one, n)
  BY <1>3
<1> HIDE DEF r
<1>7. Len(r) = n
  BY <1>1, <1>3, <1>4, <1>6
<1>8. \A i \in 1 .. n : r[i] = t[i]
  BY <1>4, <1>5, <1>6
<1>9. r \in Seq(S) /\ IsFront(r, t, n)
  BY <1>4, <1>6, <1>7, <1>8, Zenon DEF IsFront
<1> QED
  BY <1>9, Zenon DEF r

LEMMA FrontOrMore ==
  ASSUME NEW S, NEW s \in Seq(S), NEW t \in Seq(S), Begins(s, t), NEW n \in 0 .. Len(t)
  PROVE  ToSet(s) \subseteq ToSet(SubSeq(t, 1, n)) \/ ToSet(SubSeq(t, 1, n)) \subseteq ToSet(s)
<1> DEFINE r == SubSeq(t, 1, n)
<1>1. r \in Seq(S) /\ Len(r) = n /\ \A i \in 1 .. n : r[i] = t[i]
  <2>1. SubSeq(t, 1, n) \in Seq(S) /\ IsFront(SubSeq(t, 1, n), t, n)
    BY CutOff
  <2> QED
    BY <2>1, Zenon DEF IsFront
<1>2. Len(s) \in Nat /\ n \in Nat /\ Len(s) <= Len(t) /\ \A i \in 1 .. Len(s) : t[i] = s[i]
  BY DEF Begins
<1> HIDE DEF r
<1>3. /\ \A x : x \in ToSet(s) <=> \E i \in 1 .. Len(s) : s[i] = x
      /\ \A x : x \in ToSet(r) <=> \E i \in 1 .. n : r[i] = x
  BY <1>1, Listed
<1>4. CASE Len(s) <= n
  <2>1. \A i \in 1 .. Len(s) : i \in 1 .. n /\ r[i] = s[i]
    BY <1>1, <1>2, <1>4
  <2>2. ToSet(s) \subseteq ToSet(r)
    BY <1>3, <2>1, Zenon
  <2> QED
    BY <2>2 DEF r
<1>5. CASE n < Len(s)
  <2>1. \A i \in 1 .. n : i \in 1 .. Len(s) /\ r[i] = s[i]
    BY <1>1, <1>2, <1>5
  <2>2. ToSet(r) \subseteq ToSet(s)
    BY <1>3, <2>1, Zenon
  <2> QED
    BY <2>2 DEF r
<1> QED
  BY <1>2, <1>4, <1>5

(* In every graph. *)
LEMMA ExpandIsRight ==
  ASSUME NEW g, GraphOK(g), NEW id \in Concept, NEW related \in BOOLEAN
  PROVE  ExpandedRight(g, id, related)
<1> DEFINE exact == ExactClosure(g, id)
           near == WithClose(g, exact)
           t == Uncapped(g, id, related)
           n == Min({MaxResults, Len(t)})
           r == Expand(g, id, related)
           all == ShouldMatch(g, id, related)
<1>1. /\ exact \in Seq(Concept) /\ ToSet(exact) = Same(g, id)
      /\ Len(exact) # 0 /\ exact[1] = id
  BY ExactFindsSame
<1>2. near \in Seq(Concept) /\ ToSet(near) = Near(g, id) /\ Begins(exact, near)
  BY CloseFindsNear
<1>3. t \in Seq(Concept) /\ IsInjective(t) /\ ToSet(t) = all /\ Begins(near, t)
  BY UncappedFindsAll
<1>4. r = SubSeq(t, 1, n)
  BY DEF Expand
<1> HIDE DEF exact, near, t, r, all
<1>5. Len(exact) \in Nat /\ Len(near) \in Nat /\ Len(t) \in Nat /\ MaxResults \in Nat /\ MaxResults # 0
  BY <1>1, <1>2, <1>3, LenProperties, ConceptAssumption
<1>6. Begins(exact, t)
  BY <1>2, <1>3, <1>5, BeginsThen
<1>7. n \in Nat /\ n <= MaxResults /\ n <= Len(t) /\ (n = MaxResults \/ n = Len(t))
  BY <1>5, LesserOfTwo
<1> HIDE DEF n
<1>8. n \in 0 .. Len(t) /\ Len(t) # 0 /\ n # 0 /\ t[1] = id
  BY <1>1, <1>5, <1>6, <1>7 DEF Begins
<1>9. r \in Seq(Concept) /\ Len(r) = n /\ \A i \in 1 .. n : r[i] = t[i]
  <2>1. SubSeq(t, 1, n) \in Seq(Concept) /\ IsFront(SubSeq(t, 1, n), t, n)
    BY <1>3, <1>8, CutOff
  <2> QED
    BY <1>4, <2>1, Zenon DEF IsFront
<1>10. r[1] = id
  BY <1>7, <1>8, <1>9
<1>11. IsInjective(r)
  <2>1. DOMAIN r = 1 .. n /\ DOMAIN t = 1 .. Len(t) /\ 1 .. n \subseteq 1 .. Len(t)
    BY <1>3, <1>5, <1>7, <1>9
  <2> QED
    BY <1>3, <1>9, <2>1 DEF IsInjective
<1>12. Cardinality(all) = Len(t)
  BY <1>3, ListSize
<1>13. CASE Cardinality(all) <= MaxResults
  <2>1. n = Len(t)
    BY <1>5, <1>7, <1>12, <1>13
  <2>2. r = t
    BY <1>3, <1>9, <2>1, SeqEqual
  <2>3. ToSet(r) = all
    BY <1>3, <2>2
  <2> QED
    BY <1>10, <1>11, <1>13, <2>3, Zenon DEF ExpandedRight, r, all
<1>14. CASE ~ (Cardinality(all) <= MaxResults)
  <2>1. Len(r) = MaxResults
    BY <1>5, <1>7, <1>9, <1>12, <1>14
  <2>2. ToSet(r) \subseteq all
    <3>1. \A x : x \in ToSet(r) <=> \E i \in 1 .. n : r[i] = x
      BY <1>9, Listed
    <3>2. \A x : x \in ToSet(t) <=> \E i \in 1 .. Len(t) : t[i] = x
      BY <1>3, Listed
    <3>3. \A i \in 1 .. n : i \in 1 .. Len(t)
      BY <1>5, <1>7
    <3> QED
      BY <1>3, <1>9, <3>1, <3>2, <3>3
  <2>3. ToSet(near) \subseteq ToSet(r) \/ ToSet(r) \subseteq ToSet(near)
    BY <1>2, <1>3, <1>4, <1>8, FrontOrMore
  <2>4. ToSet(exact) \subseteq ToSet(r) \/ ToSet(r) \subseteq ToSet(exact)
    BY <1>1, <1>3, <1>4, <1>6, <1>8, FrontOrMore
  <2> QED
    BY <1>1, <1>2, <1>10, <1>11, <1>14, <2>1, <2>2, <2>3, <2>4, Zenon DEF ExpandedRight, r, all
<1> QED
  BY <1>13, <1>14

(* The graphs that are built have exact matches both ways. *)
LEMMA PairsType ==
  ASSUME NEW mappings, \A m \in mappings : m.from \in Concept /\ m.to \subseteq Concept, NEW r
  PROVE  Pairs(mappings, r) \in SUBSET (Concept \X Concept)
<1> SUFFICES ASSUME NEW m \in mappings, m.relation = r, Cardinality(m.to) = 1
             PROVE  <<m.from, CHOOSE t \in m.to : TRUE>> \in Concept \X Concept
  BY DEF Pairs
<1>1. m.from \in Concept /\ m.to \subseteq Concept /\ IsFiniteSet(m.to)
  BY ConceptAssumption, FS_Subset
<1>2. m.to # {}
  BY <1>1, FS_EmptySet
<1>3. (CHOOSE t \in m.to : TRUE) \in m.to
  BY <1>2
<1> QED
  BY <1>1, <1>3

LEMMA HierarchyType ==
  ASSUME NEW known, \A c \in known : c.id \in Concept /\ c.broader \cup c.narrower \subseteq Concept
  PROVE  Hierarchy(known) \in SUBSET (Concept \X Concept)
<1>1. ASSUME NEW a \in Concept PROVE Resolve(known, a) \in Concept
  <2>1. CASE \E c \in known : c.address = a
    <3>1. (CHOOSE c \in known : c.address = a) \in known
      BY <2>1
    <3>2. (CHOOSE c \in known : c.address = a).id \in Concept
      BY <3>1
    <3> QED
      BY <2>1, <3>2 DEF Resolve
  <2>2. CASE ~ \E c \in known : c.address = a
    BY <2>2 DEF Resolve
  <2> QED
    BY <2>1, <2>2
<1>2. ASSUME NEW c \in known
      PROVE  {<<Resolve(known, b), c.id>> : b \in c.broader} \cup {<<c.id, Resolve(known, n)>> : n \in c.narrower}
               \subseteq Concept \X Concept
  <2>1. c.id \in Concept /\ c.broader \subseteq Concept /\ c.narrower \subseteq Concept
    OBVIOUS
  <2> QED
    BY <1>1, <2>1
<1> QED
  BY <1>2 DEF Hierarchy

LEMMA NewGraphOK ==
  ASSUME NEW known, \A c \in known : c.id \in Concept /\ c.broader \cup c.narrower \subseteq Concept,
         NEW mappings, \A m \in mappings : m.from \in Concept /\ m.to \subseteq Concept
  PROVE  GraphOK(NewGraph(known, mappings))
<1> DEFINE CC == Concept \X Concept
           exact == Pairs(mappings, "exactMatch")
           others == Pairs(mappings, "broadMatch") \cup Pairs(mappings, "narrowMatch") \cup Pairs(mappings, "relatedMatch")
           g == NewGraph(known, mappings)
<1>1. \A r : Pairs(mappings, r) \in SUBSET CC
  BY PairsType
<1>2. \A P \in SUBSET CC :
        /\ Reversed(P) \in SUBSET CC /\ Symmetric(P) \in SUBSET CC /\ Proper(P) \in SUBSET CC
        /\ \A x, y \in Concept : <<x, y>> \in Symmetric(P) <=> <<x, y>> \in P \/ <<y, x>> \in P
        /\ \A x, y \in Concept : <<x, y>> \in Proper(P) <=> <<x, y>> \in P /\ x # y
  <2> SUFFICES ASSUME NEW P \in SUBSET CC
               PROVE  /\ Reversed(P) \in SUBSET CC /\ Symmetric(P) \in SUBSET CC /\ Proper(P) \in SUBSET CC
                      /\ \A x, y \in Concept : <<x, y>> \in Symmetric(P) <=> <<x, y>> \in P \/ <<y, x>> \in P
                      /\ \A x, y \in Concept : <<x, y>> \in Proper(P) <=> <<x, y>> \in P /\ x # y
    OBVIOUS
  <2>1. \A p \in P : p[1] \in Concept /\ p[2] \in Concept /\ p = <<p[1], p[2]>>
    OBVIOUS
  <2>2. Reversed(P) \in SUBSET CC
    BY <2>1 DEF Reversed
  <2>3. ASSUME NEW x \in Concept, NEW y \in Concept PROVE <<x, y>> \in Reversed(P) <=> <<y, x>> \in P
    <3>1. ASSUME <<y, x>> \in P PROVE <<x, y>> \in Reversed(P)
      <4>1. PICK p \in P : p = <<y, x>>
        BY <3>1
      <4>2. p[1] = y /\ p[2] = x
        BY <4>1
      <4> QED
        BY <4>2 DEF Reversed
    <3>2. ASSUME <<x, y>> \in Reversed(P) PROVE <<y, x>> \in P
      <4>1. PICK p \in P : <<x, y>> = <<p[2], p[1]>>
        BY <3>2 DEF Reversed
      <4> QED
        BY <2>1, <4>1
    <3> QED
      BY <3>1, <3>2
  <2>4. Symmetric(P) \in SUBSET CC /\ Proper(P) \in SUBSET CC
    BY <2>2 DEF Symmetric, Proper
  <2>5. \A x, y \in Concept : <<x, y>> \in Symmetric(P) <=> <<x, y>> \in P \/ <<y, x>> \in P
    BY <2>3 DEF Symmetric
  <2>6. \A x, y \in Concept : <<x, y>> \in Proper(P) <=> <<x, y>> \in P /\ x # y
    BY DEF Proper
  <2> QED
    BY <2>2, <2>4, <2>5, <2>6
<1>3. Hierarchy(known) \in SUBSET CC
  BY HierarchyType
<1> HIDE DEF CC
<1>4. /\ g.exact = Proper(Symmetric(exact) \ Symmetric(Pairs(mappings, "broadMatch") \cup Pairs(mappings, "narrowMatch")
                                                         \cup Pairs(mappings, "relatedMatch")))
      /\ g.close = Proper(Symmetric(Pairs(mappings, "closeMatch")))
      /\ g.related = Proper(Symmetric(Pairs(mappings, "relatedMatch")))
      /\ g.narrower = Proper(Hierarchy(known) \cup Reversed(Pairs(mappings, "broadMatch"))
                              \cup Pairs(mappings, "narrowMatch"))
  BY DEF NewGraph
<1> HIDE DEF g
<1>5. g.close \in SUBSET CC /\ g.related \in SUBSET CC
  BY <1>1, <1>2, <1>4
<1>6. g.narrower \in SUBSET CC
  <2>1. Hierarchy(known) \cup Reversed(Pairs(mappings, "broadMatch")) \cup Pairs(mappings, "narrowMatch") \in SUBSET CC
    BY <1>1, <1>2, <1>3
  <2> QED
    BY <1>2, <1>4, <2>1
<1>7. exact \in SUBSET CC /\ others \in SUBSET CC /\ g.exact = Proper(Symmetric(exact) \ Symmetric(others))
  BY <1>1, <1>4
<1> HIDE DEF exact, others
<1>8. Symmetric(exact) \ Symmetric(others) \in SUBSET CC
  BY <1>2, <1>7
<1>9. g.exact \in SUBSET CC /\ \A x, y \in Concept : <<x, y>> \in g.exact => <<y, x>> \in g.exact
  BY <1>2, <1>7, <1>8
<1> QED
  BY <1>5, <1>6, <1>9 DEF GraphOK, CC, g

(* In the graph of any of the mappings that relays hold, and of their      *)
(* concepts, the walk finds what the documentation says: every concept     *)
(* reached from the one asked for by exact and close matches and MaxDepth  *)
(* narrowing steps, once, and the nearest first where the list is cut      *)
(* (vocabmap's Expand).                                                    *)
THEOREM ExpandsAsDocumented == Spec => []ExpansionAsDocumented
<1>1. ReadInv => ExpansionAsDocumented
  <2> DEFINE held == UNION Range(remote)
             of(kind) == {n \in held : note[n].kind = kind}
             graph(S) == GraphOf([concepts |-> of("concept"), mappings |-> S])
  <2> SUFFICES ASSUME ReadInv, NEW S \in SUBSET of("mapping"), NEW id \in Concept, NEW related \in BOOLEAN
               PROVE  ExpandedRight(graph(S), id, related)
    BY Zenon DEF ExpansionAsDocumented
  <2>1. held \subseteq Note
    <3>1. remote \in [Relay -> SUBSET Note]
      BY InvHasType DEF ReadInv, RegistryTypeOK
    <3> QED
      BY <3>1 DEF Range
  <2>2. \A c \in {note[n] : n \in of("concept")} : c.id \in Concept /\ c.broader \cup c.narrower \subseteq Concept
    BY <2>1, GraphAssumption
  <2>3. \A m \in {note[n] : n \in S} : m.from \in Concept /\ m.to \subseteq Concept
    BY <2>1, GraphAssumption
  <2>4. graph(S) = NewGraph({note[n] : n \in of("concept")}, {note[n] : n \in S})
    BY DEF GraphOf
  <2>5. GraphOK(graph(S))
    <3>1. PICK C, M : C = {note[n] : n \in of("concept")} /\ M = {note[n] : n \in S}
      OBVIOUS
    <3>2. GraphOK(NewGraph(C, M))
      BY <2>2, <2>3, <3>1, NewGraphOK
    <3> QED
      BY <2>4, <3>1, <3>2, Zenon
  <2> HIDE DEF graph
  <2> QED
    BY <2>5, ExpandIsRight
<1> QED
  BY <1>1, InvHolds, PTL
=============================================================================
