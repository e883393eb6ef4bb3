---------------------------- MODULE Startup_proofs ----------------------------
(***************************************************************************)
(* Theorems about the start: what the backfill's marker vouches for, and   *)
(* what hydration, crashes and publications leave in the raw store, for    *)
(* every set of events and coordinates, every page size and any number of  *)
(* starts, failures and requests.                                          *)
(***************************************************************************)
EXTENDS Startup, FiniteSetTheorems, TLAPS

-----------------------------------------------------------------------------
(* Type correctness. *)

LEMMA FiniteImage ==
  ASSUME NEW S, IsFiniteSet(S), NEW f
  PROVE  IsFiniteSet({f[x] : x \in S})
<1> DEFINE g == [x \in S |-> f[x]]
           T == {f[x] : x \in S}
<1>1. g \in Surjection(S, T)
  BY DEF Surjection
<1> QED
  BY <1>1, FS_Surjection

(* A page holds finitely many documents. *)
LEMMA PageFinite ==
  ASSUME NEW p \in Nat
  PROVE  IsFiniteSet(FetchPage(p)) /\ FetchPage(p) \subseteq Coord
<1> DEFINE I == ((p - 1) * PageSize + 1)..(p * PageSize) \cap DOMAIN Walk
<1>1. (p - 1) * PageSize + 1 \in Int /\ p * PageSize \in Int
  BY StartupAssumption
<1>2. IsFiniteSet(I)
  BY <1>1, FS_Interval, FS_Intersection
<1>3. PageOf(p) = {Walk[i] : i \in I}
  BY DEF PageOf
<1>4. IsFiniteSet(PageOf(p))
  <2> HIDE DEF I
  <2> QED
    BY <1>2, <1>3, FiniteImage
<1>5. FetchPage(p) \in SUBSET PageOf(p)
  BY DEF FetchPage
<1> QED
  BY <1>4, <1>5, FS_Subset DEF FetchPage

LEMMA FailType ==
  ASSUME failures \in 0..MaxFailures, NEW n \in Nat, Fail(n)
  PROVE  failures' \in 0..MaxFailures
  BY StartupAssumption DEF Fail

(* Among few calls finitely many fail. *)
LEMMA FailedCalls ==
  ASSUME NEW S, NEW T \in SUBSET S, IsFiniteSet(S)
  PROVE  IsFiniteSet(T) /\ Cardinality(T) \in Nat
  BY FS_Subset, FS_CardinalityType

LEMMA FewCalls ==
  IsFiniteSet({"raw", "index"}) /\ IsFiniteSet({"mark", "raw", "index"})
<1>1. IsFiniteSet({} \cup {"raw"} \cup {"index"} \cup {"mark"})
  BY FS_EmptySet, FS_AddElement
<1>2. {"raw", "index"} \in SUBSET ({} \cup {"raw"} \cup {"index"} \cup {"mark"})
  OBVIOUS
<1>3. {"mark", "raw", "index"} = {} \cup {"raw"} \cup {"index"} \cup {"mark"}
  OBVIOUS
<1> QED
  BY <1>1, <1>2, <1>3, FS_Subset

ScanType ==
  [pc : {"off", "start", "count", "drain", "events", "end"}, count : Nat, dels : SUBSET Event, dirty : BOOLEAN]

RunType ==
  [del : Event \cup {NoEvent}, left : SUBSET Coord, pc : {"idle", "coords", "list", "purge"},
   coord : Coord \cup {NoCoord}, targets : SUBSET Event]

(* Where a run of applyCoordDeletions is.                                  *)
RunOK(q) ==
  /\ q \in RunType
  /\ q.pc # "idle" => q.del \in Event /\ q.left \subseteq SameAuthorCoords(q.del)
  /\ q.pc \in {"list", "purge"} => q.coord \in SameAuthorCoords(q.del)
  /\ q.pc # "purge" => q.targets = {}
  /\ q.targets \subseteq Addressable

(* Finitely many rows; a version stands under the id of a version, a       *)
(* deletion request under its own.                                         *)
RowsOK(rs) ==
  /\ rs \in SUBSET Row /\ IsFiniteSet(rs)
  /\ \A r \in rs : IF IsDeletion(r.body) THEN r.id = r.body ELSE IsAddressable(r.id)

StartInv ==
  /\ StartupTypeOK
  /\ RowsOK(rows)
  /\ \A a \in Runner : RunOK(run[a])

LEMMA PageRows ==
  ASSUME StartupTypeOK, NEW ds \in SUBSET FetchPage(page)
  PROVE  RowsOK(CanonicalRows(ds)) /\ RowsOK(MissingRows(ds))
<1>1. IsFiniteSet(ds) /\ ds \subseteq Coord
  BY PageFinite, FS_Subset DEF StartupTypeOK
<1>2. \A c \in ds : index[c].id \in Addressable /\ index[c].raw \in Addressable
  BY <1>1 DEF FetchPage, StartupTypeOK, NoEntry
<1>3. \A r \in CanonicalRows(ds) \cup MissingRows(ds) :
        r \in Row /\ IsAddressable(r.id) /\ IsAddressable(r.body)
  BY <1>2 DEF CanonicalRows, MissingRows, Row, RowOf, Addressable
<1>4. IsFiniteSet(CanonicalRows(ds))
  <2> DEFINE f == [c \in ds |-> RowOf(index[c].raw)]
  <2>1. CanonicalRows(ds) = {f[c] : c \in ds}
    BY DEF CanonicalRows
  <2> HIDE DEF f
  <2> QED
    BY <1>1, <2>1, FiniteImage
<1>5. IsFiniteSet(MissingRows(ds))
  <2> DEFINE missing == {d \in ds : \A r \in rows : r.id # index[d].id}
             f == [c \in ds |-> [id |-> index[c].id, body |-> index[c].raw]]
  <2>1. MissingRows(ds) = {f[c] : c \in missing}
    BY DEF MissingRows
  <2>2. IsFiniteSet(missing)
    BY <1>1, FS_Subset
  <2> HIDE DEF f, missing
  <2> QED
    BY <2>1, <2>2, FiniteImage
<1> QED
  BY <1>3, <1>4, <1>5 DEF RowsOK, IsDeletion

(* A hydration walk reads its page and adds rows, or ends.                 *)
LEMMA HydrationType ==
  ASSUME StartInv, Hydration
  PROVE  StartInv'
<1> USE DEF StartInv
<1>1. ASSUME EndHydration \/ \E n \in Nat : NextPage(n)
      PROVE  /\ page' \in Nat /\ phase' \in {"down", "hydrate", "verify", "serve"}
             /\ scan' \in [pc : {"off", "start", "count", "drain", "events", "end"}, count : Nat,
                           dels : SUBSET Event, dirty : BOOLEAN]
  <2>1. CASE EndHydration
    <3>1. NoScan \in ScanType /\ [NoScan EXCEPT !.pc = "start"] \in ScanType
      BY DEF NoScan, ScanType
    <3> QED
      BY <2>1, <3>1 DEF EndHydration, ScanType
  <2>2. ASSUME NEW n \in Nat, NextPage(n), ~ EndHydration
        PROVE  page' \in Nat /\ phase' \in {phase, "verify"} /\ UNCHANGED scan
    BY <2>2, StartupAssumption DEF NextPage, StartupTypeOK
  <2> QED
    BY <1>1, <2>1, <2>2 DEF StartupTypeOK
<1>2. CASE HydratePage
  <2> DEFINE docs == FetchPage(page)
             new(ds) == IF phase = "hydrate" THEN CanonicalRows(ds) ELSE MissingRows(ds)
  <2>1. PICK failed \in SUBSET docs :
          /\ Fail(Cardinality(failed))
          /\ hydrated' = (hydrated /\ failed = {})
          /\ rows' = SavedRows(Admitted(new(docs \ failed)))
          /\ NextPage(Cardinality(docs))
    BY <1>2 DEF HydratePage
  <2>2. IsFiniteSet(docs) /\ Cardinality(docs) \in Nat /\ Cardinality(failed) \in Nat
    BY PageFinite, FailedCalls DEF StartupTypeOK
  <2>3. failures' \in 0..MaxFailures
    BY <2>1, <2>2, FailType DEF StartupTypeOK
  <2>4. RowsOK(new(docs \ failed))
    BY PageRows
  <2>5. RowsOK(rows')
    <3> DEFINE rs == new(docs \ failed)
    <3> HIDE DEF new
    <3>1. Admitted(rs) \in SUBSET rs
      BY DEF Admitted
    <3>2. SavedRows(Admitted(rs)) = rows \cup {r \in Admitted(rs) : \A s \in rows : s.id # r.id}
      BY DEF SavedRows
    <3>3. {r \in Admitted(rs) : \A s \in rows : s.id # r.id} \in SUBSET rs
      BY <3>1
    <3>4. RowsOK({r \in Admitted(rs) : \A s \in rows : s.id # r.id})
      BY <2>4, <3>3, FS_Subset DEF RowsOK
    <3> DEFINE more == {r \in Admitted(rs) : \A s \in rows : s.id # r.id}
    <3>5. IsFiniteSet(rows \cup more)
      BY <3>4, FS_Union DEF RowsOK
    <3>6. rows' = rows \cup more
      BY <2>1, <3>2
    <3> HIDE DEF more, rs
    <3> QED
      BY <3>4, <3>5, <3>6 DEF RowsOK, more
  <2>6. orphans' \in SUBSET Event
    <3>1. \A r \in rows' : r.id \in Event
      BY <2>5 DEF RowsOK, Row, Addressable
    <3>2. orphans' = orphans \/ orphans' = orphans \cup {r.id : r \in {s \in rows' \ rows : RowTombstoned(s)}}
      BY <1>2 DEF HydratePage
    <3>3. orphans \in SUBSET Event
      BY DEF StartupTypeOK
    <3> QED
      BY <3>1, <3>2, <3>3
  <2> QED
    BY <1>1, <1>2, <2>1, <2>2, <2>3, <2>5, <2>6
       DEF HydratePage, StartupTypeOK, GateTypeOK, gateVars, RowsOK
<1>3. CASE FetchFails
  BY <1>1, <1>3, FailType DEF FetchFails, StartupTypeOK, GateTypeOK, gateVars, historyVars
<1> QED
  BY <1>2, <1>3 DEF Hydration

LEMMA OwnCoords ==
  ASSUME NEW d \in Event
  PROVE  SameAuthorCoords(d) \in SUBSET Coord
  BY EventAssumption DEF SameAuthorCoords

LEMMA NoRunOK == RunOK(NoRun)
  BY DEF NoRun, RunType, RunOK

(* Runner a moves to q.                                                    *)
LEMMA RunMoves ==
  ASSUME StartInv, NEW a \in Runner, NEW q, RunOK(q), run' = [run EXCEPT ![a] = q]
  PROVE  /\ run' \in [Runner -> RunType]
         /\ \A b \in Runner : RunOK(run'[b])
<1>1. run \in [Runner -> RunType]
  BY DEF StartInv, StartupTypeOK, RunType
<1>2. \A b \in Runner : run'[b] = IF b = a THEN q ELSE run[b]
  BY <1>1
<1> QED
  BY <1>1, <1>2 DEF StartInv, RunOK

LEMMA StartRunOK ==
  ASSUME NEW d \in Event
  PROVE  RunOK([NoRun EXCEPT !.del = d, !.left = SameAuthorCoords(d), !.pc = "coords"])
  BY OwnCoords DEF NoRun, RunType, RunOK

LEMMA TombstoneType ==
  ASSUME GateTypeOK, NEW c \in Coord, NEW d \in Event, MarkCoordDeleted(c, createdAt[d])
  PROVE  GateTypeOK'
<1>1. createdAt[d] \in Nat
  BY EventAssumption
<1> QED
  BY <1>1 DEF MarkCoordDeleted, GateTypeOK

(* The next coordinate of a request.                                       *)
LEMMA NextCoordType ==
  ASSUME StartInv, NEW a \in Runner, NextCoord(a)
  PROVE  StartInv'
<1>0. RunOK(run[a]) /\ run[a].pc = "coords" /\ StartupTypeOK /\ RowsOK(rows)
  BY DEF StartInv, NextCoord
<1>1. CASE EndRun(a) /\ UNCHANGED <<scan, gateVars, failures>>
  <2>1. run' \in [Runner -> RunType] /\ \A b \in Runner : RunOK(run'[b])
    BY <1>1, NoRunOK, RunMoves DEF EndRun
  <2>2. GateTypeOK'
    BY <1>0, <1>1 DEF StartupTypeOK, GateTypeOK, gateVars
  <2>3. RowsOK(rows') /\ UNCHANGED <<rows, index, marker, procVars, cancelled, queue, boots, requests, historyVars>>
    BY <1>0 DEF NextCoord
  <2> QED
    BY <1>0, <1>1, <2>1, <2>2, <2>3 DEF StartInv, StartupTypeOK, procVars, historyVars, RunType
<1>2. ASSUME NEW c \in run[a].left,
             run' = [run EXCEPT ![a].left = @ \ {c}, ![a].coord = c, ![a].pc = "list"],
             \/ MarkCoordDeleted(c, createdAt[run[a].del]) /\ UNCHANGED <<scan, failures>>
             \/ Fail(1) /\ Counted(a, TRUE) /\ UNCHANGED gateVars
      PROVE  StartInv'
  <2> DEFINE q == [run[a] EXCEPT !.left = @ \ {c}, !.coord = c, !.pc = "list"]
  <2>1. c \in Coord /\ run[a].del \in Event
    BY <1>0, OwnCoords DEF RunOK
  <2>2. RunOK(q)
    BY <1>0, <2>1 DEF RunOK, RunType
  <2>3. run' \in [Runner -> RunType] /\ \A b \in Runner : RunOK(run'[b])
    <3>1. run' = [run EXCEPT ![a] = q]
      BY <1>2
    <3> QED
      BY <2>2, <3>1, RunMoves
  <2>4. CASE MarkCoordDeleted(c, createdAt[run[a].del]) /\ UNCHANGED <<scan, failures>>
    <3>1. GateTypeOK'
      BY <1>0, <2>1, <2>4, TombstoneType DEF StartupTypeOK
    <3>2. RowsOK(rows') /\ UNCHANGED <<rows, index, marker, procVars, cancelled, queue, boots, requests, historyVars>>
      BY <1>0 DEF NextCoord
    <3> QED
      BY <1>0, <2>3, <2>4, <3>1, <3>2 DEF StartInv, StartupTypeOK, procVars, historyVars, RunType
  <2>5. CASE Fail(1) /\ Counted(a, TRUE) /\ UNCHANGED gateVars
    <3>1. scan' \in ScanType /\ failures' \in 0..MaxFailures
      BY <1>0, <2>5, FailType DEF Counted, StartupTypeOK, ScanType
    <3> QED
      BY <1>0, <2>3, <2>5, <3>1
         DEF NextCoord, StartInv, StartupTypeOK, GateTypeOK, gateVars, procVars, historyVars, RunType, ScanType
  <2> QED
    BY <1>2, <2>4, <2>5
<1> QED
  BY <1>1, <1>2 DEF NextCoord

(* Listing and purging the versions of a coordinate.                       *)
LEMMA ListedIds ==
  ASSUME StartupTypeOK, NEW d, NEW c, RowsOK(rows)
  PROVE  /\ StoredVersions(d, c) \in SUBSET Addressable
         /\ IndexedVersions(d, c) \in SUBSET Addressable
<1>1. StoredVersions(d, c) \in SUBSET Addressable
  BY DEF StoredVersions, CoveredBy, Addressable, RowsOK, Row, IsDeletion
<1>2. ASSUME NEW k \in Coord, index[k].raw \in Event PROVE index[k].id \in Addressable
  BY <1>2, EventAssumption DEF StartupTypeOK, NoEntry
<1>3. IndexedVersions(d, c) \in SUBSET Addressable
  BY <1>2 DEF IndexedVersions, CoveredBy, Addressable
<1> QED
  BY <1>1, <1>3

LEMMA ListVersionsType ==
  ASSUME StartInv, NEW a \in Runner, ListVersions(a)
  PROVE  StartInv'
<1> DEFINE stored == StoredVersions(run[a].del, run[a].coord)
           indexed == IndexedVersions(run[a].del, run[a].coord)
           found(cut) == (IF "raw" \in cut THEN {} ELSE stored) \cup (IF "index" \in cut THEN {} ELSE indexed)
<1>0. RunOK(run[a]) /\ run[a].pc = "list" /\ StartupTypeOK /\ RowsOK(rows)
  BY DEF StartInv, ListVersions
<1>1. stored \in SUBSET Addressable /\ indexed \in SUBSET Addressable
  BY <1>0, ListedIds
<1>2. PICK cut \in SUBSET {"raw", "index"} :
        /\ Fail(Cardinality(cut))
        /\ run' = [run EXCEPT ![a].pc = "purge", ![a].targets = found(cut)]
        /\ orphans' = orphans \cup (stored \ run'[a].targets)
  BY DEF ListVersions
<1>3. failures' \in 0..MaxFailures
  BY <1>0, <1>2, FewCalls, FailedCalls, FailType DEF StartupTypeOK
<1> DEFINE q == [run[a] EXCEPT !.pc = "purge", !.targets = found(cut)]
<1>4. RunOK(q)
  <2>1. found(cut) \in SUBSET Addressable /\ found(cut) \in SUBSET Event
    BY <1>1 DEF Addressable
  <2> HIDE DEF found
  <2> QED
    BY <1>0, <2>1 DEF RunOK, RunType
<1>5. run' \in [Runner -> RunType] /\ \A b \in Runner : RunOK(run'[b])
  <2>1. run' = [run EXCEPT ![a] = q]
    BY <1>2
  <2> HIDE DEF q
  <2> QED
    BY <1>4, <2>1, RunMoves
<1>6. orphans' \in SUBSET Event
  BY <1>0, <1>1, <1>2 DEF StartupTypeOK, Addressable
<1> QED
  BY <1>0, <1>3, <1>5, <1>6
     DEF ListVersions, StartInv, StartupTypeOK, GateTypeOK, gateVars, procVars, RunType

LEMMA PurgeNextType ==
  ASSUME StartInv, NEW a \in Runner, PurgeNext(a)
  PROVE  StartInv'
<1>0. RunOK(run[a]) /\ run[a].pc = "purge" /\ StartupTypeOK /\ RowsOK(rows)
  BY DEF StartInv, PurgeNext
<1>1. CASE run[a].targets = {} /\ run' = [run EXCEPT ![a].pc = "coords", ![a].coord = NoCoord]
             /\ UNCHANGED <<gateVars, rows, index, scan, failures, orphans>>
  <2> DEFINE q == [run[a] EXCEPT !.pc = "coords", !.coord = NoCoord]
  <2>1. RunOK(q) /\ run' = [run EXCEPT ![a] = q]
    BY <1>0, <1>1 DEF RunOK, RunType
  <2>2. run' \in [Runner -> RunType] /\ \A b \in Runner : RunOK(run'[b])
    BY <2>1, RunMoves
  <2> QED
    BY <1>0, <1>1, <2>2 DEF PurgeNext, StartInv, StartupTypeOK, GateTypeOK, gateVars, procVars, RunType
<1>2. ASSUME NEW e \in run[a].targets, NEW bad \in SUBSET {"mark", "raw", "index"},
             Fail(Cardinality(bad)),
             run' = [run EXCEPT ![a].targets = @ \ {e}],
             IF "mark" \in bad THEN UNCHANGED gateVars ELSE MarkEventDeleted(e),
             rows' = IF "raw" \in bad THEN rows ELSE {r \in rows : r.id # e},
             orphans' = IF "raw" \in bad THEN orphans \cup {e} ELSE orphans,
             index' = IF "index" \in bad THEN index
                      ELSE [c \in Coord |-> IF index[c].id = e THEN NoEntry ELSE index[c]],
             Counted(a, "index" \in bad)
      PROVE  StartInv'
  <2> DEFINE q == [run[a] EXCEPT !.targets = @ \ {e}]
  <2>1. RunOK(q) /\ run' = [run EXCEPT ![a] = q] /\ e \in Event
    BY <1>0, <1>2 DEF RunOK, RunType
  <2>2. run' \in [Runner -> RunType] /\ \A b \in Runner : RunOK(run'[b])
    BY <2>1, RunMoves
  <2>3. RowsOK(rows')
    BY <1>0, <1>2, FS_Subset DEF RowsOK
  <2>4. GateTypeOK'
    BY <1>0, <1>2, <2>1 DEF MarkEventDeleted, GateTypeOK, gateVars, StartupTypeOK
  <2>5. index' \in [Coord -> {NoEntry} \cup [id : Addressable, raw : Addressable \cup {NoEvent}]]
    BY <1>0, <1>2 DEF StartupTypeOK
  <2>6. scan' \in ScanType
    BY <1>0, <1>2 DEF Counted, ScanType, StartupTypeOK
  <2>7. failures' \in 0..MaxFailures
    <3>1. Cardinality(bad) \in Nat
      BY FewCalls, FailedCalls
    <3>2. failures \in 0..MaxFailures
      BY <1>0 DEF StartupTypeOK
    <3> QED
      BY <1>2, <3>1, <3>2, FailType
  <2>8. orphans' \in SUBSET Event
    BY <1>0, <1>2, <2>1 DEF StartupTypeOK
  <2> QED
    BY <1>0, <2>2, <2>3, <2>4, <2>5, <2>6, <2>7, <2>8
       DEF PurgeNext, StartInv, StartupTypeOK, procVars, RunType, ScanType, RowsOK
<1> QED
  BY <1>1, <1>2 DEF PurgeNext

(* The steps of the scan itself.                                           *)
LEMMA ScanOnlyType ==
  ASSUME StartInv, scan' \in ScanType, failures' \in 0..MaxFailures,
         run' \in [Runner -> RunType], \A b \in Runner : RunOK(run'[b]),
         marker' \in BOOLEAN, misled' \in BOOLEAN, atScan' \in SUBSET Event,
         UNCHANGED scanOnly
  PROVE  StartInv'
  BY DEF scanOnly, StartInv, StartupTypeOK, GateTypeOK, gateVars, procVars, RunType, ScanType

LEMMA DeletionRowsFinite ==
  ASSUME RowsOK(rows)
  PROVE  DeletionRows \in SUBSET Event /\ IsFiniteSet(DeletionRows)
<1> DEFINE ds == {s \in rows : IsDeletion(s.body)}
           f == [r \in ds |-> r.body]
<1>1. IsFiniteSet(ds)
  BY FS_Subset DEF RowsOK
<1>2. DeletionRows = {f[r] : r \in ds}
  BY DEF DeletionRows
<1>3. IsFiniteSet(DeletionRows)
  <2> HIDE DEF ds, f
  <2> QED
    BY <1>1, <1>2, FiniteImage
<1> QED
  BY <1>3 DEF DeletionRows, RowsOK, Row

LEMMA ScanStepType ==
  ASSUME StartInv,
         \/ CheckMarker \/ CountDeletions \/ DrainDeletions \/ NextDeletion \/ MarkComplete \/ ScanFails
  PROVE  StartInv'
<1>0. /\ StartupTypeOK /\ RowsOK(rows) /\ scan \in ScanType /\ NoScan \in ScanType
      /\ run \in [Runner -> RunType] /\ \A b \in Runner : RunOK(run[b])
      /\ marker \in BOOLEAN /\ misled \in BOOLEAN /\ atScan \in SUBSET Event
      /\ failures \in 0..MaxFailures
  BY DEF StartInv, StartupTypeOK, ScanType, RunType, NoScan
<1>1. CASE CheckMarker
  <2>1. scan' \in ScanType
    BY <1>0, <1>1 DEF CheckMarker, ScanType
  <2> QED
    BY <1>0, <1>1, <2>1, ScanOnlyType DEF CheckMarker
<1>2. CASE CountDeletions
  <2>1. Cardinality(DeletionRows) \in Nat
    BY <1>0, DeletionRowsFinite, FS_CardinalityType
  <2>2. scan' \in ScanType
    BY <1>0, <1>2, <2>1 DEF CountDeletions, ScanType
  <2> QED
    BY <1>0, <1>2, <2>2, ScanOnlyType DEF CountDeletions
<1>3. CASE DrainDeletions
  <2>1. PICK ds \in CutReads :
          /\ Fail(IF ds = DeletionRows THEN 0 ELSE 1)
          /\ scan' = IF Agrees(ds) THEN [scan EXCEPT !.pc = "events", !.dels = ds] ELSE NoScan
          /\ misled' = (misled \/ (~ marker /\ scan.count = Cardinality(ds) /\ ds # DeletionRows))
    BY <1>3 DEF DrainDeletions
  <2>2. ds \in SUBSET Event /\ DeletionRows \in SUBSET Event
    BY <1>0, DeletionRowsFinite DEF CutReads
  <2>3. scan' \in ScanType
    BY <1>0, <2>1, <2>2 DEF ScanType
  <2>4. failures' \in 0..MaxFailures
    <3> DEFINE n == IF ds = DeletionRows THEN 0 ELSE 1
    <3>1. n \in Nat
      OBVIOUS
    <3>2. Fail(n)
      BY <2>1
    <3>3. failures \in 0..MaxFailures
      BY <1>0
    <3> HIDE DEF n
    <3> QED
      BY <3>1, <3>2, <3>3, FailType
  <2> QED
    BY <1>0, <1>3, <2>1, <2>2, <2>3, <2>4, ScanOnlyType DEF DrainDeletions
<1>4. CASE NextDeletion
  <2>1. CASE UNCHANGED run
    <3>1. scan' \in ScanType
      <4>1. NoScan \in ScanType /\ [scan EXCEPT !.pc = "end"] \in ScanType
        BY <1>0 DEF NoScan, ScanType
      <4>2. \A d \in scan.dels : [scan EXCEPT !.dels = @ \ {d}] \in ScanType
        BY <1>0 DEF ScanType
      <4> QED
        BY <1>4, <4>1, <4>2 DEF NextDeletion
    <3> QED
      BY <1>0, <1>4, <2>1, <3>1, ScanOnlyType DEF NextDeletion
  <2>2. ASSUME NEW d \in scan.dels, scan' = [scan EXCEPT !.dels = @ \ {d}], StartRun("backfill", d)
        PROVE  StartInv'
    <3> DEFINE q == [NoRun EXCEPT !.del = d, !.left = SameAuthorCoords(d), !.pc = "coords"]
    <3>1. d \in Event /\ scan' \in ScanType
      BY <1>0, <2>2 DEF ScanType
    <3>2. RunOK(q) /\ run' = [run EXCEPT !["backfill"] = q]
      BY <2>2, <3>1, StartRunOK DEF StartRun
    <3>3. run' \in [Runner -> RunType] /\ \A b \in Runner : RunOK(run'[b])
      BY <3>2, RunMoves DEF Runner
    <3> QED
      BY <1>0, <1>4, <3>1, <3>3, ScanOnlyType DEF NextDeletion
  <2> QED
    BY <1>4, <2>1, <2>2 DEF NextDeletion
<1>5. CASE MarkComplete
  BY <1>0, <1>5, ScanOnlyType DEF MarkComplete
<1>6. CASE ScanFails
  <2>1. failures' \in 0..MaxFailures
    BY <1>0, <1>6, FailType DEF ScanFails
  <2> QED
    BY <1>0, <1>6, <2>1, ScanOnlyType DEF ScanFails
<1> QED
  BY <1>1, <1>2, <1>3, <1>4, <1>5, <1>6

(* Publications, queued writes, signals, stops and starts.                 *)
LEMMA PublishType ==
  ASSUME StartInv, NEW e \in Event, Publish(e)
  PROVE  StartInv'
<1>0. StartupTypeOK /\ RowsOK(rows) /\ run \in [Runner -> RunType] /\ \A b \in Runner : RunOK(run[b])
  BY DEF StartInv, StartupTypeOK, RunType
<1>1. run' \in [Runner -> RunType] /\ \A b \in Runner : RunOK(run'[b])
  <2> DEFINE q == [NoRun EXCEPT !.del = e, !.left = SameAuthorCoords(e), !.pc = "coords"]
  <2>1. CASE StartRun("live", e)
    <3>1. RunOK(q) /\ run' = [run EXCEPT !["live"] = q]
      BY <2>1, StartRunOK DEF StartRun
    <3> QED
      BY <3>1, RunMoves DEF Runner
  <2> QED
    BY <1>0, <2>1 DEF Publish
<1>2. queue' \in Seq(Event)
  BY <1>0 DEF Publish, StartupTypeOK
<1>3. requests' \in 0..MaxRequests
  BY <1>0, StartupAssumption DEF Publish, StartupTypeOK
<1> QED
  BY <1>0, <1>1, <1>2, <1>3
     DEF Publish, StartInv, StartupTypeOK, GateTypeOK, gateVars, procVars, historyVars, RunType

LEMMA WriteQueuedType ==
  ASSUME StartInv, WriteQueued
  PROVE  StartInv'
<1> DEFINE e == Head(queue)
<1>0. StartupTypeOK /\ RowsOK(rows)
  BY DEF StartInv
<1>1. queue' \in Seq(Event) /\ e \in Event
  BY <1>0 DEF WriteQueued, StartupTypeOK
<1>2. RowsOK(rows')
  <2>1. PICK kept \in SUBSET rows : rows' \in {kept, kept \cup {RowOf(e)}}
    <3>1. CASE UNCHANGED rows
      BY <3>1
    <3>2. CASE ~ UNCHANGED rows
      <4> DEFINE older == {r \in rows : IsAddressable(e) /\ coordOf[r.body] = coordOf[e] /\ IsOlder(r.body, e)}
                 newer == \E r \in rows \ older : IsAddressable(e) /\ coordOf[r.body] = coordOf[e]
      <4>1. rows' = (rows \ older) \cup (IF newer THEN {} ELSE {RowOf(e)})
        BY <3>2 DEF WriteQueued
      <4>2. rows \ older \in SUBSET rows
        OBVIOUS
      <4> HIDE DEF older, newer, e
      <4> QED
        BY <4>1, <4>2
    <3> QED
      BY <3>1, <3>2
  <2>2. RowsOK(kept)
    BY <1>0, FS_Subset DEF RowsOK
  <2>3. IsFiniteSet(kept \cup {RowOf(e)})
    BY <2>2, FS_AddElement DEF RowsOK
  <2>4. RowsOK(kept \cup {RowOf(e)})
    BY <1>1, <2>2, <2>3 DEF RowsOK, Row, RowOf, IsDeletion
  <2> QED
    BY <2>1, <2>2, <2>4
<1>3. index' \in [Coord -> {NoEntry} \cup [id : Addressable, raw : Addressable \cup {NoEvent}]]
  <2>1. IsAddressable(e) => e \in Addressable
    BY <1>1 DEF Addressable
  <2>2. CASE UNCHANGED index
    BY <1>0, <2>2 DEF StartupTypeOK
  <2>3. CASE IsAddressable(e) /\ index' = [index EXCEPT ![coordOf[e]] = [id |-> e, raw |-> e]]
    BY <1>0, <2>1, <2>3 DEF StartupTypeOK
  <2> QED
    BY <2>2, <2>3 DEF WriteQueued
<1> QED
  BY <1>0, <1>1, <1>2, <1>3
     DEF WriteQueued, StartInv, StartupTypeOK, GateTypeOK, gateVars, procVars, boundVars, historyVars, RowsOK

LEMMA ProcessType ==
  ASSUME StartInv, Signal \/ Stop \/ Boot
  PROVE  StartInv'
<1>0. StartupTypeOK /\ RowsOK(rows)
  BY DEF StartInv
<1>1. NoScan \in ScanType /\ [NoScan EXCEPT !.pc = "start"] \in ScanType
  BY DEF NoScan, ScanType
<1>2. CASE Signal
  BY <1>0, <1>2
     DEF Signal, StartInv, StartupTypeOK, GateTypeOK, gateVars, procVars, boundVars, historyVars
<1>3. CASE Stop
  <2>1. run' \in [Runner -> RunType] /\ \A b \in Runner : RunOK(run'[b])
    BY <1>3, NoRunOK DEF Stop, RunOK
  <2>2. orphans' \in SUBSET Event
    <3>1. ASSUME NEW a \in Runner PROVE InHandOf(a) \in SUBSET Event
      <4>1. RunOK(run[a])
        BY DEF StartInv
      <4>2. run[a].targets \in SUBSET Event /\ StoredVersions(run[a].del, run[a].coord) \in SUBSET Event
        BY <1>0, <4>1, ListedIds DEF RunOK, Addressable
      <4> QED
        BY <4>2 DEF InHandOf
    <3> QED
      BY <1>0, <1>3, <3>1 DEF Stop, StartupTypeOK
  <2>3. scan' \in ScanType
    BY <1>1, <1>3 DEF Stop
  <2>4. page' \in Nat /\ phase' = "down" /\ queue' \in Seq(Event)
    BY <1>3 DEF Stop
  <2> QED
    BY <1>0, <1>3, <2>1, <2>2, <2>3, <2>4
       DEF Stop, StartInv, StartupTypeOK, GateTypeOK, gateVars, boundVars, ScanType, RunType
<1>4. CASE Boot
  <2>1. scan' = scan \/ scan' = [NoScan EXCEPT !.pc = "start"]
    BY <1>4 DEF Boot
  <2>2. scan' \in ScanType
    <3>1. scan \in ScanType
      BY <1>0 DEF StartupTypeOK, ScanType
    <3> QED
      BY <1>1, <2>1, <3>1
  <2>3. boots' \in 0..MaxBoots
    BY <1>0, <1>4, StartupAssumption DEF Boot, StartupTypeOK
  <2> QED
    BY <1>0, <1>4, <2>2, <2>3
       DEF Boot, StartInv, StartupTypeOK, GateTypeOK, gateVars, historyVars, ScanType
<1> QED
  BY <1>2, <1>3, <1>4

LEMMA StartInvInit == Init => StartInv
<1> SUFFICES ASSUME Init PROVE StartInv
  OBVIOUS
<1>1. GateTypeOK
  BY DEF Init, GateInit, GateTypeOK
<1>2. RowsOK(rows)
  <2> DEFINE f == [e \in Legacy |-> RowOf(e)]
  <2>1. IsFiniteSet({f[e] : e \in Legacy})
    BY StartupAssumption, FiniteImage
  <2>2. rows \in SUBSET {f[e] : e \in Legacy}
    BY DEF Init
  <2>3. \A r \in rows : r \in Row /\ r.id = r.body
    BY <2>2, StartupAssumption DEF RowOf, Row
  <2>4. IsFiniteSet(rows)
    BY <2>1, <2>2, FS_Subset
  <2> QED
    BY <2>3, <2>4 DEF RowsOK, IsDeletion
<1>3. index \in [Coord -> {NoEntry} \cup [id : Addressable, raw : Addressable \cup {NoEvent}]]
  BY StartupAssumption DEF Init
<1>4. scan \in ScanType /\ run \in [Runner -> RunType] /\ \A a \in Runner : RunOK(run[a])
  BY NoRunOK DEF Init, NoScan, ScanType, RunOK
<1>5. queue \in Seq(Event) /\ orphans \in SUBSET Event /\ atScan \in SUBSET Event
  BY DEF Init
<1>6. boots \in 0..MaxBoots /\ failures \in 0..MaxFailures /\ requests \in 0..MaxRequests
  BY StartupAssumption DEF Init
<1>7. /\ marker \in BOOLEAN /\ gated \in BOOLEAN /\ hydrated \in BOOLEAN /\ cancelled \in BOOLEAN
      /\ misled \in BOOLEAN /\ page \in Nat /\ phase \in {"down", "hydrate", "verify", "serve"}
  BY DEF Init
<1> QED
  BY <1>1, <1>2, <1>3, <1>4, <1>5, <1>6, <1>7
     DEF StartInv, StartupTypeOK, RowsOK, ScanType, RunType

LEMMA StartInvStep ==
  ASSUME StartInv, [Next]_vars
  PROVE  StartInv'
<1>1. CASE Next
  BY <1>1, HydrationType, NextCoordType, ListVersionsType, PurgeNextType, ScanStepType,
     PublishType, WriteQueuedType, ProcessType
     DEF Next, Backfill, Running, Runner
<1>2. CASE UNCHANGED vars
  BY <1>2 DEF vars, gateVars, procVars, boundVars, historyVars, StartInv, StartupTypeOK, GateTypeOK
<1> QED
  BY <1>1, <1>2

(* The stores, the gate and every goroutine of the start keep their form.  *)
THEOREM StartupTypeCorrect == Spec => []StartupTypeOK
<1>1. StartInv => StartupTypeOK
  BY DEF StartInv
<1> QED
  BY <1>1, StartInvInit, StartInvStep, PTL DEF Spec

-----------------------------------------------------------------------------
(* What the marker vouches for. *)

(* No step takes a deletion request out of the store: only versions are    *)
(* replaced or purged.                                                     *)
LEMMA DeletionsStay ==
  ASSUME StartInv, [Next]_vars
  PROVE  DeletionRows \subseteq DeletionRows'
<1>1. CASE UNCHANGED rows
  BY <1>1 DEF DeletionRows
<1>2. CASE HydratePage
  BY <1>2 DEF HydratePage, SavedRows, DeletionRows
<1>3. ASSUME NEW a \in Runner, PurgeNext(a) PROVE DeletionRows \subseteq DeletionRows'
  <2>1. \A e \in run[a].targets : IsAddressable(e)
    BY DEF StartInv, RunOK, Addressable
  <2>2. \A r \in rows : IsDeletion(r.body) => r \in rows'
    BY <1>3, <2>1 DEF PurgeNext, StartInv, RowsOK, IsDeletion
  <2> QED
    BY <2>2 DEF DeletionRows
<1>4. CASE WriteQueued
  <2>1. \A r \in rows : IsDeletion(r.body) => r \in rows'
    BY <1>4 DEF WriteQueued, IsDeletion, IsAddressable
  <2> QED
    BY <2>1 DEF DeletionRows
<1> QED
  BY <1>1, <1>2, <1>3, <1>4
     DEF Next, Hydration, FetchFails, Backfill, Running, Runner, NextCoord, ListVersions, CheckMarker,
         CountDeletions, DrainDeletions, NextDeletion, MarkComplete, ScanFails, scanOnly, Publish,
         Signal, Stop, Boot, vars

(* No step lowers a tombstone.                                             *)
LEMMA TombstonesRise ==
  ASSUME StartInv, [Next]_vars
  PROVE  \A c \in Coord : deletedCoords[c] <= deletedCoords'[c]
<1>0. deletedCoords \in [Coord -> Int]
  BY DEF StartInv, StartupTypeOK, GateTypeOK, NoDeletion
<1>1. CASE UNCHANGED deletedCoords
  BY <1>0, <1>1
<1>2. ASSUME NEW a \in Runner, NextCoord(a), ~ UNCHANGED deletedCoords
      PROVE  \A c \in Coord : deletedCoords[c] <= deletedCoords'[c]
  <2>1. PICK k \in run[a].left : MarkCoordDeleted(k, createdAt[run[a].del])
    BY <1>2 DEF NextCoord, gateVars
  <2>2. createdAt[run[a].del] \in Nat
    BY <1>2, EventAssumption DEF NextCoord, StartInv, RunOK
  <2> QED
    BY <1>0, <2>1, <2>2 DEF MarkCoordDeleted
<1> QED
  BY <1>1, <1>2
     DEF Next, Hydration, HydratePage, FetchFails, Backfill, Running, Runner, ListVersions, PurgeNext,
         MarkEventDeleted, CheckMarker, CountDeletions, DrainDeletions, NextDeletion, MarkComplete,
         ScanFails, scanOnly, Publish, WriteQueued, Signal, Stop, Boot, vars, gateVars

(* Where the scan is, and that it works on requests that are stored.       *)
ScanOK ==
  /\ phase # "serve" => scan.pc = "off"
  /\ scan.pc = "end" => scan.dels = {}
  /\ scan.dels \subseteq DeletionRows
  /\ run["backfill"].pc # "idle" => scan.pc = "events" /\ run["backfill"].del \in DeletionRows

(* A step that leaves the scan where it is.                                *)
LEMMA ScanStays ==
  ASSUME ScanOK, DeletionRows \subseteq DeletionRows', UNCHANGED <<phase, marker>>,
         scan'.pc = scan.pc, scan'.dels = scan.dels,
         run'["backfill"].pc # "idle" => run["backfill"].pc # "idle" /\ run'["backfill"].del = run["backfill"].del
  PROVE  ScanOK'
  BY DEF ScanOK

LEMMA RunningScan ==
  ASSUME StartInv, NEW a \in Runner, Running(a)
  PROVE  /\ UNCHANGED <<phase, marker, atScan, misled, cancelled>>
         /\ scan'.pc = scan.pc /\ scan'.dels = scan.dels /\ (scan.dirty => scan'.dirty)
         /\ run'["backfill"].pc # "idle" => run["backfill"].pc # "idle" /\ run'["backfill"].del = run["backfill"].del
<1>0. scan \in ScanType /\ run \in [Runner -> RunType]
  BY DEF StartInv, StartupTypeOK, ScanType, RunType
<1>1. CASE NextCoord(a)
  <2>1. scan' \in {scan, [scan EXCEPT !.dirty = TRUE]}
    BY <1>1 DEF NextCoord, Counted
  <2>2. CASE EndRun(a)
    BY <1>0, <1>1, <2>1, <2>2 DEF NextCoord, EndRun, NoRun, ScanType, procVars, historyVars, Runner
  <2>3. ASSUME NEW c, run' = [run EXCEPT ![a].left = @ \ {c}, ![a].coord = c, ![a].pc = "list"]
        PROVE  run'["backfill"].pc # "idle" => run["backfill"].pc # "idle" /\ run'["backfill"].del = run["backfill"].del
    <3> DEFINE q == [run[a] EXCEPT !.left = @ \ {c}, !.coord = c, !.pc = "list"]
    <3>1. run' = [run EXCEPT ![a] = q] /\ run[a].pc = "coords"
      BY <1>1, <2>3 DEF NextCoord
    <3>2. q.del = run[a].del
      BY <1>0 DEF RunType
    <3> HIDE DEF q
    <3> QED
      BY <1>0, <3>1, <3>2 DEF Runner
  <2> QED
    BY <1>0, <1>1, <2>1, <2>2, <2>3 DEF NextCoord, ScanType, procVars, historyVars
<1>2. CASE ListVersions(a)
  BY <1>0, <1>2 DEF ListVersions, RunType, procVars, Runner
<1>3. CASE PurgeNext(a)
  <2>1. scan' \in {scan, [scan EXCEPT !.dirty = TRUE]}
    BY <1>3 DEF PurgeNext, Counted
  <2>2. run'["backfill"].pc # "idle" => run["backfill"].pc # "idle" /\ run'["backfill"].del = run["backfill"].del
    BY <1>0, <1>3 DEF PurgeNext, RunType, Runner
  <2> QED
    BY <1>0, <1>3, <2>1, <2>2 DEF PurgeNext, ScanType, procVars
<1> QED
  BY <1>1, <1>2, <1>3 DEF Running

LEMMA ScanOKStep ==
  ASSUME StartInv, ScanOK, [Next]_vars
  PROVE  ScanOK'
<1>0. /\ DeletionRows \subseteq DeletionRows'
      /\ scan \in ScanType /\ run \in [Runner -> RunType]
      /\ NoScan.pc = "off" /\ NoScan.dels = {}
  BY DeletionsStay DEF StartInv, StartupTypeOK, ScanType, RunType, NoScan
<1>1. CASE Hydration
  <2>1. /\ UNCHANGED <<run, marker>> /\ scan.pc = "off"
        /\ UNCHANGED scan \/ scan' \in {NoScan, [NoScan EXCEPT !.pc = "start"]}
        /\ phase' # "serve" => scan'.pc = "off"
    <3>1. phase \in {"hydrate", "verify"} /\ UNCHANGED <<run, marker>> /\ (EndHydration \/ \E n : NextPage(n))
      BY <1>1 DEF Hydration, HydratePage, FetchFails
    <3>2. scan.pc = "off"
      BY <3>1 DEF ScanOK
    <3>3. CASE EndHydration
      BY <3>1, <3>2, <3>3 DEF EndHydration, NoScan
    <3>4. CASE UNCHANGED scan
      BY <3>1, <3>2, <3>4
    <3> QED
      BY <3>1, <3>3, <3>4 DEF NextPage
  <2> QED
    BY <1>0, <2>1 DEF ScanOK, NoScan
<1>2. ASSUME NEW a \in Runner, Running(a) PROVE ScanOK'
  BY <1>0, <1>2, RunningScan, ScanStays
<1>3. CASE CheckMarker \/ CountDeletions
  <2>1. /\ run'["backfill"] = run["backfill"] /\ run["backfill"].pc = "idle"
        /\ UNCHANGED <<phase, marker>> /\ phase = "serve"
    BY <1>3 DEF CheckMarker, CountDeletions, scanOnly, procVars, ScanOK
  <2>2. CASE scan' = NoScan
    BY <1>0, <2>1, <2>2 DEF ScanOK
  <2>3. CASE scan'.pc \in {"count", "drain"} /\ scan'.dels = scan.dels
    BY <1>0, <2>1, <2>3 DEF ScanOK
  <2>4. CASE CheckMarker
    BY <1>0, <2>2, <2>3, <2>4 DEF CheckMarker, ScanType
  <2>5. CASE CountDeletions
    BY <1>0, <2>3, <2>5 DEF CountDeletions, ScanType, ScanOK
  <2> QED
    BY <1>3, <2>4, <2>5
<1>4. CASE DrainDeletions
  BY <1>0, <1>4 DEF DrainDeletions, CutReads, scanOnly, procVars, ScanOK, ScanType
<1>5. CASE NextDeletion
  <2>1. ASSUME NEW d \in scan.dels, scan' = [scan EXCEPT !.dels = @ \ {d}], StartRun("backfill", d)
        PROVE  ScanOK'
    <3>1. run'["backfill"].del = d
      BY <1>0, <2>1 DEF StartRun, NoRun, Runner
    <3> QED
      BY <1>0, <1>5, <2>1, <3>1 DEF NextDeletion, scanOnly, procVars, ScanOK, ScanType
  <2> QED
    BY <1>0, <1>5, <2>1 DEF NextDeletion, scanOnly, procVars, ScanOK, ScanType
<1>6. CASE MarkComplete \/ ScanFails
  BY <1>0, <1>6 DEF MarkComplete, ScanFails, scanOnly, procVars, ScanOK
<1>7. ASSUME NEW e \in Event, Publish(e) PROVE ScanOK'
  <2>1. run'["backfill"] = run["backfill"]
    BY <1>0, <1>7 DEF Publish, StartRun, Runner
  <2> QED
    BY <1>0, <1>7, <2>1 DEF Publish, procVars, ScanOK
<1>8. CASE WriteQueued \/ Signal
  BY <1>0, <1>8 DEF WriteQueued, Signal, procVars, ScanOK
<1>9. CASE Stop \/ Boot
  BY <1>0, <1>9 DEF Stop, Boot, NoRun, NoScan, Runner, ScanOK
<1>10. CASE UNCHANGED vars
  BY <1>0, <1>10 DEF vars, procVars, ScanOK
<1> QED
  BY <1>1, <1>2, <1>3, <1>4, <1>5, <1>6, <1>7, <1>8, <1>9, <1>10 DEF Next, Backfill, Runner

(* Coordinate c is tombstoned up to the time of request d.                 *)
CoveredAt(d, c) == createdAt[d] <= deletedCoords[c]

(* The backfill works on d and comes to its coordinate c.                  *)
ToDo(d, c) == run["backfill"].pc # "idle" /\ run["backfill"].del = d /\ c \in run["backfill"].left

(* Of the requests the scan has read, and the marker will vouch for, each  *)
(* is done, in hand or still to come.  Nothing rests on a scan of a marked *)
(* database.                                                               *)
ScanKeepsUp ==
  ~ marker /\ scan.pc \in {"events", "end"} /\ ~ misled /\ ~ scan.dirty /\ ~ cancelled =>
    \A d \in atScan : d \in scan.dels \/ \A c \in SameAuthorCoords(d) : CoveredAt(d, c) \/ ToDo(d, c)

MarkerInv == StartInv /\ ScanOK /\ ScanKeepsUp /\ MarkerHonest

LEMMA CoveredStays ==
  ASSUME StartInv, [Next]_vars, NEW d \in Event, NEW c \in SameAuthorCoords(d), CoveredAt(d, c)
  PROVE  CoveredAt(d, c)'
<1>1. StartInv' /\ c \in Coord /\ createdAt[d] \in Nat
  BY StartInvStep, OwnCoords, EventAssumption
<1>2. GateTypeOK /\ GateTypeOK'
  BY <1>1 DEF StartInv, StartupTypeOK
<1>3. deletedCoords[c] \in Int /\ deletedCoords'[c] \in Int
  BY <1>1, <1>2 DEF GateTypeOK, NoDeletion
<1>4. deletedCoords[c] <= deletedCoords'[c]
  BY <1>1, TombstonesRise
<1> QED
  BY <1>1, <1>3, <1>4 DEF CoveredAt

(* A step that reads no requests and leaves none behind.                   *)
LEMMA KeepsUpStays ==
  ASSUME MarkerInv, [Next]_vars, UNCHANGED atScan, misled => misled', marker => marker',
         scan'.pc \in {"events", "end"} =>
           /\ scan.pc \in {"events", "end"} /\ (scan.dirty => scan'.dirty) /\ (cancelled => cancelled'),
         scan'.pc \in {"events", "end"} /\ ~ scan'.dirty /\ ~ cancelled' =>
           /\ \A d \in scan.dels : d \in scan'.dels \/ \A c \in SameAuthorCoords(d) : ToDo(d, c)'
           /\ \A d, c : ToDo(d, c) => ToDo(d, c)' \/ CoveredAt(d, c)'
  PROVE  ScanKeepsUp'
<1> SUFFICES ASSUME ~ marker', scan'.pc \in {"events", "end"}, ~ misled', ~ scan'.dirty, ~ cancelled',
                    NEW d \in atScan, d \notin scan'.dels, NEW c \in SameAuthorCoords(d)
             PROVE  CoveredAt(d, c)' \/ ToDo(d, c)'
  BY DEF ScanKeepsUp
<1>1. d \in Event
  BY DEF MarkerInv, StartInv, StartupTypeOK
<1>2. d \in scan.dels \/ CoveredAt(d, c) \/ ToDo(d, c)
  BY DEF MarkerInv, ScanKeepsUp
<1>3. CASE CoveredAt(d, c)
  BY <1>1, <1>3, CoveredStays DEF MarkerInv
<1> QED
  BY <1>2, <1>3

(* A step that sets no marker and reads no requests.                       *)
LEMMA HonestStays ==
  ASSUME MarkerInv, [Next]_vars, UNCHANGED atScan, misled => misled', marker' => marker
  PROVE  MarkerHonest'
<1> SUFFICES ASSUME marker', ~ misled', NEW d \in atScan, NEW c \in SameAuthorCoords(d)
             PROVE  CoveredAt(d, c)'
  BY DEF MarkerHonest, CoveredAt
<1>1. d \in Event /\ CoveredAt(d, c)
  BY DEF MarkerInv, StartInv, StartupTypeOK, MarkerHonest, CoveredAt
<1> QED
  BY <1>1, CoveredStays DEF MarkerInv

(* The steps of a run: the coordinate that leaves the list is tombstoned,  *)
(* or the scan has seen an error.                                          *)
LEMMA RunningKeepsUp ==
  ASSUME MarkerInv, NEW a \in Runner, Running(a)
  PROVE  ScanKeepsUp' /\ MarkerHonest'
<1>0. StartInv /\ [Next]_vars /\ RunOK(run[a]) /\ scan \in ScanType /\ run \in [Runner -> RunType]
  BY DEF MarkerInv, StartInv, StartupTypeOK, ScanType, RunType, Next, Backfill, Running, Runner
<1>1. UNCHANGED <<marker, atScan, misled, cancelled>> /\ scan'.pc = scan.pc /\ scan'.dels = scan.dels
      /\ (scan.dirty => scan'.dirty)
  BY <1>0, RunningScan
<1>2. MarkerHonest'
  BY <1>0, <1>1, HonestStays
<1>3. ASSUME NEW d, NEW c, ToDo(d, c), ~ scan'.dirty, ~ cancelled
      PROVE  ToDo(d, c)' \/ CoveredAt(d, c)'
  <2>1. CASE run'["backfill"] = run["backfill"]
    BY <1>3, <2>1 DEF ToDo
  <2>2. CASE a = "backfill" /\ NextCoord(a)
    <3>1. run[a].left # {}
      BY <1>3, <2>2 DEF ToDo
    <3>2. PICK k \in run[a].left :
            /\ run' = [run EXCEPT ![a].left = @ \ {k}, ![a].coord = k, ![a].pc = "list"]
            /\ \/ MarkCoordDeleted(k, createdAt[run[a].del])
               \/ Counted(a, TRUE)
      BY <1>3, <2>2, <3>1 DEF NextCoord
    <3>3. MarkCoordDeleted(k, createdAt[run[a].del])
      BY <1>0, <1>3, <2>2, <3>2 DEF Counted, ScanType
    <3>4. CASE c = k
      <4>1. d \in Event /\ d = run[a].del /\ createdAt[d] \in Nat /\ k \in Coord
        BY <1>0, <1>3, <2>2, OwnCoords, EventAssumption DEF ToDo, RunOK
      <4>2. deletedCoords \in [Coord -> Int]
        BY <1>0 DEF StartInv, StartupTypeOK, GateTypeOK, NoDeletion
      <4> QED
        BY <3>3, <3>4, <4>1, <4>2 DEF MarkCoordDeleted, CoveredAt
    <3>5. CASE c # k
      <4> DEFINE q == [run[a] EXCEPT !.left = @ \ {k}, !.coord = k, !.pc = "list"]
      <4>1. run' = [run EXCEPT ![a] = q]
        BY <3>2
      <4>2. q.del = run[a].del /\ q.pc = "list" /\ q.left = run[a].left \ {k}
        BY <1>0 DEF RunType
      <4>3. run'[a] = q
        BY <1>0, <4>1
      <4> HIDE DEF q
      <4> QED
        BY <1>3, <2>2, <3>5, <4>2, <4>3 DEF ToDo
    <3> QED
      BY <3>4, <3>5
  <2>3. CASE a = "backfill" /\ (ListVersions(a) \/ PurgeNext(a))
    <3>1. /\ run'[a].del = run[a].del /\ run'[a].left = run[a].left
          /\ run'[a].pc # "idle"
      BY <1>0, <2>3 DEF ListVersions, PurgeNext, RunType, Runner
    <3> QED
      BY <1>3, <2>3, <3>1 DEF ToDo
  <2>4. CASE a # "backfill"
    <3>1. run'["backfill"] = run["backfill"]
      BY <1>0, <2>4 DEF Running, NextCoord, EndRun, ListVersions, PurgeNext, Runner
    <3> QED
      BY <2>1, <3>1
  <2> QED
    BY <2>2, <2>3, <2>4 DEF Running
<1>4. ScanKeepsUp'
  BY <1>0, <1>1, <1>3, KeepsUpStays
<1> QED
  BY <1>2, <1>4

LEMMA DrainKeepsUp ==
  ASSUME MarkerInv, DrainDeletions
  PROVE  ScanKeepsUp' /\ MarkerHonest'
<1>0. scan \in ScanType /\ scan.pc = "drain" /\ UNCHANGED marker /\ [Next]_vars /\ (misled => misled')
  BY DEF MarkerInv, StartInv, StartupTypeOK, ScanType, DrainDeletions, Next, Backfill
<1>1. MarkerHonest'
  <2>1. CASE marker
    BY <1>0, <2>1, HonestStays DEF DrainDeletions
  <2> QED
    BY <1>0, <2>1 DEF MarkerHonest
<1>2. PICK ds \in CutReads :
        /\ scan' = IF Agrees(ds) THEN [scan EXCEPT !.pc = "events", !.dels = ds] ELSE NoScan
        /\ misled' = (misled \/ (~ marker /\ scan.count = Cardinality(ds) /\ ds # DeletionRows))
  BY DEF DrainDeletions
<1>3. ASSUME ~ marker, scan'.pc \in {"events", "end"}, ~ misled' PROVE scan'.dels = DeletionRows
  <2>1. Agrees(ds) /\ scan'.dels = ds
    BY <1>0, <1>2, <1>3 DEF NoScan, ScanType
  <2> QED
    BY <1>2, <1>3, <2>1 DEF Agrees
<1>4. ScanKeepsUp'
  BY <1>0, <1>3 DEF ScanKeepsUp, DrainDeletions
<1> QED
  BY <1>1, <1>4

LEMMA NextDeletionKeepsUp ==
  ASSUME MarkerInv, NextDeletion
  PROVE  ScanKeepsUp' /\ MarkerHonest'
<1>0. /\ scan \in ScanType /\ run \in [Runner -> RunType] /\ run["backfill"].pc = "idle"
      /\ scan.pc = "events" /\ UNCHANGED <<marker, atScan, misled, cancelled>> /\ [Next]_vars
  BY DEF MarkerInv, StartInv, StartupTypeOK, ScanType, RunType, NextDeletion, scanOnly, Next, Backfill
<1>1. MarkerHonest'
  BY <1>0, HonestStays
<1>2. CASE scan' = NoScan
  BY <1>1, <1>2 DEF ScanKeepsUp, NoScan
<1>3. CASE scan.dels = {} /\ scan' = [scan EXCEPT !.pc = "end"] /\ UNCHANGED run
  BY <1>0, <1>1, <1>3, KeepsUpStays DEF ScanType, ToDo
<1>4. ASSUME NEW d \in scan.dels, scan' = [scan EXCEPT !.dels = @ \ {d}], StartRun("backfill", d)
      PROVE  ScanKeepsUp'
  <2>1. /\ scan'.pc = "events" /\ scan'.dirty = scan.dirty /\ scan'.dels = scan.dels \ {d}
    BY <1>0, <1>4 DEF ScanType
  <2>2. \A c \in SameAuthorCoords(d) : ToDo(d, c)'
    BY <1>0, <1>4 DEF StartRun, NoRun, ToDo, Runner
  <2>3. \A f, c : ~ ToDo(f, c)
    BY <1>0 DEF ToDo
  <2>4. \A f \in scan.dels : f \in scan'.dels \/ \A c \in SameAuthorCoords(f) : ToDo(f, c)'
    BY <2>1, <2>2
  <2> QED
    BY <1>0, <2>1, <2>3, <2>4, KeepsUpStays
<1> QED
  BY <1>1, <1>2, <1>3, <1>4 DEF NextDeletion

(* The marker is written only after a whole scan without an error.         *)
LEMMA MarkCompleteHonest ==
  ASSUME MarkerInv, MarkComplete
  PROVE  ScanKeepsUp' /\ MarkerHonest'
<1>0. UNCHANGED <<deletedCoords, atScan, misled>> /\ scan.pc = "end" /\ scan'.pc = "off"
      /\ scan.dels = {} /\ run["backfill"].pc = "idle"
  BY DEF MarkComplete, scanOnly, gateVars, NoScan, MarkerInv, ScanOK
<1>1. ScanKeepsUp'
  BY <1>0 DEF ScanKeepsUp
<1>2. CASE marker
  BY <1>0, <1>1, <1>2 DEF MarkerInv, MarkerHonest
<1>3. CASE ~ marker /\ marker'
  <2>1. ~ scan.dirty /\ ~ cancelled
    BY <1>3 DEF MarkComplete, MarkerInv, StartInv, StartupTypeOK
  <2>2. ~ misled => \A d \in atScan : \A c \in SameAuthorCoords(d) : CoveredAt(d, c)
    BY <1>0, <1>3, <2>1 DEF MarkerInv, ScanKeepsUp, ToDo
  <2> QED
    BY <1>0, <1>1, <2>2 DEF MarkerHonest, CoveredAt
<1>4. CASE ~ marker'
  BY <1>1, <1>4 DEF MarkerHonest
<1> QED
  BY <1>1, <1>2, <1>3, <1>4 DEF MarkComplete

(* The other steps leave the scan alone, or end it without a marker.       *)
LEMMA OthersKeepUp ==
  ASSUME MarkerInv,
         \/ Hydration \/ CheckMarker \/ CountDeletions \/ ScanFails
         \/ \E e \in Event : Publish(e)
         \/ WriteQueued \/ Signal \/ Stop \/ Boot \/ UNCHANGED vars
  PROVE  ScanKeepsUp' /\ MarkerHonest'
<1>0. scan \in ScanType /\ run \in [Runner -> RunType] /\ [Next]_vars /\ cancelled \in BOOLEAN
  BY DEF MarkerInv, StartInv, StartupTypeOK, ScanType, RunType, Next, Backfill
<1>1. /\ UNCHANGED <<marker, atScan, misled>>
      /\ scan'.pc \in {"events", "end"} =>
           scan' = scan /\ run'["backfill"] = run["backfill"] /\ (cancelled => cancelled')
  <2>1. CASE Hydration
    <3>1. UNCHANGED <<marker, atScan, misled, run, cancelled>> /\ (EndHydration \/ \E n : NextPage(n))
      BY <2>1 DEF Hydration, HydratePage, FetchFails, historyVars
    <3>2. CASE EndHydration
      BY <3>1, <3>2 DEF EndHydration, NoScan
    <3> QED
      BY <3>1, <3>2 DEF NextPage
  <2>2. CASE CheckMarker \/ CountDeletions \/ ScanFails
    <3>1. UNCHANGED <<marker, atScan, misled>>
      BY <2>2 DEF CheckMarker, CountDeletions, ScanFails
    <3>2. scan'.pc \notin {"events", "end"}
      <4>1. NoScan.pc = "off" /\ [scan EXCEPT !.pc = "count"].pc = "count"
        BY <1>0 DEF NoScan, ScanType
      <4>2. CASE CheckMarker \/ ScanFails
        BY <2>2, <4>1, <4>2 DEF CheckMarker, ScanFails
      <4>3. CASE CountDeletions
        <5>1. scan'.pc = "drain"
          BY <1>0, <4>3 DEF CountDeletions, ScanType
        <5> QED
          BY <5>1
      <4> QED
        BY <2>2, <4>2, <4>3
    <3> QED
      BY <3>1, <3>2
  <2>3. ASSUME NEW e \in Event, Publish(e)
        PROVE  UNCHANGED <<marker, atScan, misled, scan, cancelled>> /\ run'["backfill"] = run["backfill"]
    BY <1>0, <2>3 DEF Publish, StartRun, Runner, historyVars
  <2>4. CASE WriteQueued \/ Signal
    BY <1>0, <2>4 DEF WriteQueued, Signal, historyVars
  <2>5. CASE Stop \/ Boot
    BY <2>5 DEF Stop, Boot, NoScan, historyVars
  <2> QED
    BY <2>1, <2>2, <2>3, <2>4, <2>5 DEF vars, historyVars
<1>2. \A d, c : scan' = scan /\ run'["backfill"] = run["backfill"] => (ToDo(d, c) => ToDo(d, c)')
  BY DEF ToDo
<1> QED
  BY <1>0, <1>1, <1>2, KeepsUpStays, HonestStays

LEMMA MarkerInvInit == Init => MarkerInv
<1> SUFFICES ASSUME Init PROVE MarkerInv
  OBVIOUS
<1>1. ScanOK
  BY DEF Init, NoScan, NoRun, Runner, ScanOK
<1> QED
  BY <1>1, StartInvInit DEF Init, MarkerInv, ScanKeepsUp, MarkerHonest

LEMMA MarkerInvStep ==
  ASSUME MarkerInv, [Next]_vars
  PROVE  MarkerInv'
<1>1. StartInv' /\ ScanOK'
  BY StartInvStep, ScanOKStep DEF MarkerInv
<1>2. ScanKeepsUp' /\ MarkerHonest'
  BY RunningKeepsUp, DrainKeepsUp, NextDeletionKeepsUp, MarkCompleteHonest, OthersKeepUp
     DEF Next, Backfill, Runner
<1> QED
  BY <1>1, <1>2 DEF MarkerInv

(* Whatever cut reads, failures, signals, stops and live requests meet the *)
(* scan: with the marker, every coordinate of every request it read is     *)
(* tombstoned up to the request's time, unless a read cut short agreed     *)
(* with the count.                                                         *)
THEOREM TheMarkerIsHonest == Spec => []MarkerHonest
<1>1. MarkerInv => MarkerHonest
  BY DEF MarkerInv
<1> QED
  BY <1>1, MarkerInvInit, MarkerInvStep, PTL DEF Spec

-----------------------------------------------------------------------------
(* What is left of deleted versions. *)

(* Request d covers version e.                                             *)
Covers(d, e) ==
  IsAddressable(e) /\ coordOf[e] \in SameAuthorCoords(d) /\ createdAt[e] <= createdAt[d]

(* If there is ever to be a marker, this scan or that of a later start     *)
(* comes to the coordinate of r on account of request d.                   *)
Ahead(d, r) ==
  \/ scan.pc \in {"off", "start", "count", "drain"} \/ scan.dirty \/ cancelled
  \/ d \in scan.dels
  \/ ToDo(d, coordOf[r.body])

(* The backfill is at the coordinate of r, on account of request d.        *)
InHand(d, r) ==
  /\ run["backfill"].del = d /\ run["backfill"].coord = coordOf[r.body]
  /\ run["backfill"].pc = "list" \/ r.id \in run["backfill"].targets

Due(d, r) == InHand(d, r) \/ (~ marker /\ Ahead(d, r))

BackfillHolds(r) == \E d \in DeletionRows : Covers(d, r.body) /\ Due(d, r)

LiveHolds(r) ==
  \/ r.id \in run["live"].targets
  \/ run["live"].pc = "list" /\ r.body \in CoveredBy(run["live"].del, run["live"].coord)

(* A row that a tombstone covers is somebody's to remove, or an orphan.    *)
TombstonedHeld ==
  ~ misled => \A r \in rows : RowTombstoned(r) => r.id \in orphans \/ LiveHolds(r) \/ BackfillHolds(r)

PurgeInv == StartInv /\ ScanOK /\ TombstonedHeld

(* A step that tombstones nothing and drops no row it does not remove.     *)
LEMMA HeldStays ==
  ASSUME PurgeInv, [Next]_vars, UNCHANGED deletedCoords, misled => misled', orphans \subseteq orphans',
         \A r \in rows' : r \in rows \/ ~ RowTombstoned(r) \/ r.id \in orphans',
         \A r \in rows \cap rows' : LiveHolds(r) => LiveHolds(r)' \/ r.id \in orphans',
         \A r \in rows \cap rows', d \in DeletionRows :
           Covers(d, r.body) /\ ~ misled' /\ Due(d, r) => r.id \in orphans' \/ Due(d, r)'
  PROVE  TombstonedHeld'
<1> SUFFICES ASSUME ~ misled', NEW r \in rows', RowTombstoned(r)', r.id \notin orphans'
             PROVE  LiveHolds(r)' \/ BackfillHolds(r)'
  BY DEF TombstonedHeld
<1>1. RowTombstoned(r) /\ r \in rows
  BY DEF RowTombstoned, Tombstoned
<1>2. LiveHolds(r) \/ BackfillHolds(r)
  BY <1>1 DEF PurgeInv, TombstonedHeld
<1>3. ASSUME BackfillHolds(r) PROVE BackfillHolds(r)'
  <2>1. PICK d \in DeletionRows : Covers(d, r.body) /\ Due(d, r)
    BY <1>3 DEF BackfillHolds
  <2>2. d \in DeletionRows'
    BY DeletionsStay DEF PurgeInv
  <2>3. Covers(d, r.body)'
    BY <2>1 DEF Covers
  <2>4. Due(d, r)'
    BY <1>1, <2>1
  <2> QED
    BY <2>2, <2>3, <2>4 DEF BackfillHolds
<1> QED
  BY <1>1, <1>2, <1>3

LEMMA HydrationHeld ==
  ASSUME PurgeInv, Hydration
  PROVE  TombstonedHeld'
<1>0. [Next]_vars
  BY DEF Next
<1>1. /\ UNCHANGED <<gateVars, run, cancelled, misled, marker>> /\ orphans \subseteq orphans'
      /\ EndHydration \/ UNCHANGED scan
      /\ phase # "serve"
  BY DEF Hydration, HydratePage, FetchFails, NextPage, historyVars
<1>2. scan'.pc \in {"off", "start"}
  BY <1>1 DEF EndHydration, NoScan, PurgeInv, ScanOK
<1>3. \A r \in rows' : r \in rows \/ ~ RowTombstoned(r) \/ r.id \in orphans'
  <2>1. CASE HydratePage
    <3>1. PICK rs : rows' = SavedRows(Admitted(rs))
      BY <2>1 DEF HydratePage
    <3>2. CASE gated
      BY <3>1, <3>2 DEF SavedRows, Admitted, RowBlocked
    <3>3. CASE ~ gated
      BY <2>1, <3>3 DEF HydratePage
    <3> QED
      BY <3>2, <3>3
  <2> QED
    BY <2>1 DEF Hydration, FetchFails
<1>4. \A r : LiveHolds(r)' <=> LiveHolds(r)
  BY <1>1 DEF LiveHolds
<1>5. \A d, r : Due(d, r) => Due(d, r)'
  BY <1>1, <1>2 DEF Due, Ahead, InHand
<1> QED
  BY <1>0, <1>1, <1>3, <1>4, <1>5, HeldStays DEF gateVars

(* The next coordinate is tombstoned before its versions are listed, and   *)
(* the rows this covers are in the hand of the run that did it.            *)
LEMMA NextCoordHeld ==
  ASSUME PurgeInv, NEW a \in Runner, NextCoord(a)
  PROVE  TombstonedHeld'
<1> USE DEF PurgeInv
<1>0. /\ StartInv /\ [Next]_vars /\ RunOK(run[a]) /\ RunOK(run["live"]) /\ RunOK(run["backfill"])
      /\ scan \in ScanType /\ run \in [Runner -> RunType]
      /\ run[a].pc = "coords" /\ run[a].targets = {}
      /\ UNCHANGED <<rows, orphans, misled, marker, cancelled>>
  BY DEF StartInv, StartupTypeOK, ScanType, RunType, Next, Backfill, Running, Runner, NextCoord,
         RunOK, procVars, historyVars
<1>1. scan'.pc = scan.pc /\ scan'.dels = scan.dels /\ (scan.dirty => scan'.dirty)
  BY <1>0, RunningScan DEF Running
<1>2. CASE EndRun(a) /\ UNCHANGED gateVars
  <2>1. \A r \in rows : LiveHolds(r) => LiveHolds(r)'
    BY <1>0, <1>2 DEF LiveHolds, EndRun, Runner
  <2>2. a = "backfill" => run[a].left = {} \/ cancelled
    BY <1>0, <1>2, NoRunOK DEF NextCoord, EndRun, NoRun
  <2>3. \A d, r : (Ahead(d, r) => Ahead(d, r)') /\ (InHand(d, r) => InHand(d, r)')
    BY <1>0, <1>1, <1>2, <2>2 DEF Ahead, InHand, ToDo, EndRun, Runner
  <2> QED
    BY <1>0, <1>2, <2>1, <2>3, HeldStays DEF gateVars, Due
<1>3. ASSUME NEW c \in run[a].left,
             run' = [run EXCEPT ![a].left = @ \ {c}, ![a].coord = c, ![a].pc = "list"],
             MarkCoordDeleted(c, createdAt[run[a].del]) \/ UNCHANGED gateVars
      PROVE  TombstonedHeld'
  <2> DEFINE q == [run[a] EXCEPT !.left = @ \ {c}, !.coord = c, !.pc = "list"]
  <2>1. /\ q.left = run[a].left \ {c} /\ q.coord = c /\ q.pc = "list"
        /\ q.del = run[a].del /\ q.targets = {}
    BY <1>0 DEF RunType
  <2>2. run'[a] = q /\ \A b \in Runner : b # a => run'[b] = run[b]
    BY <1>0, <1>3
  <2> HIDE DEF q
  <2>3. run[a].del \in Event /\ c \in Coord /\ c \in SameAuthorCoords(run[a].del)
    BY <1>0, OwnCoords DEF RunOK
  <2>4. \A r \in rows : RowTombstoned(r)' /\ ~ RowTombstoned(r) => r.body \in CoveredBy(run[a].del, c)
    <3> SUFFICES ASSUME NEW r \in rows, RowTombstoned(r)', ~ RowTombstoned(r)
                 PROVE  r.body \in CoveredBy(run[a].del, c)
      OBVIOUS
    <3>1. r.body \in Event /\ r.body \in Addressable /\ coordOf[r.body] \in Coord
      BY <1>0, EventAssumption
         DEF StartInv, RowsOK, Row, RowTombstoned, Tombstoned, IsAddressable, Addressable
    <3>2. deletedCoords \in [Coord -> Int] /\ createdAt[r.body] \in Int /\ createdAt[run[a].del] \in Int
      BY <1>0, <2>3, <3>1, EventAssumption DEF StartInv, StartupTypeOK, GateTypeOK, NoDeletion
    <3>3. MarkCoordDeleted(c, createdAt[run[a].del])
      BY <1>3 DEF RowTombstoned, Tombstoned, gateVars
    <3> QED
      BY <3>1, <3>2, <3>3 DEF RowTombstoned, Tombstoned, MarkCoordDeleted, CoveredBy
  <2>5. CASE a = "live"
    <3>1. \A r \in rows : r.body \in CoveredBy(run[a].del, c) => LiveHolds(r)'
      BY <2>1, <2>2, <2>5 DEF LiveHolds, CoveredBy
    <3>2. \A r \in rows : ~ LiveHolds(r)
      BY <1>0, <2>5 DEF LiveHolds
    <3>3. run'["backfill"] = run["backfill"] /\ scan' \in {scan, [scan EXCEPT !.dirty = FALSE]}
      BY <1>0, <2>2, <2>5 DEF NextCoord, Counted, Runner
    <3>4. \A r \in rows : BackfillHolds(r) => BackfillHolds(r)'
      BY <1>0, <1>1, <3>3 DEF BackfillHolds, Due, Ahead, InHand, ToDo, DeletionRows
    <3> QED
      BY <1>0, <2>4, <3>1, <3>2, <3>4 DEF TombstonedHeld
  <2>6. CASE a = "backfill"
    <3>1. scan.pc = "events" /\ run[a].del \in DeletionRows
      BY <1>0, <2>6 DEF ScanOK
    <3>2. UNCHANGED DeletionRows
      BY <1>0 DEF DeletionRows
    <3>3. \A r \in rows : r.body \in CoveredBy(run[a].del, c) => BackfillHolds(r)'
      BY <1>0, <2>1, <2>2, <2>3, <2>6, <3>1, <3>2
         DEF BackfillHolds, Due, CoveredBy, Covers, InHand, Addressable
    <3>4. run'["live"] = run["live"]
      BY <2>2, <2>6 DEF Runner
    <3>5. \A r \in rows : LiveHolds(r) => LiveHolds(r)'
      BY <3>4 DEF LiveHolds
    <3>6. \A r \in rows, d \in DeletionRows : Due(d, r) => Due(d, r)'
      BY <1>0, <1>1, <2>1, <2>2, <2>6 DEF Due, Ahead, InHand, ToDo
    <3>7. \A r \in rows : BackfillHolds(r) => BackfillHolds(r)'
      BY <1>0, <3>2, <3>6 DEF BackfillHolds, Covers
    <3> QED
      BY <1>0, <2>4, <3>3, <3>5, <3>7 DEF TombstonedHeld
  <2> QED
    BY <2>5, <2>6 DEF Runner
<1> QED
  BY <1>2, <1>3 DEF NextCoord

(* What a listing finds is purged next; what it misses is an orphan.       *)
LEMMA ListVersionsHeld ==
  ASSUME PurgeInv, NEW a \in Runner, ListVersions(a)
  PROVE  TombstonedHeld'
<1> USE DEF PurgeInv
<1> DEFINE stored == StoredVersions(run[a].del, run[a].coord)
<1>0. /\ StartInv /\ [Next]_vars /\ RunOK(run[a]) /\ run \in [Runner -> RunType]
      /\ run[a].pc = "list" /\ run[a].targets = {}
      /\ UNCHANGED <<gateVars, rows, scan, misled, marker, cancelled>>
  BY DEF StartInv, StartupTypeOK, RunType, Next, Backfill, Running, Runner, ListVersions, RunOK, procVars
<1>1. /\ orphans' = orphans \cup (stored \ run'[a].targets)
      /\ run'[a].del = run[a].del /\ run'[a].left = run[a].left
      /\ run'[a].coord = run[a].coord /\ run'[a].pc = "purge"
      /\ \A b \in Runner : b # a => run'[b] = run[b]
  BY <1>0 DEF ListVersions, RunType
<1>2. \A r \in rows : r.body \in CoveredBy(run[a].del, run[a].coord) => r.id \in stored
  BY DEF StoredVersions
<1> HIDE DEF stored
<1>3. \A r \in rows : LiveHolds(r) => LiveHolds(r)' \/ r.id \in orphans'
  BY <1>0, <1>1, <1>2 DEF LiveHolds, Runner
<1>4. ASSUME NEW r \in rows, NEW d \in DeletionRows, Covers(d, r.body), Due(d, r)
      PROVE  Due(d, r)' \/ r.id \in orphans'
  <2>1. CASE ~ marker /\ Ahead(d, r)
    BY <1>0, <1>1, <2>1 DEF Due, Ahead, ToDo, Runner
  <2>2. CASE InHand(d, r) /\ a = "backfill"
    <3>1. r.body \in CoveredBy(run[a].del, run[a].coord)
      BY <1>0, <1>4, <2>2 DEF InHand, Covers, CoveredBy, Addressable, StartInv, RowsOK, Row
    <3> QED
      BY <1>1, <1>2, <2>2, <3>1 DEF Due, InHand
  <2>3. CASE InHand(d, r) /\ a # "backfill"
    BY <1>1, <2>3 DEF Due, InHand, Runner
  <2> QED
    BY <1>4, <2>1, <2>2, <2>3 DEF Due
<1> QED
  BY <1>0, <1>1, <1>3, <1>4, HeldStays DEF gateVars

(* A version is out of the store, or its removal failed unseen.            *)
LEMMA PurgeNextHeld ==
  ASSUME PurgeInv, NEW a \in Runner, PurgeNext(a)
  PROVE  TombstonedHeld'
<1> USE DEF PurgeInv
<1>0. /\ StartInv /\ [Next]_vars /\ run \in [Runner -> RunType] /\ scan \in ScanType
      /\ run[a].pc = "purge" /\ UNCHANGED <<misled, marker, cancelled>>
  <2>1. [Next]_vars
    BY DEF Next, Backfill, Running, Runner
  <2>2. run[a].pc = "purge" /\ UNCHANGED <<misled, marker, cancelled>>
    BY DEF PurgeNext
  <2> QED
    BY <2>1, <2>2 DEF StartInv, StartupTypeOK, RunType, ScanType
<1>a. UNCHANGED deletedCoords /\ orphans \subseteq orphans'
  BY DEF PurgeNext, MarkEventDeleted, gateVars
<1>1. scan'.pc = scan.pc /\ scan'.dels = scan.dels /\ (scan.dirty => scan'.dirty)
  BY <1>0, RunningScan DEF Running
<1>2. rows' \subseteq rows
  BY DEF PurgeNext
<1>3. /\ run'[a].del = run[a].del /\ run'[a].left = run[a].left /\ run'[a].pc # "idle"
      /\ \A r \in rows' : r.id \in run[a].targets =>
           r.id \in orphans' \/ (r.id \in run'[a].targets /\ run'[a].coord = run[a].coord)
      /\ \A b \in Runner : b # a => run'[b] = run[b]
  <2>1. CASE run[a].targets = {} /\ run' = [run EXCEPT ![a].pc = "coords", ![a].coord = NoCoord]
    BY <1>0, <2>1 DEF RunType
  <2>2. ASSUME NEW e \in run[a].targets, NEW bad \in SUBSET {"mark", "raw", "index"},
               run' = [run EXCEPT ![a].targets = @ \ {e}],
               rows' = IF "raw" \in bad THEN rows ELSE {r \in rows : r.id # e},
               orphans' = IF "raw" \in bad THEN orphans \cup {e} ELSE orphans
        PROVE  /\ run'[a].del = run[a].del /\ run'[a].left = run[a].left /\ run'[a].pc # "idle"
               /\ \A r \in rows' : r.id \in run[a].targets =>
                    r.id \in orphans' \/ (r.id \in run'[a].targets /\ run'[a].coord = run[a].coord)
               /\ \A b \in Runner : b # a => run'[b] = run[b]
    BY <1>0, <2>2 DEF RunType
  <2> QED
    BY <2>1, <2>2 DEF PurgeNext
<1>4. \A r \in rows \cap rows' : LiveHolds(r) => LiveHolds(r)' \/ r.id \in orphans'
  BY <1>0, <1>3 DEF LiveHolds, Runner
<1>5. \A r \in rows \cap rows', d \in DeletionRows : Due(d, r) => Due(d, r)' \/ r.id \in orphans'
  BY <1>0, <1>1, <1>3 DEF Due, Ahead, InHand, ToDo, Runner
<1> QED
  BY <1>0, <1>a, <1>2, <1>4, <1>5, HeldStays

(* Whatever ends a scan without the marker leaves the requests to the next.*)
LEMMA ScanStepHeld ==
  ASSUME PurgeInv,
         \/ CheckMarker \/ CountDeletions \/ DrainDeletions \/ NextDeletion \/ MarkComplete \/ ScanFails
  PROVE  TombstonedHeld'
<1> USE DEF PurgeInv
<1>0. /\ StartInv /\ [Next]_vars /\ scan \in ScanType /\ run \in [Runner -> RunType]
      /\ RunOK(run["backfill"]) /\ run["backfill"].pc = "idle" /\ run["backfill"].targets = {}
      /\ UNCHANGED <<deletedCoords, rows, orphans, cancelled>>
      /\ run'["live"] = run["live"] /\ (misled => misled')
      /\ NoScan.pc = "off"
  <2>1. /\ StartInv /\ [Next]_vars /\ scan \in ScanType /\ run \in [Runner -> RunType]
        /\ RunOK(run["backfill"]) /\ NoScan.pc = "off"
    BY DEF StartInv, StartupTypeOK, ScanType, RunType, Next, Backfill, Runner, NoScan
  <2>2. run["backfill"].pc = "idle"
    BY DEF CheckMarker, CountDeletions, DrainDeletions, NextDeletion, MarkComplete, ScanFails, ScanOK
  <2>3. UNCHANGED <<deletedCoords, rows, orphans, cancelled>> /\ (misled => misled')
    <3>1. UNCHANGED scanOnly
      BY DEF CheckMarker, CountDeletions, DrainDeletions, NextDeletion, MarkComplete, ScanFails
    <3>2. misled => misled'
      BY DEF CheckMarker, CountDeletions, DrainDeletions, NextDeletion, MarkComplete, ScanFails
    <3> QED
      BY <3>1, <3>2 DEF scanOnly, gateVars
  <2>4. run'["live"] = run["live"]
    BY <2>1 DEF CheckMarker, CountDeletions, DrainDeletions, NextDeletion, MarkComplete, ScanFails,
                StartRun, Runner
  <2> QED
    BY <2>1, <2>2, <2>3, <2>4 DEF RunOK
<1>1. \A r : LiveHolds(r) => LiveHolds(r)'
  BY <1>0 DEF LiveHolds
<1>2. \A d, r : ~ InHand(d, r) /\ ~ ToDo(d, coordOf[r.body])
  BY <1>0 DEF InHand, ToDo
<1>3. ASSUME NEW r \in rows, NEW d \in DeletionRows, Covers(d, r.body), Ahead(d, r), ~ marker, ~ misled'
      PROVE  ~ marker' /\ Ahead(d, r)'
  <2>1. CASE scan'.pc \in {"off", "start", "count", "drain"} /\ UNCHANGED marker
    BY <1>3, <2>1 DEF Ahead
  <2>2. CASE CheckMarker \/ CountDeletions
    <3>1. scan'.pc \in {"count", "drain"} /\ UNCHANGED marker
      BY <1>0, <1>3, <2>2 DEF CheckMarker, CountDeletions, ScanType
    <3> QED
      BY <2>1, <3>1
  <2>3. CASE ScanFails
    BY <1>0, <2>1, <2>3 DEF ScanFails
  <2>4. CASE DrainDeletions
    <3>1. PICK ds \in CutReads :
            /\ scan' = IF Agrees(ds) THEN [scan EXCEPT !.pc = "events", !.dels = ds] ELSE NoScan
            /\ misled' = (misled \/ (~ marker /\ scan.count = Cardinality(ds) /\ ds # DeletionRows))
      BY <2>4 DEF DrainDeletions
    <3>2. CASE Agrees(ds)
      <4>1. ds = DeletionRows
        BY <1>3, <3>1, <3>2 DEF Agrees
      <4>2. scan'.dels = ds
        BY <1>0, <3>1, <3>2 DEF ScanType
      <4> QED
        BY <1>3, <2>4, <4>1, <4>2 DEF Ahead, DrainDeletions
    <3>3. CASE ~ Agrees(ds)
      BY <1>0, <2>1, <2>4, <3>1, <3>3 DEF DrainDeletions
    <3> QED
      BY <3>2, <3>3
  <2>5. CASE NextDeletion
    <3>1. UNCHANGED marker /\ scan.pc = "events"
      BY <2>5 DEF NextDeletion
    <3>2. scan.dirty \/ cancelled \/ d \in scan.dels
      BY <1>2, <1>3, <3>1 DEF Ahead
    <3>3. CASE scan' = NoScan
      BY <1>0, <2>1, <3>1, <3>3
    <3>4. CASE scan.dels = {} /\ scan' = [scan EXCEPT !.pc = "end"]
      BY <1>0, <1>3, <3>1, <3>2, <3>4 DEF Ahead, ScanType
    <3>5. ASSUME NEW f \in scan.dels, scan' = [scan EXCEPT !.dels = @ \ {f}], StartRun("backfill", f)
          PROVE  Ahead(d, r)'
      <4>1. scan'.dels = scan.dels \ {f} /\ scan'.dirty = scan.dirty
        BY <1>0, <3>5 DEF ScanType
      <4>2. run'["backfill"] = [NoRun EXCEPT !.del = f, !.left = SameAuthorCoords(f), !.pc = "coords"]
        BY <1>0, <3>5 DEF StartRun, Runner
      <4>3. coordOf[r.body] \in SameAuthorCoords(d)
        BY <1>3 DEF Covers
      <4>4. d = f => ToDo(d, coordOf[r.body])'
        BY <4>2, <4>3 DEF ToDo, NoRun
      <4> QED
        BY <1>0, <3>2, <4>1, <4>4 DEF Ahead
    <3> QED
      BY <1>3, <2>5, <3>1, <3>3, <3>4, <3>5 DEF NextDeletion
  <2>6. CASE MarkComplete
    <3>1. scan.pc = "end" /\ scan.dels = {} /\ scan'.pc = "off"
      BY <1>0, <2>6 DEF MarkComplete, ScanOK
    <3>2. scan.dirty \/ cancelled
      BY <1>2, <1>3, <3>1 DEF Ahead
    <3>3. UNCHANGED marker
      BY <1>3, <2>6, <3>2 DEF MarkComplete, StartInv, StartupTypeOK
    <3> QED
      BY <2>1, <3>1, <3>3
  <2> QED
    BY <2>2, <2>3, <2>4, <2>5, <2>6
<1> QED
  BY <1>0, <1>1, <1>2, <1>3, HeldStays DEF Due

(* A version is written only if the gate lets it through in that step; a   *)
(* process that stops leaves the live runs' versions as orphans and the    *)
(* backfill's to the next start, if that is going to scan.                 *)
LEMMA OthersHeld ==
  ASSUME PurgeInv,
         \/ \E e \in Event : Publish(e)
         \/ WriteQueued \/ Signal \/ Stop \/ Boot \/ UNCHANGED vars
  PROVE  TombstonedHeld'
<1> USE DEF PurgeInv
<1>0. /\ StartInv /\ [Next]_vars /\ run \in [Runner -> RunType] /\ NoScan.pc = "off"
      /\ RunOK(run["live"]) /\ UNCHANGED <<deletedCoords, misled, marker>>
  BY DEF StartInv, StartupTypeOK, RunType, Next, Runner, NoScan, Publish, WriteQueued, Signal, Stop,
         Boot, vars, gateVars, historyVars
<1>1. ASSUME NEW e \in Event, Publish(e) PROVE TombstonedHeld'
  <2>1. UNCHANGED <<rows, scan, cancelled, orphans>> /\ run'["backfill"] = run["backfill"]
    BY <1>0, <1>1 DEF Publish, StartRun, Runner, historyVars
  <2>2. \A r : LiveHolds(r) => LiveHolds(r)'
    BY <1>0, <1>1 DEF Publish, RunOK, LiveHolds
  <2>3. \A d, r : Due(d, r) => Due(d, r)'
    BY <1>0, <2>1 DEF Due, Ahead, InHand, ToDo
  <2> QED
    BY <1>0, <2>1, <2>2, <2>3, HeldStays
<1>2. CASE WriteQueued
  <2>1. UNCHANGED <<run, scan, cancelled, orphans>>
    BY <1>2 DEF WriteQueued, historyVars
  <2>2. \A r \in rows' : r \in rows \/ ~ RowTombstoned(r)
    BY <1>2 DEF WriteQueued, Blocked, RowTombstoned, RowOf
  <2>3. \A d, r : (LiveHolds(r) => LiveHolds(r)') /\ (Due(d, r) => Due(d, r)')
    BY <1>0, <2>1 DEF LiveHolds, Due, Ahead, InHand, ToDo
  <2> QED
    BY <1>0, <2>1, <2>2, <2>3, HeldStays
<1>3. CASE Signal
  <2>1. UNCHANGED <<rows, run, scan, orphans>> /\ cancelled'
    BY <1>3 DEF Signal, historyVars
  <2>2. \A d, r : (LiveHolds(r) => LiveHolds(r)') /\ (Due(d, r) => Due(d, r)')
    BY <1>0, <2>1 DEF LiveHolds, Due, Ahead, InHand
  <2> QED
    BY <1>0, <2>1, <2>2, HeldStays
<1>4. CASE Stop
  <2>1. /\ UNCHANGED rows /\ scan'.pc = "off" /\ orphans \subseteq orphans'
        /\ InHandOf("live") \subseteq orphans'
        /\ marker => InHandOf("backfill") \subseteq orphans'
    BY <1>0, <1>4 DEF Stop, Runner
  <2>2. \A r \in rows : LiveHolds(r) => r.id \in orphans'
    BY <2>1 DEF LiveHolds, InHandOf, StoredVersions
  <2>3. ASSUME NEW r \in rows, NEW d \in DeletionRows, Covers(d, r.body), Due(d, r), marker
        PROVE  r.id \in orphans'
    <3>1. r.body \in Event /\ InHand(d, r)
      BY <1>0, <2>3 DEF Due, StartInv, RowsOK, Row
    <3>2. r.id \in InHandOf("backfill")
      BY <2>3, <3>1 DEF InHand, InHandOf, StoredVersions, CoveredBy, Covers, Addressable
    <3> QED
      BY <2>1, <2>3, <3>2
  <2>4. \A d, r : ~ marker => Due(d, r)'
    BY <1>0, <2>1 DEF Due, Ahead
  <2> QED
    BY <1>0, <2>1, <2>2, <2>3, <2>4, HeldStays
<1>5. CASE Boot
  <2>1. UNCHANGED <<rows, run, orphans>> /\ scan'.pc \in {"off", "start"}
    BY <1>5 DEF Boot, historyVars, NoScan, ScanOK
  <2>2. \A d, r : (LiveHolds(r) => LiveHolds(r)') /\ (Due(d, r) => Due(d, r)')
    BY <1>0, <2>1 DEF LiveHolds, Due, Ahead, InHand
  <2> QED
    BY <1>0, <2>1, <2>2, HeldStays
<1>6. CASE UNCHANGED vars
  <2>1. UNCHANGED <<rows, run, scan, cancelled, orphans>>
    BY <1>6 DEF vars, historyVars
  <2>2. \A d, r : (LiveHolds(r) => LiveHolds(r)') /\ (Due(d, r) => Due(d, r)')
    BY <1>0, <2>1 DEF LiveHolds, Due, Ahead, InHand, ToDo
  <2> QED
    BY <1>0, <2>1, <2>2, HeldStays
<1> QED
  BY <1>1, <1>2, <1>3, <1>4, <1>5, <1>6

LEMMA PurgeInvInit == Init => PurgeInv
<1> SUFFICES ASSUME Init PROVE PurgeInv
  OBVIOUS
<1>1. StartInv /\ ScanOK
  BY MarkerInvInit DEF MarkerInv
<1>2. \A r \in rows : ~ RowTombstoned(r)
  <2>1. \A r \in rows : r.body \in Event
    BY <1>1 DEF StartInv, RowsOK, Row
  <2>2. ASSUME NEW e \in Event PROVE ~ Tombstoned(e)
    <3>1. createdAt[e] \in Nat /\ (IsAddressable(e) => coordOf[e] \in Coord)
      BY EventAssumption DEF IsAddressable
    <3> QED
      BY <3>1 DEF Init, GateInit, Tombstoned, NoDeletion
  <2> QED
    BY <2>1, <2>2 DEF RowTombstoned
<1> QED
  BY <1>1, <1>2 DEF PurgeInv, TombstonedHeld

LEMMA PurgeInvStep ==
  ASSUME PurgeInv, [Next]_vars
  PROVE  PurgeInv'
<1>1. StartInv' /\ ScanOK'
  BY StartInvStep, ScanOKStep DEF PurgeInv
<1>2. TombstonedHeld'
  BY HydrationHeld, NextCoordHeld, ListVersionsHeld, PurgeNextHeld, ScanStepHeld, OthersHeld
     DEF Next, Backfill, Running, Runner
<1> QED
  BY <1>1, <1>2 DEF PurgeInv

(* With the marker, no version a tombstone covers is in the raw store but  *)
(* those somebody is on the way to remove and those whose removal failed   *)
(* unseen or was cut off; whatever stopped the scans before the one that wrote the *)
(* marker, and whatever hydration and publications brought in.             *)
THEOREM NothingDeletedIsLeft == Spec => []MarkedMeansPurged
<1>1. PurgeInv => MarkedMeansPurged
  <2> SUFFICES ASSUME PurgeInv, marker, ~ misled, NEW r \in rows, RowTombstoned(r), r.id \notin orphans
               PROVE  OnItsWay(r)
    BY DEF MarkedMeansPurged
  <2>1. LiveHolds(r) \/ \E d \in DeletionRows : Covers(d, r.body) /\ InHand(d, r)
    BY DEF PurgeInv, TombstonedHeld, BackfillHolds, Due
  <2>2. CASE LiveHolds(r)
    BY <2>2 DEF LiveHolds, OnItsWay, StoredVersions, Runner
  <2>3. ASSUME NEW d \in DeletionRows, Covers(d, r.body), InHand(d, r) PROVE OnItsWay(r)
    BY <2>3 DEF PurgeInv, StartInv, RowsOK, Row, Covers, InHand, OnItsWay, StoredVersions, CoveredBy,
                Addressable, Runner
  <2> QED
    BY <2>1, <2>2, <2>3
<1> QED
  BY <1>1, PurgeInvInit, PurgeInvStep, PTL DEF Spec
=============================================================================
