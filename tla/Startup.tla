------------------------------- MODULE Startup -------------------------------
(***************************************************************************)
(* What runs when the relay starts: hydration of the raw store from the    *)
(* index (the HYDRATE_ON_START pass before the listener opens, or the CLI  *)
(* while the relay is down) and the one-shot backfill of coordinate        *)
(* tombstones, a goroutine beside live deletions and publications.         *)
(* Raw writes go through a queue with FifoStore's promise.  An             *)
(* authorDelete is one step here; RelayCore takes it apart.                *)
(***************************************************************************)
EXTENDS Gate, SequencesExt

CONSTANTS
  Legacy,       \* events that may be in the stores before the first start
  PageSize,     \* documents per page of a hydration walk
  MaxBoots,     \* bound: process starts, the CLI's included
  MaxFailures,  \* bound: failing store and search calls
  MaxRequests   \* bound: publications and live deletions

ASSUME StartupAssumption ==
  /\ Legacy \subseteq Event /\ IsFiniteSet(Legacy)
  /\ PageSize \in Nat \ {0}
  /\ MaxFailures \in Nat /\ MaxBoots \in Nat /\ MaxRequests \in Nat

VARIABLES
  rows,      \* raw store: [id, body] of each row
  index,     \* Coord -> [id, raw]: eventID and eventRaw of its document
  marker,    \* migration:coord_tombstones_v1 is recorded
  phase,     \* the process: down, or which part of main it is in
  gated,     \* the hydration running is main's, not the CLI's
  page,      \* page the hydration walk is at
  hydrated,  \* no call of this hydration has failed
  scan,      \* the backfill goroutine
  run,       \* who runs applyCoordDeletions -> how far it is
  cancelled, \* a signal has cancelled the backfill's context
  queue,     \* raw writes on their way to the store
  boots, failures, requests,
  atScan,    \* history: deletion requests stored when a scan for the marker read them
  misled,    \* history: a cut read of such a scan agreed with the count all the same
  orphans    \* history: rows whose removal failed unseen or was cut off

procVars == <<phase, gated, page, hydrated>>
boundVars == <<boots, failures, requests>>
historyVars == <<atScan, misled, orphans>>
vars == <<gateVars, rows, index, marker, procVars, scan, run, cancelled, queue, boundVars, historyVars>>

Row == [id : Event, body : Event]

RowOf(e) == [id |-> e, body |-> e]

NoEntry == [id |-> NoEvent, raw |-> NoEvent]

Runner == {"backfill", "live"}

NoRun == [del |-> NoEvent, left |-> {}, pc |-> "idle", coord |-> NoCoord, targets |-> {}]

NoScan == [pc |-> "off", count |-> 0, dels |-> {}, dirty |-> FALSE]

Addressable == {e \in Event : IsAddressable(e)}

(* Kind-5 requests among the rows. *)
DeletionRows == {r.body : r \in {s \in rows : IsDeletion(s.body)}}

StartupTypeOK ==
  /\ GateTypeOK
  /\ rows \in SUBSET Row
  /\ index \in [Coord -> {NoEntry} \cup [id : Addressable, raw : Addressable \cup {NoEvent}]]
  /\ marker \in BOOLEAN
  /\ phase \in {"down", "hydrate", "verify", "serve"}
  /\ gated \in BOOLEAN /\ hydrated \in BOOLEAN /\ cancelled \in BOOLEAN
  /\ page \in Nat
  /\ scan \in [pc : {"off", "start", "count", "drain", "events", "end"}, count : Nat,
               dels : SUBSET Event, dirty : BOOLEAN]
  /\ run \in [Runner -> [del : Event \cup {NoEvent}, left : SUBSET Coord,
                         pc : {"idle", "coords", "list", "purge"},
                         coord : Coord \cup {NoCoord}, targets : SUBSET Event]]
  /\ queue \in Seq(Event)
  /\ boots \in 0..MaxBoots /\ failures \in 0..MaxFailures /\ requests \in 0..MaxRequests
  /\ atScan \in SUBSET Event /\ misled \in BOOLEAN /\ orphans \in SUBSET Event

(* A call fails; its error is seen or not. *)
Fail(n) == failures + n <= MaxFailures /\ failures' = failures + n

-----------------------------------------------------------------------------
(* Hydration. *)

(* isBlocked of a row: its id may differ from the id of its body. *)
RowTombstoned(r) == Tombstoned(r.body)
RowBlocked(r) == signer[r.body] \in bannedPubKeys \/ IdBlocked(r.id) \/ RowTombstoned(r)

(* SaveEvent: a row with that id is ErrDupEvent. *)
SavedRows(rs) == rows \cup {r \in rs : \A s \in rows : s.id # r.id}

(* Mutant of Admitted: the start-up pass writes to the bare store too. *)
AdmittedUngated(rs) == rs

(* gatedRawStore.SaveEvent skips a blocked event; the CLI's store is bare. *)
Admitted(rs) == IF gated THEN {r \in rs : ~ RowBlocked(r)} ELSE rs

(* The documents of the collection in some order, a page at a time. *)
Walk == SetToSeq({c \in Coord : index[c] # NoEntry})
PageOf(p) == {Walk[i] : i \in ((p - 1) * PageSize + 1)..(p * PageSize) \cap DOMAIN Walk}

(* FetchPage skips the documents without an eventRaw. *)
FetchPage(p) == {c \in Coord : index[c].raw # NoEvent} \cap PageOf(p)

(* Pass 1 saves what eventRaw holds. *)
CanonicalRows(docs) == {RowOf(index[c].raw) : c \in docs}

(* Mutant of MissingRows: the row goes under the id of its contents. *)
MissingRowsCanonical(docs) == CanonicalRows(docs)

(* The verify pass adds a row under the document's eventID where the store *)
(* has none.                                                               *)
MissingRows(docs) ==
  {[id |-> index[c].id, body |-> index[c].raw] :
     c \in {d \in docs : \A r \in rows : r.id # index[d].id}}

(* main goes on to serve and starts the backfill; the CLI exits. *)
EndHydration ==
  /\ page' = 1
  /\ phase' = IF gated THEN "serve" ELSE "down"
  /\ scan' = IF gated THEN [NoScan EXCEPT !.pc = "start"] ELSE NoScan

(* The walk ends at a page that is not full. *)
NextPage(n) ==
  \/ n = PageSize /\ page' = page + 1 /\ UNCHANGED <<phase, scan>>
  \/ n < PageSize /\ phase = "hydrate" /\ phase' = "verify" /\ page' = 1 /\ UNCHANGED scan
  \/ n < PageSize /\ phase = "verify" /\ EndHydration

(* HydrateBatch and the verify loop, a page of documents; the saves of the *)
(* documents in failed fail, which aborts nothing.                         *)
HydratePage ==
  /\ phase \in {"hydrate", "verify"}
  /\ LET docs == FetchPage(page)
         new(ds) == IF phase = "hydrate" THEN CanonicalRows(ds) ELSE MissingRows(ds)
     IN \E failed \in SUBSET docs :
          /\ Fail(Cardinality(failed))
          /\ hydrated' = (hydrated /\ failed = {})
          /\ rows' = SavedRows(Admitted(new(docs \ failed)))
          /\ NextPage(Cardinality(docs))
  /\ orphans' = IF gated THEN orphans
                ELSE orphans \cup {r.id : r \in {s \in rows' \ rows : RowTombstoned(s)}}
  /\ UNCHANGED <<gateVars, index, marker, gated, run, cancelled, queue, boots, requests, atScan, misled>>

(* A page that cannot be fetched ends the run; main goes on without it. *)
FetchFails ==
  /\ phase \in {"hydrate", "verify"}
  /\ Fail(1)
  /\ hydrated' = FALSE
  /\ EndHydration
  /\ UNCHANGED <<gateVars, rows, index, marker, gated, run, cancelled, queue, boots, requests, historyVars>>

-----------------------------------------------------------------------------
(* applyCoordDeletions, for the backfill and for a live request. *)

CoveredBy(d, c) == {e \in Addressable : coordOf[e] = c /\ createdAt[e] <= createdAt[d]}

StartRun(a, d) ==
  run' = [run EXCEPT ![a] = [NoRun EXCEPT !.del = d, !.left = SameAuthorCoords(d), !.pc = "coords"]]

EndRun(a) == run' = [run EXCEPT ![a] = NoRun]

(* Errors are counted for the backfill; a live caller ignores them. *)
Counted(a, failed) ==
  scan' = IF a = "backfill" /\ failed THEN [scan EXCEPT !.dirty = TRUE] ELSE scan

(* The next coordinate is tombstoned first; or nothing is left to do, or   *)
(* the context was cancelled.                                              *)
NextCoord(a) ==
  /\ run[a].pc = "coords"
  /\ \/ /\ run[a].left = {} \/ (a = "backfill" /\ cancelled)
        /\ EndRun(a)
        /\ UNCHANGED <<scan, gateVars, failures>>
     \/ /\ ~ (a = "backfill" /\ cancelled)
        /\ \E c \in run[a].left :
             /\ run' = [run EXCEPT ![a].left = @ \ {c}, ![a].coord = c, ![a].pc = "list"]
             /\ \/ MarkCoordDeleted(c, createdAt[run[a].del]) /\ UNCHANGED <<scan, failures>>
                \/ Fail(1) /\ Counted(a, TRUE) /\ UNCHANGED gateVars
  /\ UNCHANGED <<rows, index, marker, procVars, cancelled, queue, boots, requests, historyVars>>

(* Rows and documents of versions up to the request's time. *)
StoredVersions(d, c) == {r.id : r \in {s \in rows : s.body \in CoveredBy(d, c)}}

IndexedVersions(d, c) == {index[k].id : k \in {l \in Coord : index[l].raw \in CoveredBy(d, c)}}

(* A listing that fails looks like one that found nothing. *)
ListVersions(a) ==
  /\ run[a].pc = "list"
  /\ LET stored == StoredVersions(run[a].del, run[a].coord)
         indexed == IndexedVersions(run[a].del, run[a].coord)
     IN \E cut \in SUBSET {"raw", "index"} :
          /\ Fail(Cardinality(cut))
          /\ run' = [run EXCEPT ![a].pc = "purge",
                       ![a].targets = (IF "raw" \in cut THEN {} ELSE stored)
                                        \cup (IF "index" \in cut THEN {} ELSE indexed)]
          /\ orphans' = orphans \cup (stored \ run'[a].targets)
  /\ UNCHANGED <<gateVars, rows, index, marker, procVars, scan, cancelled, queue, boots, requests, atScan, misled>>

(* authorDelete of the next version: tombstone of the id, raw store, every *)
(* collection; only the failure of the last is reported.                   *)
PurgeNext(a) ==
  /\ run[a].pc = "purge"
  /\ \/ /\ run[a].targets = {}
        /\ run' = [run EXCEPT ![a].pc = "coords", ![a].coord = NoCoord]
        /\ UNCHANGED <<gateVars, rows, index, scan, failures, orphans>>
     \/ \E e \in run[a].targets, bad \in SUBSET {"mark", "raw", "index"} :
          /\ Fail(Cardinality(bad))
          /\ run' = [run EXCEPT ![a].targets = @ \ {e}]
          /\ IF "mark" \in bad THEN UNCHANGED gateVars ELSE MarkEventDeleted(e)
          /\ rows' = IF "raw" \in bad THEN rows ELSE {r \in rows : r.id # e}
          /\ orphans' = IF "raw" \in bad THEN orphans \cup {e} ELSE orphans
          /\ index' = IF "index" \in bad THEN index
                      ELSE [c \in Coord |-> IF index[c].id = e THEN NoEntry ELSE index[c]]
          /\ Counted(a, "index" \in bad)
  /\ UNCHANGED <<marker, procVars, cancelled, queue, boots, requests, atScan, misled>>

Running(a) == NextCoord(a) \/ ListVersions(a) \/ PurgeNext(a)

-----------------------------------------------------------------------------
(* backfillCoordTombstones. *)

scanOnly == <<gateVars, rows, index, procVars, cancelled, queue, boots, requests, orphans>>

(* Any error ends the scan without the marker, until the next start. *)
ScanFails ==
  /\ scan.pc \in {"start", "count", "end"}
  /\ Fail(1)
  /\ scan' = NoScan
  /\ UNCHANGED <<scanOnly, marker, run, atScan, misled>>

(* COORD_TOMBSTONE_BACKFILL_FORCE has a marked database scanned again.     *)
CheckMarker ==
  /\ scan.pc = "start"
  /\ \/ marker /\ scan' = NoScan
     \/ scan' = [scan EXCEPT !.pc = "count"]
  /\ UNCHANGED <<scanOnly, marker, run, failures, atScan, misled>>

(* Mutant of CountDeletions: the count is of all events. *)
CountEverything ==
  /\ scan.pc = "count"
  /\ scan' = [scan EXCEPT !.pc = "drain", !.count = Cardinality(rows)]
  /\ UNCHANGED <<scanOnly, marker, run, failures, atScan, misled>>

CountDeletions ==
  /\ scan.pc = "count"
  /\ scan' = [scan EXCEPT !.pc = "drain", !.count = Cardinality(DeletionRows)]
  /\ UNCHANGED <<scanOnly, marker, run, failures, atScan, misled>>

(* QueryEvents yields newest first and stops silently where a read fails. *)
CutReads == {ds \in SUBSET DeletionRows :
               \A d \in ds, f \in DeletionRows \ ds : IsOlder(f, d)}

(* The drain must find as many as were counted. *)
Agrees(ds) == Cardinality(ds) = scan.count

DrainDeletions ==
  /\ scan.pc = "drain"
  /\ \E ds \in CutReads :
       /\ Fail(IF ds = DeletionRows THEN 0 ELSE 1)
       /\ scan' = IF Agrees(ds) THEN [scan EXCEPT !.pc = "events", !.dels = ds] ELSE NoScan
       /\ misled' = (misled \/ (~ marker /\ scan.count = Cardinality(ds) /\ ds # DeletionRows))
  /\ atScan' = IF marker THEN atScan ELSE DeletionRows
  /\ UNCHANGED <<scanOnly, marker, run>>

(* The next request, newest first. *)
NextDeletion ==
  /\ scan.pc = "events" /\ run["backfill"].pc = "idle"
  /\ \/ cancelled /\ scan.dels # {} /\ scan' = NoScan /\ UNCHANGED run
     \/ scan.dels = {} /\ scan' = [scan EXCEPT !.pc = "end"] /\ UNCHANGED run
     \/ /\ ~ cancelled
        /\ \E d \in scan.dels :
             /\ \A f \in scan.dels : ~ IsOlder(d, f)
             /\ scan' = [scan EXCEPT !.dels = @ \ {d}]
             /\ StartRun("backfill", d)
  /\ UNCHANGED <<scanOnly, marker, failures, atScan, misled>>

(* Mutant of MarkComplete: no look at the context after the last request. *)
MarkCompleteUnchecked ==
  /\ scan.pc = "end"
  /\ marker' = (marker \/ ~ scan.dirty)
  /\ scan' = NoScan
  /\ UNCHANGED <<scanOnly, run, failures, atScan, misled>>

(* The marker, after a scan without an error and not cancelled. *)
MarkComplete ==
  /\ scan.pc = "end"
  /\ marker' = (marker \/ (~ scan.dirty /\ ~ cancelled))
  /\ scan' = NoScan
  /\ UNCHANGED <<scanOnly, run, failures, atScan, misled>>

Backfill ==
  \/ CheckMarker \/ CountDeletions \/ DrainDeletions \/ NextDeletion \/ MarkComplete
  \/ ScanFails \/ Running("backfill")

-----------------------------------------------------------------------------
(* What goes on beside it. *)

(* A publication is let through and queued; so is a deletion request,      *)
(* whose handler then works through its coordinates.                       *)
Publish(e) ==
  /\ phase = "serve" /\ requests < MaxRequests
  /\ ~ Blocked(e)
  /\ IF IsDeletion(e) THEN run["live"].pc = "idle" /\ StartRun("live", e) ELSE UNCHANGED run
  /\ queue' = Append(queue, e)
  /\ requests' = requests + 1
  /\ UNCHANGED <<gateVars, rows, index, marker, procVars, scan, cancelled, boots, failures, historyVars>>

(* The head of the queue is written unless the gate blocks it by now; the  *)
(* projection of a version accompanies it.                                 *)
WriteQueued ==
  /\ queue # <<>>
  /\ queue' = Tail(queue)
  /\ LET e == Head(queue)
         older == {r \in rows : IsAddressable(e) /\ coordOf[r.body] = coordOf[e] /\ IsOlder(r.body, e)}
         newer == \E r \in rows \ older : IsAddressable(e) /\ coordOf[r.body] = coordOf[e]
     IN IF Blocked(e) THEN UNCHANGED <<rows, index>>
        ELSE /\ rows' = (rows \ older) \cup (IF newer THEN {} ELSE {RowOf(e)})
             /\ index' = IF IsAddressable(e)
                         THEN [index EXCEPT ![coordOf[e]] = [id |-> e, raw |-> e]] ELSE index
  /\ UNCHANGED <<gateVars, marker, procVars, scan, run, cancelled, boundVars, historyVars>>

(* SIGTERM: the backfill's context is cancelled. *)
Signal ==
  /\ phase = "serve" /\ ~ cancelled
  /\ cancelled' = TRUE
  /\ UNCHANGED <<gateVars, rows, index, marker, procVars, scan, run, queue, boundVars, historyVars>>

(* What a run was about to remove. *)
InHandOf(a) ==
  run[a].targets \cup (IF run[a].pc = "list" THEN StoredVersions(run[a].del, run[a].coord) ELSE {})

(* The process ends, whatever it was at: by a crash, or because main does  *)
(* not wait longer for the backfill.  No later scan need take up what a    *)
(* live request or the scan of a marked database was removing.             *)
Stop ==
  /\ phase # "down"
  /\ phase' = "down" /\ gated' = TRUE /\ page' = 1 /\ hydrated' = FALSE
  /\ scan' = NoScan /\ cancelled' = FALSE /\ queue' = <<>>
  /\ run' = [a \in Runner |-> NoRun]
  /\ orphans' = orphans \cup UNION {InHandOf(a) : a \in {b \in Runner : b = "live" \/ marker}}
  /\ UNCHANGED <<gateVars, rows, index, marker, boundVars, atScan, misled>>

(* The relay starts, with or without HYDRATE_ON_START, or the CLI. *)
Boot ==
  /\ phase = "down" /\ boots < MaxBoots
  /\ boots' = boots + 1
  /\ hydrated' = TRUE /\ page' = 1
  /\ \/ phase' = "hydrate" /\ gated' \in BOOLEAN /\ UNCHANGED scan
     \/ phase' = "serve" /\ gated' = TRUE /\ scan' = [NoScan EXCEPT !.pc = "start"]
  /\ UNCHANGED <<gateVars, rows, index, marker, run, cancelled, queue, failures, requests, historyVars>>

(* A database from before the tombstones: the deletion requests, any other *)
(* rows, and in the index, for any coordinate, any of its versions, under  *)
(* an eventID that may differ, or a document without eventRaw.             *)
Init ==
  /\ GateInit
  /\ rows \in {rs \in SUBSET {RowOf(e) : e \in Legacy} :
               \A d \in Legacy : IsDeletion(d) => RowOf(d) \in rs}
  /\ index \in {ix \in [Coord -> {NoEntry} \cup [id : Addressable \cap Legacy,
                                                 raw : (Addressable \cap Legacy) \cup {NoEvent}]] :
                  \A c \in Coord : ix[c] # NoEntry =>
                    coordOf[ix[c].id] = c /\ (ix[c].raw = NoEvent \/ coordOf[ix[c].raw] = c)}
  /\ marker = FALSE /\ phase = "down" /\ gated = TRUE /\ page = 1 /\ hydrated = FALSE
  /\ scan = NoScan /\ run = [a \in Runner |-> NoRun] /\ cancelled = FALSE /\ queue = <<>>
  /\ boots = 0 /\ failures = 0 /\ requests = 0
  /\ atScan = {} /\ misled = FALSE /\ orphans = {}

Hydration == HydratePage \/ FetchFails

Next ==
  \/ Hydration \/ Backfill \/ Running("live") \/ WriteQueued
  \/ \E e \in Event : Publish(e)
  \/ Signal \/ Stop \/ Boot

Spec == Init /\ [][Next]_vars

(* The backfill's goroutine is scheduled and its calls return, with        *)
(* success or not; nothing else need happen for it to end.                 *)
FairSpec == Spec /\ WF_vars(Backfill)

-----------------------------------------------------------------------------
(* Properties. *)

(* The marker is honest: once it is written, and no later start need look  *)
(* again, every coordinate of every deletion request that was stored when  *)
(* the scan read them is tombstoned up to the request's time; the scan may *)
(* have been cut off, cancelled or have met errors any number of times,    *)
(* and may be forced again later.                                          *)
(* Except when a read that failed half-way found as many requests as had   *)
(* been counted before newer ones arrived.                                 *)
MarkerHonest ==
  marker /\ ~ misled =>
    \A d \in atScan : \A c \in SameAuthorCoords(d) : createdAt[d] <= deletedCoords[c]

(* With the marker, no version a tombstone covers is in the raw store but  *)
(* those somebody is on the way to remove and those whose removal failed   *)
(* unseen: neither hydration nor a publication under way puts one back.    *)
OnItsWay(r) ==
  \E a \in Runner : \/ r.id \in run[a].targets
                    \/ run[a].pc = "list" /\ r.id \in StoredVersions(run[a].del, run[a].coord)

MarkedMeansPurged ==
  marker /\ ~ misled => \A r \in rows : RowTombstoned(r) => OnItsWay(r) \/ r.id \in orphans

(* A hydration without errors leaves a row under the eventID of every      *)
(* document the gate lets through, or it drops out of REQ pagination; that *)
(* is, if every document has an eventRaw: one without ends the walk early. *)
HydrationCompletes ==
  [][phase = "verify" /\ phase' \in {"serve", "down"} /\ hydrated' =>
       \A c \in Coord :
         \/ \E k \in Coord : index[k] # NoEntry /\ index[k].raw = NoEvent
         \/ index[c] = NoEntry
         \/ \E r \in rows' : r.id = index[c].id
         \/ RowBlocked([id |-> index[c].id, body |-> index[c].raw])]_vars

(* A start that is left to work, with calls that succeed, ends with the    *)
(* marker, so the scan does not run at every start for ever.               *)
BackfillCompletes ==
  scan.pc = "start" ~> marker \/ failures > 0 \/ cancelled \/ phase = "down" \/ requests > 0
=============================================================================
