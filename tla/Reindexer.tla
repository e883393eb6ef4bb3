------------------------------- MODULE Reindexer -------------------------------
(***************************************************************************)
(* Reindexer (reindex.go): rebuilds every search collection from the raw   *)
(* store while the relay goes on serving.  A collection is dropped, the    *)
(* events are walked newest first in one read transaction, one version per *)
(* document is upserted, and the fetched fulltext is patched back from its *)
(* durable rows.  With it the writers it meets: publications, bans, and    *)
(* the indexer's setcontent and refetchcontent (main.go).                  *)
(*                                                                         *)
(* The two write buffers are taken as what they promise: FifoStore, and    *)
(* ProjectionLog with one write taken at a time.  Structured content is    *)
(* that of publications, the only such kind with fulltext.                 *)
(***************************************************************************)
EXTENDS RawStore, Sequences

CONSTANTS
  BatchSize,   \* reindexBatchSize
  Failing,     \* whether calls to the search backend may fail
  QueueSize,   \* capacity of either buffer
  MaxStarts,   \* bound: requests and admin calls
  MaxRuns      \* bound: reindex runs

ASSUME ReindexAssumption ==
  /\ BatchSize \in Nat \ {0} /\ QueueSize \in Nat \ {0}
  /\ Failing \in BOOLEAN
  /\ \A e \in Event : IsAddressable(e)
  /\ \A e, f \in Event : idRank[e] = idRank[f] => e = f

VARIABLES
  bolt,       \* events in the raw store
  boltQueue,  \* its accepted writes
  rows,       \* bucket fetched_content: events with a row
  docs,       \* Coord -> its document: the version, and whose fulltext it carries
  tsQueue,    \* accepted projection tasks
  gone,       \* events the gate blocks
  job,        \* Caller -> the request its goroutine is serving
  run,        \* the reindex goroutine
  calm,       \* history: since the run began, nobody else acted and nothing failed
  unseen,     \* history: events missing from the raw store since the run read the rows
  starts, runs

stores == <<bolt, boltQueue, rows, docs, tsQueue, gone>>
bounds == <<starts, runs>>
vars == <<stores, job, run, calm, unseen, bounds>>

OptEvent == Event \cup {NoEvent}

NoDoc == [ev |-> NoEvent, text |-> NoEvent]

(* An upsert replaces the whole document, its fulltext included. *)
Projected(e) == [ev |-> e, text |-> NoEvent]

(* A PATCH of a document that is not there is a 404. *)
Patched(ds, e, text) ==
  IF ds[coordOf[e]] = NoDoc THEN ds ELSE [ds EXCEPT ![coordOf[e]].text = text]

Task == [op : {"event", "content", "delete"}, ev : Event, text : OptEvent]

NoJob == [pc |-> "idle", ev |-> NoEvent, text |-> NoEvent]

(* left: still to be walked.  kept: the dedup's winner so far.  todo: rows *)
(* still to be classified.  live: rows still to be replayed.               *)
Resting == [pc |-> "idle", coll |-> "amb", left |-> {}, walked |-> {},
            kept |-> [c \in Coord |-> NoEvent], batch |-> <<>>, todo |-> {}, live |-> {}, orphans |-> {}]

ReindexTypeOK ==
  /\ bolt \in SUBSET Event /\ rows \in SUBSET Event /\ gone \in SUBSET Event
  /\ boltQueue \in Seq(BoltOp) /\ tsQueue \in Seq(Task)
  /\ docs \in [Coord -> [ev : OptEvent, text : OptEvent]]
  /\ \A c \in Coord : docs[c].ev = NoEvent => docs[c] = NoDoc
  /\ job \in [Caller -> [pc : {"idle", "queue", "index", "put", "send",
                               "purgeBolt", "purgeRow", "purgeIndex", "queueDelete"},
                         ev : OptEvent, text : OptEvent]]
  /\ run.pc \in {"idle", "recreate", "open", "walk", "flush", "rows", "classify", "collect",
                 "replay", "after"}
  /\ run.coll \in Collection
  /\ run.left \in SUBSET Event /\ run.walked \in SUBSET Event
  /\ run.kept \in [Coord -> OptEvent]
  /\ run.batch \in Seq(Event) /\ Len(run.batch) <= BatchSize
  /\ \A i \in DOMAIN run.batch : IsAmb(run.batch[i])
  /\ run.todo \in SUBSET Event /\ run.live \in SUBSET Event /\ run.orphans \in SUBSET Event
  /\ calm \in BOOLEAN /\ unseen \in SUBSET Event
  /\ starts \in Nat /\ runs \in Nat

(* What earlier lives of the relay left: any versions, any rows of theirs, *)
(* and a search backend that starts empty.                                 *)
Init ==
  /\ bolt \in SUBSET Event /\ rows \in SUBSET Event
  /\ boltQueue = <<>> /\ tsQueue = <<>>
  /\ docs = [c \in Coord |-> NoDoc]
  /\ gone = {}
  /\ job = [h \in Caller |-> NoJob]
  /\ run = Resting
  /\ calm = FALSE /\ unseen = {}
  /\ starts = 0 /\ runs = 0

(* A relay that has nothing yet. *)
FreshInit == Init /\ bolt = {} /\ rows = {}

-----------------------------------------------------------------------------
(* The other writers. *)

Begin(h, j) ==
  /\ job[h].pc = "idle"
  /\ starts < MaxStarts
  /\ starts' = starts + 1
  /\ job' = [job EXCEPT ![h] = j]
  /\ calm' = FALSE
  /\ UNCHANGED <<run, unseen, runs>>

Goto(h, pc) ==
  /\ job' = [job EXCEPT ![h] = IF pc = "idle" THEN NoJob ELSE [@ EXCEPT !.pc = pc]]
  /\ calm' = FALSE
  /\ UNCHANGED <<run, bounds>>

AcceptTask(op, e, text) ==
  /\ Len(tsQueue) < QueueSize
  /\ tsQueue' = Append(tsQueue, [op |-> op, ev |-> e, text |-> text])

(* A call to the search backend: it has its effect or fails. *)
MayFail(new) == docs' \in {new} \cup (IF Failing THEN {docs} ELSE {})

Publish(h, e) ==
  /\ e \notin gone
  /\ Begin(h, [NoJob EXCEPT !.pc = "queue", !.ev = e])
  /\ UNCHANGED stores

QueueBolt(h) ==
  /\ job[h].pc = "queue"
  /\ Len(boltQueue) < QueueSize
  /\ boltQueue' = Append(boltQueue, [ev |-> job[h].ev, replace |-> TRUE])
  /\ Goto(h, "index")
  /\ UNCHANGED <<bolt, rows, docs, tsQueue, gone, unseen>>

StoreIndex(h) ==
  LET e == job[h].ev
  IN /\ job[h].pc = "index"
     /\ \/ IsAmb(e) /\ AcceptTask("event", e, NoEvent) /\ UNCHANGED docs
        \/ ~ IsAmb(e) /\ MayFail([docs EXCEPT ![coordOf[e]] = Projected(e)]) /\ UNCHANGED tsQueue
     /\ Goto(h, "idle")
     /\ UNCHANGED <<bolt, boltQueue, rows, gone, unseen>>

(* setcontent and refetchcontent: only for an event the raw store holds;   *)
(* the row is written or deleted first.                                    *)
SetContent(h, e, text) ==
  /\ e \in bolt
  /\ Begin(h, [pc |-> "put", ev |-> e, text |-> text])
  /\ UNCHANGED stores

PutRow(h) ==
  /\ job[h].pc = "put"
  /\ rows' = IF job[h].text = NoEvent THEN rows \ {job[h].ev} ELSE rows \cup {job[h].ev}
  /\ Goto(h, "send")
  /\ UNCHANGED <<bolt, boltQueue, docs, tsQueue, gone, unseen>>

(* Publications are patched directly, the rest goes through the buffer. *)
SendContent(h) ==
  LET e == job[h].ev
  IN /\ job[h].pc = "send"
     /\ \/ IsAmb(e) /\ AcceptTask("content", e, job[h].text) /\ UNCHANGED docs
        \/ ~ IsAmb(e) /\ MayFail(Patched(docs, e, job[h].text)) /\ UNCHANGED tsQueue
     /\ Goto(h, "idle")
     /\ UNCHANGED <<bolt, boltQueue, rows, gone, unseen>>

(* A ban or deletion of an event: the gate, then the purge. *)
Ban(h, e) ==
  /\ Begin(h, [NoJob EXCEPT !.pc = "purgeBolt", !.ev = e])
  /\ gone' = gone \cup {e}
  /\ UNCHANGED <<bolt, boltQueue, rows, docs, tsQueue>>

PurgeBolt(h) ==
  /\ job[h].pc = "purgeBolt"
  /\ bolt' = bolt \ {job[h].ev}
  /\ unseen' = unseen \cup {job[h].ev}
  /\ Goto(h, "purgeRow")
  /\ UNCHANGED <<boltQueue, rows, docs, tsQueue, gone>>

PurgeRow(h) ==
  /\ job[h].pc = "purgeRow"
  /\ rows' = rows \ {job[h].ev}
  /\ Goto(h, "purgeIndex")
  /\ UNCHANGED <<bolt, boltQueue, docs, tsQueue, gone, unseen>>

Removed(e) == [c \in Coord |-> IF docs[c].ev = e THEN NoDoc ELSE docs[c]]

PurgeIndex(h) ==
  /\ job[h].pc = "purgeIndex"
  /\ MayFail(Removed(job[h].ev))
  /\ Goto(h, "queueDelete")
  /\ UNCHANGED <<bolt, boltQueue, rows, tsQueue, gone, unseen>>

QueueDelete(h) ==
  /\ job[h].pc = "queueDelete"
  /\ AcceptTask("delete", job[h].ev, NoEvent)
  /\ Goto(h, "idle")
  /\ UNCHANGED <<bolt, boltQueue, rows, docs, gone, unseen>>

(* banpubkey removes nothing. *)
BanPubKey(p) ==
  /\ starts < MaxStarts
  /\ starts' = starts + 1
  /\ gone' = gone \cup {e \in Event : signer[e] = p}
  /\ calm' = FALSE
  /\ UNCHANGED <<bolt, boltQueue, rows, docs, tsQueue, job, run, unseen, runs>>

(* The buffers' workers. *)
BoltWorker ==
  LET op == Head(boltQueue)
  IN /\ boltQueue # <<>>
     /\ boltQueue' = Tail(boltQueue)
     /\ bolt' = IF op.ev \in gone THEN bolt ELSE Written(bolt, op)
     /\ unseen' = unseen \cup (Event \ bolt')
     /\ calm' = FALSE
     /\ UNCHANGED <<rows, docs, tsQueue, gone, job, run, bounds>>

(* What a task may do; a content task upserts its event, then patches.     *)
Lost(ds) == IF Failing THEN {ds} ELSE {}

Upserts(e) == {[docs EXCEPT ![coordOf[e]] = Projected(e)]} \cup Lost(docs)

Outcomes(t) ==
  CASE t.op = "delete"                         -> {IF IsAmb(t.ev) THEN Removed(t.ev) ELSE docs} \cup Lost(docs)
    [] t.op # "delete" /\ t.ev \in gone        -> {docs}
    [] t.op = "event" /\ t.ev \notin gone      -> Upserts(t.ev)
    [] t.op = "content" /\ t.ev \notin gone    -> UNION {{Patched(ds, t.ev, t.text)} \cup Lost(ds) : ds \in Upserts(t.ev)}

TSWorker ==
  /\ tsQueue # <<>>
  /\ tsQueue' = Tail(tsQueue)
  /\ docs' \in Outcomes(Head(tsQueue))
  /\ calm' = FALSE
  /\ UNCHANGED <<bolt, boltQueue, rows, gone, job, run, unseen, bounds>>

-----------------------------------------------------------------------------
(* The run. *)

UnchangedOthers == UNCHANGED <<boltQueue, tsQueue, gone, job, starts>>

(* Every step of the run that touches neither the index nor the rows.      *)
RunGoes(next) ==
  /\ run' = next
  /\ UNCHANGED <<bolt, rows, docs, calm, unseen, runs>> /\ UnchangedOthers

(* A call of the run to the search backend: the documents it leaves, and   *)
(* where the run goes; a failure is counted.                               *)
RunCalls(new, next) ==
  /\ run' = next
  /\ \/ docs' = new /\ UNCHANGED calm
     \/ Failing /\ UNCHANGED docs /\ calm' = FALSE
  /\ UNCHANGED <<bolt, rows, unseen, runs>> /\ UnchangedOthers

(* Start: one run at a time. *)
Start ==
  /\ run.pc = "idle"
  /\ runs < MaxRuns
  /\ runs' = runs + 1
  /\ run' = [Resting EXCEPT !.pc = "recreate"]
  /\ calm' = (boltQueue = <<>> /\ tsQueue = <<>> /\ \A h \in Caller : job[h] = NoJob)
  /\ UNCHANGED <<bolt, rows, docs, unseen>> /\ UnchangedOthers

Emptied == [c \in Coord |-> IF collection[c] = run.coll THEN NoDoc ELSE docs[c]]

(* Drop and recreate.  The AMB collection first: when that fails the run   *)
(* is over; when that of a structured one fails the run passes on.  The    *)
(* failure may be the drop's or come after it.                             *)
Recreate ==
  /\ run.pc = "recreate"
  /\ run' = [run EXCEPT !.pc = "open"]
  /\ docs' = Emptied
  /\ UNCHANGED <<bolt, rows, calm, unseen, runs>> /\ UnchangedOthers

RecreateFails ==
  /\ run.pc = "recreate"
  /\ Failing
  /\ docs' \in {docs, Emptied}
  /\ run' = IF run.coll = "amb" THEN Resting ELSE [run EXCEPT !.pc = "after"]
  /\ calm' = FALSE
  /\ UNCHANGED <<bolt, rows, unseen, runs>> /\ UnchangedOthers

(* The read transaction of the walk. *)
OpenWalk ==
  /\ run.pc = "open"
  /\ RunGoes([run EXCEPT !.pc = "walk",
                         !.left = {e \in bolt : collection[coordOf[e]] = run.coll}])

(* AddressDedup: an event is kept if it is the first of its document, or   *)
(* the kept one is older.                                                  *)
Keep(e) == run.kept[coordOf[e]] = NoEvent \/ IsOlder(run.kept[coordOf[e]], e)

(* What the run knows once it has walked e. *)
Visited(e) ==
  CASE e \in gone                 -> [run EXCEPT !.left = @ \ {e}]
    [] e \notin gone /\ ~ Keep(e) -> [run EXCEPT !.left = @ \ {e}, !.walked = @ \cup {e}]
    [] OTHER -> [run EXCEPT !.left = @ \ {e}, !.walked = @ \cup {e}, !.kept[coordOf[e]] = e,
                            !.batch = IF IsAmb(e) THEN Append(@, e) ELSE @]

(* The walk is newest first; within a second the order is the store's. *)
NextInWalk(e) == e \in run.left /\ \A f \in run.left : createdAt[f] <= createdAt[e]

(* AMB documents are upserted in batches. *)
WalkAmb ==
  /\ run.pc = "walk" /\ run.coll = "amb"
  /\ Len(run.batch) < BatchSize
  /\ \E e \in Event : NextInWalk(e) /\ RunGoes(Visited(e))

(* BatchUpsertEvents: of two versions in a batch the last one stays; any   *)
(* of the documents may fail.                                              *)
Flush ==
  LET last(c, landed) == {i \in landed : coordOf[run.batch[i]] = c /\
                            \A j \in landed : coordOf[run.batch[j]] = c => j <= i}
  IN /\ run.pc = "walk" /\ run.coll = "amb"
     /\ run.batch # <<>>
     /\ Len(run.batch) = BatchSize \/ run.left = {}
     /\ run' = [run EXCEPT !.batch = <<>>]
     /\ \E landed \in SUBSET DOMAIN run.batch :
          /\ Failing \/ landed = DOMAIN run.batch
          /\ docs' = [c \in Coord |->
                        IF last(c, landed) = {} THEN docs[c]
                        ELSE Projected(run.batch[CHOOSE i \in last(c, landed) : TRUE])]
          /\ calm' = (calm /\ landed = DOMAIN run.batch)
     /\ UNCHANGED <<bolt, rows, unseen, runs>> /\ UnchangedOthers

(* A structured document is upserted as it is walked. *)
WalkStructured ==
  /\ run.pc = "walk" /\ run.coll = "structured"
  /\ \E e \in Event :
       /\ NextInWalk(e)
       /\ RunCalls(IF e \notin gone /\ Keep(e) THEN [docs EXCEPT ![coordOf[e]] = Projected(e)] ELSE docs,
                   Visited(e))

Walked ==
  /\ run.pc = "walk" /\ run.left = {} /\ run.batch = <<>>
  /\ RunGoes([run EXCEPT !.pc = "rows"])

(* The rows, read in one transaction.  In the AMB pass those of events     *)
(* that were not walked are candidates for collection.                     *)
ReadRows ==
  /\ run.pc = "rows"
  /\ run' = IF run.coll = "amb"
            THEN [run EXCEPT !.pc = "classify", !.todo = rows \ run.walked,
                             !.live = rows \cap run.walked]
            ELSE [run EXCEPT !.pc = "replay", !.live = rows]
  /\ unseen' = Event \ bolt
  /\ UNCHANGED <<bolt, rows, docs, calm, runs>> /\ UnchangedOthers

(* Mutant of IsOrphan: every row that was not walked is an orphan. *)
IsOrphanUnlessWalked(e) == TRUE

(* classifyOrphans asks the raw store itself. *)
IsOrphan(e) == e \notin bolt

Classify ==
  /\ run.pc = "classify"
  /\ \E e \in run.todo :
       RunGoes([run EXCEPT !.todo = @ \ {e}, !.orphans = IF IsOrphan(e) THEN @ \cup {e} ELSE @])

Classified ==
  /\ run.pc = "classify" /\ run.todo = {}
  /\ RunGoes([run EXCEPT !.pc = "collect"])

Collect ==
  /\ run.pc = "collect"
  /\ \E e \in run.orphans :
       /\ run' = [run EXCEPT !.orphans = @ \ {e}]
       /\ rows' = rows \ {e}
  /\ UNCHANGED <<bolt, docs, calm, unseen, runs>> /\ UnchangedOthers

Collected ==
  /\ run.pc = "collect" /\ run.orphans = {}
  /\ RunGoes([run EXCEPT !.pc = "replay"])

(* Mutant of NextToReplay: in the order of the bucket. *)
NextToReplayById(e) == \A f \in run.live : idRank[e] <= idRank[f]

(* orderContentReplay: the version that wins the document comes last.      *)
NextToReplay(e) == \A f \in run.live : ~ IsOlder(f, e)

Replay ==
  /\ run.pc = "replay" /\ run.coll = "amb"
  /\ \E e \in run.live :
       /\ NextToReplay(e)
       /\ RunCalls(Patched(docs, e, e), [run EXCEPT !.live = @ \ {e}])

(* The publications' own replay goes through the rows in the order of      *)
(* their ids, and passes over what is not a publication in the raw store.  *)
ReplayPublications ==
  /\ run.pc = "replay" /\ run.coll = "structured"
  /\ \E e \in run.live :
       /\ \A f \in run.live : idRank[e] <= idRank[f]
       /\ RunCalls(IF e \in bolt /\ ~ IsAmb(e) THEN Patched(docs, e, e) ELSE docs,
                   [run EXCEPT !.live = @ \ {e}])

Replayed ==
  /\ run.pc = "replay" /\ run.live = {}
  /\ RunGoes(IF run.coll = "amb" THEN [Resting EXCEPT !.pc = "recreate", !.coll = "structured"]
             ELSE [Resting EXCEPT !.pc = "after"])

(* afterRun starts the sweep of the stamper; the run is over. *)
RunEnds ==
  /\ run.pc = "after"
  /\ RunGoes(Resting)

Rebuild ==
  \/ Recreate \/ RecreateFails \/ OpenWalk \/ WalkAmb \/ Flush \/ WalkStructured \/ Walked
  \/ ReadRows \/ Classify \/ Classified \/ Collect \/ Collected
  \/ Replay \/ ReplayPublications \/ Replayed \/ RunEnds

Request(h) ==
  \E e \in Event : \/ Publish(h, e) \/ Ban(h, e)
                   \/ \E text \in {e, NoEvent} : SetContent(h, e, text)

Serving(h) ==
  \/ QueueBolt(h) \/ StoreIndex(h) \/ PutRow(h) \/ SendContent(h)
  \/ PurgeBolt(h) \/ PurgeRow(h) \/ PurgeIndex(h) \/ QueueDelete(h)

Next ==
  \/ \E h \in Caller : Request(h) \/ Serving(h)
  \/ \E p \in PubKey : BanPubKey(p)
  \/ BoltWorker \/ TSWorker
  \/ Start \/ Rebuild

Spec == Init /\ [][Next]_vars

FreshSpec == FreshInit /\ [][Next]_vars

-----------------------------------------------------------------------------
(* Properties. *)

Newest(S) == CHOOSE e \in S : \A f \in S : ~ IsOlder(e, f)

NewestOf(S) == IF S = {} THEN NoEvent ELSE Newest(S)

(* The versions of c that may be served, and those of them with fulltext.  *)
Live(c) == {e \in bolt \ gone : coordOf[e] = c}

Text(c) == Live(c) \cap rows

(* A rebuild that nothing disturbed leaves every document right, whatever  *)
(* versions and rows the stores hold: it shows the newest version the gate *)
(* lets through, however ties are broken and batches cut, and an AMB one   *)
(* carries the fulltext of the newest version that has any.                *)
RebuiltRight ==
  run.pc = "after" /\ calm =>
    \A c \in Coord : /\ docs[c].ev = NewestOf(Live(c))
                     /\ collection[c] = "amb" => docs[c].text = NewestOf(Text(c))

(* The collection of orphaned rows spares every event that was in the raw  *)
(* store all along, in whichever collection, walked or stored only since,  *)
(* with other writers at work.                                             *)
GCSparesStored ==
  [][\A e \in rows \ rows' : run.pc = "collect" /\ run'.orphans # run.orphans => e \in unseen]_vars

AtRest ==
  /\ run = Resting
  /\ boltQueue = <<>> /\ tsQueue = <<>>
  /\ \A h \in Caller : job[h] = NoJob

(* What the README says of the accept path: it does not create skew, a     *)
(* document whose event is missing from the raw store, bans apart.         *)
NoSkew == AtRest => \A c \in Coord : docs[c].ev \in bolt \cup gone \cup {NoEvent}
=============================================================================
