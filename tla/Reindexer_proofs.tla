---------------------------- MODULE Reindexer_proofs ----------------------------
(***************************************************************************)
(* Theorems about the reindexer, for every set of versions, coordinates    *)
(* and rows, every batch size, and any number of other writers.            *)
(***************************************************************************)
EXTENDS Reindexer, TLAPS

-----------------------------------------------------------------------------
(* Type correctness, in the parts that the actions touch. *)

DocType == [ev : OptEvent, text : OptEvent]

Job == [pc : {"idle", "queue", "index", "put", "send",
              "purgeBolt", "purgeRow", "purgeIndex", "queueDelete"},
        ev : OptEvent, text : OptEvent]

Run == [pc : {"idle", "recreate", "open", "walk", "flush", "rows", "classify", "collect", "replay", "after"},
        coll : Collection, left : SUBSET Event, walked : SUBSET Event,
        kept : [Coord -> OptEvent], batch : Seq(Event),
        todo : SUBSET Event, live : SUBSET Event, orphans : SUBSET Event]

(* A document without a version has nothing else. *)
Whole(d) == d.ev = NoEvent => d = NoDoc

DocsOK == docs \in [Coord -> DocType] /\ \A c \in Coord : Whole(docs[c])

StoresOK ==
  /\ bolt \in SUBSET Event /\ rows \in SUBSET Event /\ gone \in SUBSET Event
  /\ boltQueue \in Seq(BoltOp) /\ tsQueue \in Seq(Task)

JobsOK ==
  /\ job \in [Caller -> Job]
  /\ \A h \in Caller : job[h].pc # "idle" => job[h].ev \in Event

Fresh(w) ==
  w.left = {} /\ w.walked = {} /\ w.batch = <<>> /\ w.orphans = {} /\ \A c \in Coord : w.kept[c] = NoEvent

(* Where a run is, and what it has in hand there: a pass begins with       *)
(* nothing, walks events of its collection only, has a batch on its walk   *)
(* through AMB documents alone, and no orphans before it has read rows.    *)
RunOK(w) ==
  /\ Len(w.batch) <= BatchSize
  /\ \A i \in DOMAIN w.batch : IsAmb(w.batch[i])
  /\ \A e \in w.left : collection[coordOf[e]] = w.coll
  /\ w.pc \in {"recreate", "open"} => Fresh(w)
  /\ w.pc # "walk" \/ w.coll # "amb" => w.batch = <<>>
  /\ w.pc \in {"walk", "rows"} => w.orphans = {}
  /\ w.pc \in {"classify", "collect"} => w.coll = "amb"

CountsOK == calm \in BOOLEAN /\ unseen \in SUBSET Event /\ starts \in Nat /\ runs \in Nat

TypeInv == DocsOK /\ StoresOK /\ JobsOK /\ run \in Run /\ RunOK(run) /\ CountsOK

LEMMA InvTypes == TypeInv => ReindexTypeOK
  BY DEF TypeInv, DocsOK, Whole, StoresOK, JobsOK, RunOK, CountsOK, ReindexTypeOK, DocType, Job, Run

LEMMA EventCoord ==
  ASSUME NEW e \in Event
  PROVE  /\ coordOf[e] \in Coord /\ e # NoEvent
         /\ collection[coordOf[e]] \in Collection
         /\ IsAmb(e) <=> collection[coordOf[e]] = "amb"
  BY EventAssumption, ReindexAssumption DEF IsAddressable, IsAmb

LEMMA NoDocIs == NoDoc \in DocType /\ Whole(NoDoc) /\ NoDoc.ev = NoEvent /\ NoDoc.text = NoEvent
  BY DEF NoDoc, DocType, OptEvent, Whole

LEMMA ProjectedIs ==
  ASSUME NEW e \in Event
  PROVE  Projected(e) \in DocType /\ Whole(Projected(e)) /\ Projected(e).ev = e /\ Projected(e).text = NoEvent
  BY EventCoord DEF Projected, DocType, OptEvent, Whole

LEMMA RestingIs ==
  ASSUME NEW w \in {Resting, [Resting EXCEPT !.pc = "recreate"], [Resting EXCEPT !.pc = "after"],
                    [Resting EXCEPT !.pc = "recreate", !.coll = "structured"]}
  PROVE  w \in Run /\ RunOK(w) /\ Fresh(w) /\ w.pc \in {"idle", "recreate", "after"}
<1>1. <<>> \in Seq(Event) /\ [c \in Coord |-> NoEvent] \in [Coord -> OptEvent] /\ Len(<<>>) = 0 /\ DOMAIN <<>> = {}
  BY DEF OptEvent
<1>2. Resting \in Run /\ Fresh(Resting) /\ Resting.pc = "idle"
  BY <1>1 DEF Resting, Run, Collection, Fresh
<1>3. w \in Run /\ Fresh(w) /\ w.pc \in {"idle", "recreate", "after"}
  BY <1>2 DEF Run, Collection, Fresh
<1>4. RunOK(w)
  BY <1>1, <1>3, ReindexAssumption DEF RunOK, Fresh
<1> QED
  BY <1>3, <1>4

LEMMA PatchedType ==
  ASSUME NEW ds \in [Coord -> DocType], \A c \in Coord : Whole(ds[c]), NEW e \in Event, NEW text \in OptEvent
  PROVE  /\ Patched(ds, e, text) \in [Coord -> DocType]
         /\ \A c \in Coord : Whole(Patched(ds, e, text)[c])
<1> DEFINE c == coordOf[e]
           d == [ds[c] EXCEPT !.text = text]
<1>1. CASE ds[c] = NoDoc
  BY <1>1 DEF Patched
<1>2. CASE ds[c] # NoDoc
  <2>1. c \in Coord /\ ds[c] \in DocType
    BY EventCoord
  <2>2. d \in DocType /\ Whole(d)
    BY <1>2, <2>1 DEF DocType, Whole
  <2>3. Patched(ds, e, text) = [ds EXCEPT ![c] = d]
    BY <1>2 DEF Patched
  <2> HIDE DEF d, c
  <2> QED
    BY <2>1, <2>2, <2>3
<1> QED
  BY <1>1, <1>2

LEMMA UpsertedType ==
  ASSUME DocsOK, NEW e \in Event
  PROVE  /\ [docs EXCEPT ![coordOf[e]] = Projected(e)] \in [Coord -> DocType]
         /\ \A c \in Coord : Whole([docs EXCEPT ![coordOf[e]] = Projected(e)][c])
  BY EventCoord, ProjectedIs DEF DocsOK

LEMMA RemovedType ==
  ASSUME DocsOK, NEW e
  PROVE  Removed(e) \in [Coord -> DocType] /\ \A c \in Coord : Whole(Removed(e)[c])
  BY NoDocIs DEF DocsOK, Removed

LEMMA OutcomeType ==
  ASSUME DocsOK, NEW t \in Task, NEW new \in Outcomes(t)
  PROVE  new \in [Coord -> DocType] /\ \A c \in Coord : Whole(new[c])
<1> DEFINE OK(ds) == ds \in [Coord -> DocType] /\ \A c \in Coord : Whole(ds[c])
<1>1. t.ev \in Event /\ t.text \in OptEvent /\ t.op \in {"event", "content", "delete"}
  BY DEF Task
<1>2. OK(docs) /\ OK(Removed(t.ev)) /\ OK([docs EXCEPT ![coordOf[t.ev]] = Projected(t.ev)])
  BY <1>1, RemovedType, UpsertedType DEF DocsOK
<1>3. \A ds \in Upserts(t.ev) : OK(ds)
  BY <1>2 DEF Upserts, Lost
<1>4. \A ds \in Upserts(t.ev) : OK(Patched(ds, t.ev, t.text))
  BY <1>1, <1>3, PatchedType
<1>0. SUFFICES OK(new)
  OBVIOUS
<1> HIDE DEF OK
<1>5. CASE t.op = "delete"
  BY <1>2, <1>5 DEF Outcomes, Lost
<1>6. CASE t.op # "delete" /\ t.ev \in gone
  BY <1>2, <1>6 DEF Outcomes
<1>7. CASE t.op = "event" /\ t.ev \notin gone
  <2>1. new \in Upserts(t.ev)
    BY <1>7 DEF Outcomes
  <2> QED
    BY <1>3, <2>1
<1>8. CASE t.op = "content" /\ t.ev \notin gone
  <2>1. new \in UNION {{Patched(ds, t.ev, t.text)} \cup Lost(ds) : ds \in Upserts(t.ev)}
    BY <1>8 DEF Outcomes
  <2> QED
    BY <1>3, <1>4, <2>1 DEF Lost
<1> QED
  BY <1>1, <1>5, <1>6, <1>7, <1>8

(* A handler's step that leaves stores and documents in their types. *)
LEMMA ServingType ==
  ASSUME TypeInv, NEW h \in Caller, Request(h) \/ Serving(h)
  PROVE  TypeInv'
<1>0. /\ DocsOK /\ StoresOK /\ JobsOK /\ run \in Run /\ RunOK(run) /\ CountsOK
      /\ job[h] \in Job /\ (job[h].pc # "idle" => job[h].ev \in Event)
  BY DEF TypeInv, JobsOK
<1>1. UNCHANGED <<run, runs>> /\ calm' = FALSE
  BY DEF Request, Serving, Publish, Ban, SetContent, Begin, QueueBolt, StoreIndex, PutRow, SendContent,
         PurgeBolt, PurgeRow, PurgeIndex, QueueDelete, Goto, bounds
<1>2. JobsOK'
  <2>1. ASSUME NEW j \in Job, j.pc # "idle" => j.ev \in Event, job' = [job EXCEPT ![h] = j]
        PROVE  JobsOK'
    BY <1>0, <2>1 DEF JobsOK
  <2>2. CASE \E j \in Job : j.ev \in Event /\ job' = [job EXCEPT ![h] = j]
    BY <2>1, <2>2
  <2>3. CASE Request(h)
    <3>1. PICK e \in Event : Publish(h, e) \/ Ban(h, e) \/ \E text \in {e, NoEvent} : SetContent(h, e, text)
      BY <2>3 DEF Request
    <3>2. \E j \in Job : j.ev = e /\ job' = [job EXCEPT ![h] = j]
      <4>1. CASE Publish(h, e)
        <5> DEFINE j == [NoJob EXCEPT !.pc = "queue", !.ev = e]
        <5>1. j \in Job /\ j.ev = e /\ job' = [job EXCEPT ![h] = j]
          BY <4>1 DEF Publish, Begin, NoJob, Job, OptEvent
        <5> QED
          BY <5>1
      <4>2. CASE Ban(h, e)
        <5> DEFINE j == [NoJob EXCEPT !.pc = "purgeBolt", !.ev = e]
        <5>1. j \in Job /\ j.ev = e /\ job' = [job EXCEPT ![h] = j]
          BY <4>2 DEF Ban, Begin, NoJob, Job, OptEvent
        <5> QED
          BY <5>1
      <4>3. ASSUME NEW text \in {e, NoEvent}, SetContent(h, e, text)
            PROVE  \E j \in Job : j.ev = e /\ job' = [job EXCEPT ![h] = j]
        <5> DEFINE j == [pc |-> "put", ev |-> e, text |-> text]
        <5>1. j \in Job /\ j.ev = e /\ job' = [job EXCEPT ![h] = j]
          BY <4>3 DEF SetContent, Begin, Job, OptEvent
        <5> QED
          BY <5>1
      <4> QED
        BY <3>1, <4>1, <4>2, <4>3
    <3> QED
      BY <2>2, <3>2
  <2>4. CASE Serving(h)
    <3>1. job[h].pc # "idle" /\ \E pc \in {"idle", "index", "send", "purgeRow", "purgeIndex", "queueDelete"} : Goto(h, pc)
      BY <2>4 DEF Serving, QueueBolt, StoreIndex, PutRow, SendContent, PurgeBolt, PurgeRow, PurgeIndex, QueueDelete
    <3>2. PICK pc \in {"idle", "index", "send", "purgeRow", "purgeIndex", "queueDelete"} : Goto(h, pc)
      BY <3>1
    <3> DEFINE j == IF pc = "idle" THEN NoJob ELSE [job[h] EXCEPT !.pc = pc]
    <3>3. job' = [job EXCEPT ![h] = j]
      BY <1>0, <3>2 DEF Goto, JobsOK
    <3>4. j \in Job /\ (j.pc # "idle" => j.ev \in Event)
      BY <1>0, <3>1 DEF NoJob, Job, OptEvent
    <3> HIDE DEF j
    <3> QED
      BY <2>1, <3>3, <3>4
  <2> QED
    BY <2>3, <2>4
<1>3. StoresOK'
  <2>1. CASE Request(h)
    BY <1>0, <2>1 DEF Request, Publish, Ban, SetContent, StoresOK, stores
  <2>2. CASE Serving(h)
    <3>1. job[h].ev \in Event /\ job[h].text \in OptEvent
      BY <1>0, <2>2 DEF Serving, QueueBolt, StoreIndex, PutRow, SendContent, PurgeBolt, PurgeRow,
                        PurgeIndex, QueueDelete, Job
    <3>2. [ev |-> job[h].ev, replace |-> TRUE] \in BoltOp
      BY <3>1 DEF BoltOp
    <3>3. \A op \in {"event", "content", "delete"}, text \in OptEvent :
            AcceptTask(op, job[h].ev, text) => tsQueue' \in Seq(Task)
      BY <1>0, <3>1 DEF AcceptTask, Task, StoresOK
    <3>4. tsQueue' \in Seq(Task)
      BY <1>0, <2>2, <3>1, <3>3 DEF Serving, QueueBolt, StoreIndex, PutRow, SendContent, PurgeBolt, PurgeRow,
                        PurgeIndex, QueueDelete, StoresOK, OptEvent
    <3>5. boltQueue' \in Seq(BoltOp)
      BY <1>0, <2>2, <3>2 DEF Serving, QueueBolt, StoreIndex, PutRow, SendContent, PurgeBolt, PurgeRow,
                        PurgeIndex, QueueDelete, StoresOK
    <3> QED
      BY <1>0, <2>2, <3>1, <3>4, <3>5 DEF Serving, QueueBolt, StoreIndex, PutRow, SendContent, PurgeBolt,
                        PurgeRow, PurgeIndex, QueueDelete, StoresOK
  <2> QED
    BY <2>1, <2>2
<1>4. DocsOK'
  <2>1. CASE UNCHANGED docs
    BY <1>0, <2>1 DEF DocsOK
  <2>2. CASE StoreIndex(h) \/ SendContent(h) \/ PurgeIndex(h)
    <3>1. job[h].ev \in Event /\ job[h].text \in OptEvent
      BY <1>0, <2>2 DEF StoreIndex, SendContent, PurgeIndex, Job
    <3>2. docs' \in {docs, [docs EXCEPT ![coordOf[job[h].ev]] = Projected(job[h].ev)],
                     Patched(docs, job[h].ev, job[h].text), Removed(job[h].ev)}
      BY <2>2 DEF StoreIndex, SendContent, PurgeIndex, MayFail
    <3> QED
      BY <1>0, <3>1, <3>2, UpsertedType, PatchedType, RemovedType DEF DocsOK
  <2> QED
    BY <2>1, <2>2 DEF Request, Serving, Publish, Ban, SetContent, QueueBolt, PutRow, PurgeBolt, PurgeRow, QueueDelete, stores
<1>5. CountsOK'
  <2>1. unseen' \in SUBSET Event
    BY <1>0 DEF Request, Serving, Publish, Ban, SetContent, Begin, QueueBolt, StoreIndex, PutRow, SendContent,
         PurgeBolt, PurgeRow, PurgeIndex, QueueDelete, CountsOK
  <2>2. starts' = starts + 1 \/ starts' = starts
    <3>1. CASE Request(h)
      BY <3>1 DEF Request, Publish, Ban, SetContent, Begin
    <3>2. CASE Serving(h)
      BY <3>2 DEF Serving, QueueBolt, StoreIndex, PutRow, SendContent, PurgeBolt, PurgeRow, PurgeIndex,
                  QueueDelete, Goto, bounds
    <3> QED
      BY <3>1, <3>2
  <2>3. starts' \in Nat /\ runs' \in Nat
    BY <1>0, <1>1, <2>2 DEF CountsOK
  <2> QED
    BY <1>1, <2>1, <2>3 DEF CountsOK
<1> QED
  BY <1>0, <1>1, <1>2, <1>3, <1>4, <1>5 DEF TypeInv

LEMMA BuffersType ==
  ASSUME TypeInv, BoltWorker \/ TSWorker \/ \E p \in PubKey : BanPubKey(p)
  PROVE  TypeInv'
<1>0. DocsOK /\ StoresOK /\ JobsOK /\ run \in Run /\ RunOK(run) /\ CountsOK
  BY DEF TypeInv
<1>1. UNCHANGED <<job, run, runs>> /\ calm' = FALSE
  BY DEF BoltWorker, TSWorker, BanPubKey, bounds
<1>2. StoresOK'
  <2>1. CASE BoltWorker
    <3>1. Head(boltQueue) \in BoltOp /\ Tail(boltQueue) \in Seq(BoltOp)
      BY <1>0, <2>1 DEF BoltWorker, StoresOK
    <3>2. Written(bolt, Head(boltQueue)) \in SUBSET Event
      BY <1>0, <3>1 DEF Written, Replaced, BoltOp, StoresOK
    <3> QED
      BY <1>0, <2>1, <3>1, <3>2 DEF BoltWorker, StoresOK
  <2>2. CASE TSWorker
    BY <1>0, <2>2 DEF TSWorker, StoresOK
  <2>3. CASE \E p \in PubKey : BanPubKey(p)
    BY <1>0, <2>3 DEF BanPubKey, StoresOK
  <2> QED
    BY <2>1, <2>2, <2>3
<1>3. DocsOK'
  <2>1. CASE UNCHANGED docs
    BY <1>0, <2>1 DEF DocsOK
  <2>2. CASE TSWorker
    <3>1. Head(tsQueue) \in Task /\ docs' \in Outcomes(Head(tsQueue))
      BY <1>0, <2>2 DEF TSWorker, StoresOK
    <3> QED
      BY <1>0, <3>1, OutcomeType DEF DocsOK
  <2> QED
    BY <2>1, <2>2 DEF BoltWorker, BanPubKey
<1>4. CountsOK' /\ JobsOK'
  <2>1. unseen' \in SUBSET Event
    BY <1>0, <1>1 DEF BoltWorker, TSWorker, BanPubKey, CountsOK
  <2>2. starts' \in Nat
    BY <1>0 DEF BoltWorker, TSWorker, BanPubKey, bounds, CountsOK
  <2> QED
    BY <1>0, <1>1, <2>1, <2>2 DEF CountsOK, JobsOK
<1> QED
  BY <1>0, <1>1, <1>2, <1>3, <1>4 DEF TypeInv

LEMMA VisitedIs ==
  ASSUME NEW e \in run.left, run \in Run
  PROVE  \/ /\ e \in gone
            /\ Visited(e) = [run EXCEPT !.left = run.left \ {e}]
         \/ /\ e \notin gone /\ ~ Keep(e)
            /\ Visited(e) = [run EXCEPT !.left = run.left \ {e}, !.walked = run.walked \cup {e}]
         \/ /\ e \notin gone /\ Keep(e)
            /\ Visited(e) = [run EXCEPT !.left = run.left \ {e}, !.walked = run.walked \cup {e},
                                        !.kept = [run.kept EXCEPT ![coordOf[e]] = e],
                                        !.batch = IF IsAmb(e) THEN Append(run.batch, e) ELSE run.batch]
  BY DEF Visited

(* What a walk over e leaves, in the fields of the run. *)
LEMMA VisitedFields ==
  ASSUME TypeInv, run.pc = "walk", NEW e \in run.left, run.coll = "amb" => Len(run.batch) < BatchSize
  PROVE  /\ Visited(e) \in Run /\ RunOK(Visited(e))
         /\ Visited(e).pc = "walk" /\ Visited(e).coll = run.coll /\ Visited(e).left = run.left \ {e}
<1>0. run \in Run /\ RunOK(run) /\ e \in Event
  BY DEF TypeInv, Run
<1>1. coordOf[e] \in Coord /\ (IsAmb(e) <=> run.coll = "amb")
  BY <1>0, EventCoord DEF RunOK
<1> DEFINE b == IF IsAmb(e) THEN Append(run.batch, e) ELSE run.batch
           k == [run.kept EXCEPT ![coordOf[e]] = e]
<1>2. /\ b \in Seq(Event) /\ Len(b) <= BatchSize /\ (\A i \in DOMAIN b : IsAmb(b[i]))
      /\ (run.coll # "amb" => b = <<>>)
  <2>1. CASE IsAmb(e)
    <3>1. run.batch \in Seq(Event) /\ Len(run.batch) < BatchSize /\ \A i \in DOMAIN run.batch : IsAmb(run.batch[i])
      BY <1>0, <1>1, <2>1 DEF Run, RunOK
    <3>2. b = Append(run.batch, e)
      BY <2>1
    <3> HIDE DEF b
    <3> QED
      BY <1>0, <1>1, <2>1, <3>1, <3>2, ReindexAssumption
  <2>2. CASE ~ IsAmb(e)
    BY <1>0, <1>1, <2>2 DEF Run, RunOK
  <2> QED
    BY <2>1, <2>2
<1>3. k \in [Coord -> OptEvent]
  BY <1>0, <1>1 DEF Run, OptEvent
<1> HIDE DEF b, k
<1> DEFINE OK(w) == w \in Run /\ RunOK(w) /\ w.pc = "walk" /\ w.coll = run.coll /\ w.left = run.left \ {e}
<1>4. OK([run EXCEPT !.left = run.left \ {e}])
  BY <1>0 DEF Run, RunOK
<1>5. OK([run EXCEPT !.left = run.left \ {e}, !.walked = run.walked \cup {e}])
  BY <1>0 DEF Run, RunOK
<1>6. OK([run EXCEPT !.left = run.left \ {e}, !.walked = run.walked \cup {e}, !.kept = k, !.batch = b])
  BY <1>0, <1>2, <1>3 DEF Run, RunOK
<1>7. OK(Visited(e))
  <2> HIDE DEF OK
  <2> QED
    BY <1>0, <1>4, <1>5, <1>6, VisitedIs DEF b, k
<1> QED
  BY <1>7

LEMMA RunStep ==
  ASSUME TypeInv, Rebuild
  PROVE  run' \in Run /\ RunOK(run')
<1>0. run \in Run /\ RunOK(run) /\ rows \in SUBSET Event /\ bolt \in SUBSET Event
  BY DEF TypeInv, StoresOK
<1> USE DEF Run, RunOK
<1>1. CASE Recreate
  BY <1>0, <1>1 DEF Recreate, Fresh
<1>2. CASE RecreateFails
  <2>1. run' = Resting \/ run' = [run EXCEPT !.pc = "after"]
    BY <1>2 DEF RecreateFails
  <2>2. Fresh(run)
    BY <1>0, <1>2 DEF RecreateFails
  <2>3. CASE run' = [run EXCEPT !.pc = "after"]
    BY <1>0, <2>2, <2>3 DEF Fresh
  <2> QED
    BY <2>1, <2>3, RestingIs
<1>3. CASE OpenWalk
  <2>1. run' = [run EXCEPT !.pc = "walk", !.left = {e \in bolt : collection[coordOf[e]] = run.coll}]
    BY <1>3 DEF OpenWalk, RunGoes
  <2>2. run.orphans = {} /\ run.batch = <<>>
    BY <1>0, <1>3 DEF OpenWalk, Fresh
  <2> QED
    BY <1>0, <2>1, <2>2
<1>4. CASE WalkAmb \/ WalkStructured
  <2>1. PICK e \in run.left : run' = Visited(e)
    BY <1>4 DEF WalkAmb, WalkStructured, NextInWalk, RunGoes, RunCalls
  <2> HIDE DEF Run, RunOK
  <2> QED
    BY <1>4, <2>1, VisitedFields DEF WalkAmb, WalkStructured
<1>5. CASE Flush
  <2>1. run' = [run EXCEPT !.batch = <<>>] /\ run.pc = "walk" /\ run.coll = "amb"
    BY <1>5 DEF Flush
  <2>2. <<>> \in Seq(Event) /\ Len(<<>>) <= BatchSize /\ DOMAIN <<>> = {}
    BY ReindexAssumption
  <2> QED
    BY <1>0, <2>1, <2>2
<1>6. CASE Walked
  BY <1>0, <1>6 DEF Walked, RunGoes
<1>7. CASE ReadRows
  <2>1. CASE run.coll = "amb"
    <3>1. run' = [run EXCEPT !.pc = "classify", !.todo = rows \ run.walked, !.live = rows \cap run.walked]
      BY <1>7, <2>1 DEF ReadRows
    <3> QED
      BY <1>0, <1>7, <2>1, <3>1 DEF ReadRows
  <2>2. CASE run.coll # "amb"
    <3>1. run' = [run EXCEPT !.pc = "replay", !.live = rows]
      BY <1>7, <2>2 DEF ReadRows
    <3> QED
      BY <1>0, <1>7, <2>2, <3>1 DEF ReadRows
  <2> QED
    BY <2>1, <2>2
<1>8. CASE Classify \/ Classified
  <2>1. CASE Classified
    BY <1>0, <2>1 DEF Classified, RunGoes
  <2>2. CASE Classify
    <3>1. PICK e \in run.todo : run' = [run EXCEPT !.todo = @ \ {e}, !.orphans = IF IsOrphan(e) THEN @ \cup {e} ELSE @]
      BY <2>2 DEF Classify, RunGoes
    <3>2. run.pc = "classify"
      BY <2>2 DEF Classify
    <3> QED
      BY <1>0, <3>1, <3>2
  <2> QED
    BY <1>8, <2>1, <2>2
<1>9. CASE Collect \/ Collected
  BY <1>0, <1>9 DEF Collect, Collected, RunGoes
<1>10. CASE Replay \/ ReplayPublications
  <2>1. PICK e \in run.live : run' = [run EXCEPT !.live = @ \ {e}]
    BY <1>10 DEF Replay, ReplayPublications, RunCalls
  <2>2. run.pc = "replay"
    BY <1>10 DEF Replay, ReplayPublications
  <2> QED
    BY <1>0, <2>1, <2>2
<1> HIDE DEF Run, RunOK
<1>11. CASE Replayed \/ RunEnds
  BY <1>11, RestingIs DEF Replayed, RunEnds, RunGoes
<1> QED
  BY <1>1, <1>2, <1>3, <1>4, <1>5, <1>6, <1>7, <1>8, <1>9, <1>10, <1>11 DEF Rebuild

LEMMA RebuildDocs ==
  ASSUME TypeInv, Rebuild
  PROVE  DocsOK'
<1>0. DocsOK /\ run \in Run /\ RunOK(run)
  BY DEF TypeInv
<1>1. CASE UNCHANGED docs
  BY <1>0, <1>1 DEF DocsOK
<1>2. CASE docs' = [c \in Coord |-> IF collection[c] = run.coll THEN NoDoc ELSE docs[c]]
  BY <1>0, <1>2, NoDocIs DEF DocsOK
<1>3. CASE \E e \in Event : docs' = [docs EXCEPT ![coordOf[e]] = Projected(e)]
  BY <1>0, <1>3, UpsertedType DEF DocsOK
<1>4. CASE \E e \in Event : docs' = Patched(docs, e, e)
  BY <1>0, <1>4, PatchedType DEF DocsOK, OptEvent
<1>5. CASE Flush
  <2>1. PICK landed, f :
          /\ landed \in SUBSET DOMAIN run.batch
          /\ docs' = [c \in Coord |-> IF f[c] = {} THEN docs[c]
                                      ELSE Projected(run.batch[CHOOSE i \in f[c] : TRUE])]
          /\ \A c \in Coord : f[c] \in SUBSET landed
    <3>1. PICK landed \in SUBSET DOMAIN run.batch :
            docs' = [c \in Coord |->
              IF {i \in landed : coordOf[run.batch[i]] = c /\
                                   \A j \in landed : coordOf[run.batch[j]] = c => j <= i} = {} THEN docs[c]
              ELSE Projected(run.batch[CHOOSE i \in {i \in landed : coordOf[run.batch[i]] = c /\
                                   \A j \in landed : coordOf[run.batch[j]] = c => j <= i} : TRUE])]
      BY <1>5 DEF Flush
    <3> DEFINE f == [c \in Coord |-> {i \in landed : coordOf[run.batch[i]] = c /\
                                   \A j \in landed : coordOf[run.batch[j]] = c => j <= i}]
    <3>2. \A c \in Coord : f[c] \in SUBSET landed
      OBVIOUS
    <3>3. docs' = [c \in Coord |-> IF f[c] = {} THEN docs[c]
                                   ELSE Projected(run.batch[CHOOSE i \in f[c] : TRUE])]
      BY <3>1
    <3> QED
      BY <3>2, <3>3
  <2>2. ASSUME NEW c \in Coord, f[c] # {}
        PROVE  run.batch[CHOOSE i \in f[c] : TRUE] \in Event
    <3>1. (CHOOSE i \in f[c] : TRUE) \in DOMAIN run.batch
      BY <2>1, <2>2
    <3> QED
      BY <1>0, <3>1 DEF Run
  <2>3. \A c \in Coord : docs'[c] \in DocType /\ Whole(docs'[c])
    BY <1>0, <2>1, <2>2, ProjectedIs DEF DocsOK
  <2> QED
    BY <2>1, <2>3 DEF DocsOK
<1>6. CASE Recreate \/ RecreateFails
  BY <1>0, <1>1, <1>2, <1>6 DEF Recreate, RecreateFails, Emptied
<1>7. CASE WalkStructured
  BY <1>1, <1>3, <1>7 DEF WalkStructured, RunCalls
<1>8. CASE Replay \/ ReplayPublications
  BY <1>0, <1>1, <1>4, <1>8 DEF Replay, ReplayPublications, RunCalls, Run
<1> QED
  BY <1>1, <1>5, <1>6, <1>7, <1>8
     DEF Rebuild, OpenWalk, WalkAmb, Walked, ReadRows, Classify, Classified, Collect,
         Collected, Replayed, RunEnds, RunGoes

LEMMA RunType ==
  ASSUME TypeInv, Start \/ Rebuild
  PROVE  TypeInv'
<1>0. DocsOK /\ StoresOK /\ JobsOK /\ run \in Run /\ RunOK(run) /\ CountsOK
  BY DEF TypeInv
<1>1. UNCHANGED <<bolt, boltQueue, tsQueue, gone, job, starts>> /\ rows' \in SUBSET rows
  BY DEF Start, Rebuild, Recreate, RecreateFails, OpenWalk, WalkAmb, Flush, WalkStructured, Walked, ReadRows,
         Classify, Classified, Collect, Collected, Replay, ReplayPublications, Replayed, RunEnds,
         RunGoes, RunCalls, UnchangedOthers
<1>2. unseen' \in {unseen, Event \ bolt} /\ runs' \in {runs, runs + 1}
  BY DEF Start, Rebuild, Recreate, RecreateFails, OpenWalk, WalkAmb, Flush, WalkStructured, Walked, ReadRows,
         Classify, Classified, Collect, Collected, Replay, ReplayPublications, Replayed, RunEnds,
         RunGoes, RunCalls
<1>3. calm' \in BOOLEAN
  <2>1. CASE Start
    BY <2>1, Zenon DEF Start
  <2>2. CASE Flush
    BY <2>2, Zenon DEF Flush
  <2>3. CASE ~ Flush /\ Rebuild
    BY <1>0, <2>3, Zenon DEF Rebuild, Recreate, RecreateFails, OpenWalk, WalkAmb, WalkStructured, Walked, ReadRows,
         Classify, Classified, Collect, Collected, Replay, ReplayPublications, Replayed, RunEnds,
         RunGoes, RunCalls, CountsOK
  <2> QED
    BY <2>1, <2>2, <2>3
<1>4. StoresOK' /\ JobsOK'
  BY <1>0, <1>1 DEF StoresOK, JobsOK
<1>5. DocsOK' /\ run' \in Run /\ RunOK(run')
  <2>1. CASE Start
    BY <1>0, <2>1, RestingIs DEF Start, DocsOK
  <2> QED
    BY <2>1, RunStep, RebuildDocs
<1>6. CountsOK'
  <2>1. unseen' \in SUBSET Event /\ runs' \in Nat /\ starts' \in Nat
    BY <1>0, <1>1, <1>2 DEF CountsOK
  <2> QED
    BY <1>3, <2>1, Zenon DEF CountsOK
<1> QED
  BY <1>4, <1>5, <1>6 DEF TypeInv, RunOK, Fresh

LEMMA InitType == Init => TypeInv
<1> SUFFICES ASSUME Init PROVE TypeInv
  OBVIOUS
<1>1. StoresOK
  BY DEF Init, StoresOK
<1>2. DocsOK
  BY NoDocIs DEF Init, DocsOK
<1>3. JobsOK
  BY DEF Init, JobsOK, NoJob, Job, OptEvent
<1>4. CountsOK
  BY DEF Init, CountsOK
<1> QED
  BY <1>1, <1>2, <1>3, <1>4, RestingIs DEF Init, TypeInv

LEMMA StepType ==
  ASSUME TypeInv, [Next]_vars
  PROVE  TypeInv'
<1>1. CASE Next
  BY <1>1, ServingType, BuffersType, RunType DEF Next
<1>2. CASE UNCHANGED vars
  BY <1>2 DEF vars, stores, bounds, TypeInv, DocsOK, StoresOK, JobsOK, RunOK, Fresh, CountsOK
<1> QED
  BY <1>1, <1>2

(* Stores, queues, documents and jobs hold what they should; a run has a   *)
(* batch of AMB events, at most BatchSize of them, on its AMB walk alone.  *)
THEOREM ReindexTypeCorrect == Spec => []ReindexTypeOK
  BY InitType, StepType, InvTypes, PTL DEF Spec

-----------------------------------------------------------------------------
(* The collection of rows.  Whatever is missing from the raw store once    *)
(* the rows were read is noted, then or when it goes missing, so that what *)
(* is found missing when the row is classified stays noted.                *)

GCInv ==
  run.pc \in {"classify", "collect"} => Event \ bolt \subseteq unseen /\ run.orphans \subseteq unseen

LEMMA OthersGC ==
  ASSUME TypeInv, GCInv,
         \/ \E h \in Caller : Request(h) \/ Serving(h)
         \/ \E p \in PubKey : BanPubKey(p)
         \/ BoltWorker \/ TSWorker \/ UNCHANGED vars
  PROVE  GCInv'
<1>1. run' = run
  BY DEF Request, Serving, Publish, Ban, SetContent, Begin, QueueBolt, StoreIndex, PutRow, SendContent,
         PurgeBolt, PurgeRow, PurgeIndex, QueueDelete, Goto, BanPubKey, BoltWorker, TSWorker, vars
<1>2. unseen \subseteq unseen' /\ bolt \ bolt' \subseteq unseen'
  <2>1. CASE UNCHANGED <<bolt, unseen>>
    BY <2>1
  <2>2. CASE \E h \in Caller : PurgeBolt(h)
    BY <2>2 DEF PurgeBolt
  <2>3. CASE BoltWorker
    BY <2>3 DEF TypeInv, StoresOK, BoltWorker
  <2>4. CASE \E h \in Caller : (Request(h) \/ Serving(h)) /\ ~ PurgeBolt(h)
    <3>1. UNCHANGED <<bolt, unseen>>
      BY <2>4 DEF Request, Serving, Publish, Ban, SetContent, Begin, QueueBolt, StoreIndex, PutRow, SendContent,
                  PurgeRow, PurgeIndex, QueueDelete, stores
    <3> QED
      BY <3>1, <2>1
  <2>5. CASE (\E p \in PubKey : BanPubKey(p)) \/ TSWorker \/ UNCHANGED vars
    BY <2>1, <2>5 DEF BanPubKey, TSWorker, vars, stores
  <2> QED
    BY <2>2, <2>3, <2>4, <2>5
<1> QED
  BY <1>1, <1>2 DEF GCInv

LEMMA RunGC ==
  ASSUME TypeInv, GCInv, Start \/ Rebuild
  PROVE  GCInv'
<1>0. run \in Run /\ RunOK(run)
  BY DEF TypeInv
<1>1. CASE run.pc \in {"classify", "collect"}
  <2>1. Classify \/ Classified \/ Collect \/ Collected
    BY <1>1 DEF Start, Rebuild, Recreate, RecreateFails, OpenWalk, WalkAmb, Flush, WalkStructured, Walked,
                ReadRows, Replay, ReplayPublications, Replayed, RunEnds
  <2>2. UNCHANGED <<bolt, unseen>>
    BY <2>1 DEF Classify, Classified, Collect, Collected, RunGoes, UnchangedOthers
  <2>3. run'.orphans \subseteq run.orphans \cup (Event \ bolt)
    <3>1. CASE Classify
      <4>1. PICK e \in run.todo : run' = [run EXCEPT !.todo = @ \ {e}, !.orphans = IF IsOrphan(e) THEN @ \cup {e} ELSE @]
        BY <3>1 DEF Classify, RunGoes
      <4>2. run'.orphans = IF e \notin bolt THEN run.orphans \cup {e} ELSE run.orphans
        BY <1>0, <4>1 DEF Run, IsOrphan
      <4> QED
        BY <1>0, <4>1, <4>2 DEF Run
    <3>2. CASE Classified \/ Collected
      BY <1>0, <3>2 DEF Classified, Collected, RunGoes, Run
    <3>3. CASE Collect
      BY <1>0, <3>3 DEF Collect, Run
    <3> QED
      BY <2>1, <3>1, <3>2, <3>3
  <2> QED
    BY <1>1, <2>2, <2>3 DEF GCInv
<1>2. CASE run.pc \notin {"classify", "collect"} /\ run'.pc \in {"classify", "collect"}
  <2>1. ReadRows
    <3>1. ASSUME Start \/ Replayed \/ RunEnds PROVE FALSE
      <4>1. run' \in {Resting, [Resting EXCEPT !.pc = "recreate"], [Resting EXCEPT !.pc = "after"],
                      [Resting EXCEPT !.pc = "recreate", !.coll = "structured"]}
        BY <3>1 DEF Start, Replayed, RunEnds, RunGoes
      <4>2. run'.pc \in {"idle", "recreate", "after"}
        BY <4>1, RestingIs
      <4> QED
        BY <1>2, <4>2
    <3>2. ASSUME Recreate \/ RecreateFails \/ OpenWalk \/ Flush \/ Walked \/ Replay \/ ReplayPublications PROVE FALSE
      <4>1. CASE RecreateFails
        <5>1. run' = Resting \/ run' = [run EXCEPT !.pc = "after"]
          BY <4>1 DEF RecreateFails
        <5> QED
          BY <1>0, <1>2, <5>1, RestingIs DEF Run
      <4>2. CASE Flush \/ Replay \/ ReplayPublications
        <5>1. run'.pc = run.pc
          BY <1>0, <4>2 DEF Flush, Replay, ReplayPublications, RunCalls, Run
        <5> QED
          BY <1>2, <5>1
      <4>3. CASE Recreate \/ OpenWalk \/ Walked
        BY <1>0, <1>2, <4>3 DEF Recreate, OpenWalk, Walked, RunGoes, Run
      <4> QED
        BY <3>2, <4>1, <4>2, <4>3
    <3>3. ASSUME WalkAmb \/ WalkStructured PROVE FALSE
      <4>1. PICK e \in run.left : run' = Visited(e)
        BY <3>3 DEF WalkAmb, WalkStructured, NextInWalk, RunGoes, RunCalls
      <4>2. run'.pc = "walk"
        BY <3>3, <4>1, VisitedFields DEF WalkAmb, WalkStructured
      <4> QED
        BY <1>2, <4>2
    <3> QED
      BY <1>2, <3>1, <3>2, <3>3 DEF Rebuild, Classify, Classified, Collect, Collected
  <2>2. run.orphans = {} /\ run'.orphans = run.orphans /\ unseen' = Event \ bolt /\ bolt' = bolt
    BY <1>0, <2>1 DEF ReadRows, RunOK, Run
  <2> QED
    BY <2>2 DEF GCInv
<1> QED
  BY <1>1, <1>2 DEF GCInv

LEMMA StepGC ==
  ASSUME TypeInv, GCInv, [Next]_vars
  PROVE  TypeInv' /\ GCInv'
  BY StepType, OthersGC, RunGC DEF Next

(* What the collection of orphans removes had been missing from the raw    *)
(* store at some time since the run read the rows, whatever writers,       *)
(* purges and bans meet it.                                                *)
THEOREM CollectionSparesStored == Spec => GCSparesStored
<1>1. Init => TypeInv /\ GCInv
  BY InitType DEF Init, GCInv, Resting
<1>2. ASSUME TypeInv, GCInv, [Next]_vars
      PROVE  [\A e \in rows \ rows' : run.pc = "collect" /\ run'.orphans # run.orphans => e \in unseen]_vars
  <2>1. SUFFICES ASSUME run.pc = "collect", NEW e \in rows \ rows', run'.orphans # run.orphans
                 PROVE  e \in unseen
    OBVIOUS
  <2>2. Next
    BY <1>2, <2>1 DEF vars
  <2>3. run' # run
    BY <2>1
  <2>4. Start \/ Rebuild
    BY <2>2, <2>3 DEF Next, Request, Serving, Publish, Ban, SetContent, Begin, QueueBolt, StoreIndex, PutRow,
         SendContent, PurgeBolt, PurgeRow, PurgeIndex, QueueDelete, Goto, BanPubKey, BoltWorker, TSWorker
  <2>5. Collect
    BY <2>1, <2>4 DEF Start, Rebuild, Recreate, RecreateFails, OpenWalk, WalkAmb, Flush, WalkStructured, Walked,
         ReadRows, Classify, Classified, Collected, Replay, ReplayPublications, Replayed, RunEnds, RunGoes
  <2>6. e \in run.orphans
    BY <2>1, <2>5 DEF Collect
  <2> QED
    BY <1>2, <2>1, <2>6 DEF GCInv
<1> QED
  BY <1>1, <1>2, StepGC, PTL DEF Spec, GCSparesStored

-----------------------------------------------------------------------------
(* What an undisturbed run has done so far. *)

IsNewestOf(x, S) == IF S = {} THEN x = NoEvent ELSE x \in S /\ \A f \in S : ~ IsOlder(x, f)

LEMMA OlderIsAnOrder ==
  ASSUME NEW e \in Event, NEW f \in Event
  PROVE  /\ ~ IsOlder(e, e)
         /\ ~ IsOlder(e, f) /\ ~ IsOlder(f, e) => e = f
         /\ \A g \in Event : IsOlder(e, f) /\ IsOlder(f, g) => IsOlder(e, g)
<1>1. \A g \in Event : createdAt[g] \in Nat /\ idRank[g] \in Nat
  BY EventAssumption
<1>2. idRank[e] = idRank[f] => e = f
  BY ReindexAssumption
<1> QED
  BY <1>1, <1>2 DEF IsOlder

(* One that no other is newer than is the newest. *)
LEMMA NewestIs ==
  ASSUME NEW S \in SUBSET Event, NEW x, IsNewestOf(x, S)
  PROVE  x = NewestOf(S)
<1>1. CASE S = {}
  BY <1>1 DEF IsNewestOf, NewestOf
<1>2. CASE S # {}
  <2>1. x \in S /\ \A f \in S : ~ IsOlder(x, f)
    BY <1>2 DEF IsNewestOf
  <2>2. Newest(S) \in S /\ \A f \in S : ~ IsOlder(Newest(S), f)
    BY <2>1 DEF Newest
  <2>3. x = Newest(S)
    BY <2>1, <2>2, OlderIsAnOrder
  <2> QED
    BY <1>2, <2>3 DEF NewestOf
<1> QED
  BY <1>1, <1>2

LEMMA NewerIsNewest ==
  ASSUME NEW S \in SUBSET Event, NEW x, IsNewestOf(x, S), NEW e \in Event
  PROVE  /\ x = NoEvent \/ IsOlder(x, e) => IsNewestOf(e, S \cup {e})
         /\ x # NoEvent /\ ~ IsOlder(x, e) => IsNewestOf(x, S \cup {e})
         /\ (\A f \in S : ~ IsOlder(e, f)) => IsNewestOf(e, S \cup {e})
<1>1. NoEvent \notin S
  BY EventAssumption
<1>2. CASE S = {}
  BY <1>2, OlderIsAnOrder DEF IsNewestOf
<1>3. CASE S # {}
  <2>1. x \in S /\ \A f \in S : ~ IsOlder(x, f)
    BY <1>3 DEF IsNewestOf
  <2>2. ASSUME IsOlder(x, e), NEW f \in S
        PROVE  ~ IsOlder(e, f)
    BY <2>1, <2>2, OlderIsAnOrder
  <2> QED
    BY <1>1, <1>3, <2>1, <2>2, OlderIsAnOrder DEF IsNewestOf
<1> QED
  BY <1>2, <1>3

Pass == {c \in Coord : collection[c] = run.coll}

AmbCoord == {c \in Coord : collection[c] = "amb"}

(* The events the walk of a collection is to visit and not to skip. *)
ToWalk == {e \in bolt \ gone : collection[coordOf[e]] = run.coll}

WalkedAt(c) == {e \in run.walked : coordOf[e] = c}

VersionRight(c) == IsNewestOf(docs[c].ev, Live(c))

TextRight(c) == IsNewestOf(docs[c].text, Text(c))

(* The document of c shows the dedup's winner, or the batch will make it   *)
(* do so, the winner being the last of c in it.                            *)
Shows(c) ==
  \/ docs[c].ev = run.kept[c] /\ \A i \in DOMAIN run.batch : coordOf[run.batch[i]] # c
  \/ \E i \in DOMAIN run.batch :
       /\ run.batch[i] = run.kept[c] /\ coordOf[run.batch[i]] = c
       /\ \A j \in DOMAIN run.batch : coordOf[run.batch[j]] = c => j <= i

WalkingAt(c) == IsNewestOf(run.kept[c], WalkedAt(c)) /\ docs[c].text = NoEvent /\ Shows(c)

(* Of the rows of c, those replayed: none of those to come is older. *)
ReplayedAt(c) == Text(c) \ run.live

ReplayingAt(c) ==
  /\ IsNewestOf(docs[c].text, ReplayedAt(c))
  /\ \A e \in ReplayedAt(c), f \in run.live : coordOf[f] = c => ~ IsOlder(f, e)

AmbDone == run.coll = "structured" => \A c \in AmbCoord : VersionRight(c) /\ TextRight(c)

OpenOK == run.pc = "open" => \A c \in Pass : docs[c] = NoDoc

WalkOK ==
  run.pc = "walk" => run.left \subseteq bolt /\ run.walked = ToWalk \ run.left /\ \A c \in Pass : WalkingAt(c)

RowsOK == run.pc = "rows" => run.walked = ToWalk /\ \A c \in Pass : VersionRight(c) /\ docs[c].text = NoEvent

CollectOK ==
  run.pc \in {"classify", "collect"} =>
    /\ \A c \in Pass : VersionRight(c) /\ docs[c].text = NoEvent
    /\ run.live = rows \cap ToWalk /\ run.orphans \cap bolt = {}

ReplayOK ==
  run.pc = "replay" =>
    /\ \A c \in Pass : VersionRight(c)
    /\ run.coll = "amb" => run.live \subseteq rows \cap ToWalk /\ \A c \in Pass : ReplayingAt(c)

AfterOK == run.pc = "after" => \A c \in Coord : VersionRight(c) /\ (c \in AmbCoord => TextRight(c))

CalmInv == AmbDone /\ OpenOK /\ WalkOK /\ RowsOK /\ CollectOK /\ ReplayOK /\ AfterOK

LEMMA CalmIsRight == TypeInv /\ CalmInv /\ run.pc = "after" => \A c \in Coord :
                       /\ docs[c].ev = NewestOf(Live(c))
                       /\ collection[c] = "amb" => docs[c].text = NewestOf(Text(c))
<1> SUFFICES ASSUME TypeInv, CalmInv, run.pc = "after", NEW c \in Coord
             PROVE  /\ docs[c].ev = NewestOf(Live(c))
                    /\ collection[c] = "amb" => docs[c].text = NewestOf(Text(c))
  OBVIOUS
<1>1. Live(c) \in SUBSET Event /\ Text(c) \in SUBSET Event
  BY DEF TypeInv, StoresOK, Live, Text
<1>2. VersionRight(c) /\ (collection[c] = "amb" => TextRight(c))
  BY DEF CalmInv, AfterOK, AmbCoord
<1> QED
  BY <1>1, <1>2, NewestIs DEF VersionRight, TextRight

(* Only the run itself leaves calm as it was. *)
LEMMA OthersDisturb ==
  ASSUME \/ \E h \in Caller : Request(h) \/ Serving(h)
         \/ \E p \in PubKey : BanPubKey(p)
         \/ BoltWorker \/ TSWorker
  PROVE  calm' = FALSE
  BY DEF Request, Serving, Publish, Ban, SetContent, Begin, QueueBolt, StoreIndex, PutRow, SendContent,
         PurgeBolt, PurgeRow, PurgeIndex, QueueDelete, Goto, BanPubKey, BoltWorker, TSWorker

LEMMA StaysCalm ==
  ASSUME Rebuild, calm'
  PROVE  calm /\ UNCHANGED <<bolt, gone>> /\ ~ RecreateFails
<1>1. calm' # FALSE
  BY Zenon
<1>2. calm /\ ~ RecreateFails
  <2>1. CASE Flush
    BY <2>1, Zenon DEF Flush, RecreateFails
  <2>2. CASE Recreate \/ RecreateFails \/ WalkStructured \/ Replay \/ ReplayPublications
    BY <1>1, <2>2, Zenon DEF Recreate, RecreateFails, WalkStructured, Replay, ReplayPublications, RunCalls
  <2>3. CASE OpenWalk \/ WalkAmb \/ Walked \/ ReadRows \/ Classify \/ Classified \/ Collect \/ Collected
             \/ Replayed \/ RunEnds
    BY <1>1, <2>3, Zenon DEF OpenWalk, WalkAmb, Walked, ReadRows, Classify, Classified, Collect, Collected,
           Replayed, RunEnds, RunGoes, RecreateFails
  <2> QED
    BY <2>1, <2>2, <2>3 DEF Rebuild
<1>3. UNCHANGED <<bolt, gone>>
  BY DEF Rebuild, Recreate, RecreateFails, OpenWalk, WalkAmb, Flush, WalkStructured, Walked, ReadRows,
         Classify, Classified, Collect, Collected, Replay, ReplayPublications, Replayed, RunEnds,
         RunGoes, RunCalls, UnchangedOthers
<1> QED
  BY <1>2, <1>3

(* What of the invariant the documents of one coordinate depend on. *)
LEMMA DoneKept ==
  ASSUME UNCHANGED <<bolt, gone>>, NEW c \in Coord, docs'[c] = docs[c], rows' \cap bolt = rows \cap bolt
  PROVE  /\ VersionRight(c) => VersionRight(c)'
         /\ TextRight(c) => TextRight(c)'
<1>1. Live(c)' = Live(c) /\ Text(c)' = Text(c)
  BY DEF Live, Text
<1> QED
  BY <1>1 DEF VersionRight, TextRight, IsNewestOf

(* The structured pass leaves AMB documents alone. *)
LEMMA AmbDoneKept ==
  ASSUME AmbDone, UNCHANGED <<bolt, gone>>, rows' \cap bolt = rows \cap bolt,
         run'.coll = run.coll,
         run.coll = "structured" => \A c \in AmbCoord : docs'[c] = docs[c]
  PROVE  AmbDone'
<1> SUFFICES ASSUME run.coll = "structured", NEW c \in AmbCoord
             PROVE  VersionRight(c)' /\ TextRight(c)'
  BY DEF AmbDone, AmbCoord
<1>1. c \in Coord /\ VersionRight(c) /\ TextRight(c) /\ docs'[c] = docs[c]
  BY DEF AmbDone, AmbCoord
<1> QED
  BY <1>1, DoneKept

LEMMA OpenCalm ==
  ASSUME TypeInv, CalmInv, calm', Recreate \/ OpenWalk
  PROVE  CalmInv'
<1>0. /\ UNCHANGED <<bolt, gone, rows>> /\ run \in Run /\ RunOK(run) /\ DocsOK
      /\ bolt \in SUBSET Event
  BY DEF TypeInv, StoresOK, Recreate, OpenWalk, RunGoes, UnchangedOthers
<1>1. CASE Recreate
  <2>1. docs' = [c \in Coord |-> IF collection[c] = run.coll THEN NoDoc ELSE docs[c]]
    BY <1>1 DEF Recreate, Emptied
  <2>2. run'.pc = "open" /\ run'.coll = run.coll
    BY <1>0, <1>1 DEF Recreate, Run
  <2>3. AmbDone'
    BY <1>0, <2>1, <2>2, AmbDoneKept DEF CalmInv, AmbCoord
  <2>4. OpenOK'
    BY <2>1, <2>2 DEF OpenOK, Pass
  <2> QED
    BY <2>2, <2>3, <2>4 DEF CalmInv, WalkOK, RowsOK, CollectOK, ReplayOK, AfterOK
<1>2. CASE OpenWalk
  <2>1. /\ run' = [run EXCEPT !.pc = "walk", !.left = {e \in bolt : collection[coordOf[e]] = run.coll}]
        /\ run.pc = "open" /\ UNCHANGED docs /\ Fresh(run)
    BY <1>0, <1>2 DEF OpenWalk, RunGoes, RunOK
  <2>2. /\ run'.pc = "walk" /\ run'.coll = run.coll /\ run'.walked = {} /\ run'.batch = <<>>
        /\ run'.left = {e \in bolt : collection[coordOf[e]] = run.coll}
        /\ \A c \in Coord : run'.kept[c] = NoEvent
    BY <1>0, <2>1 DEF Run, Fresh
  <2>3. AmbDone'
    BY <1>0, <2>1, <2>2, AmbDoneKept DEF CalmInv
  <2>4. run'.walked = ToWalk' \ run'.left /\ run'.left \subseteq bolt'
    BY <1>0, <2>2 DEF ToWalk
  <2>5. ASSUME NEW c \in Pass' PROVE WalkingAt(c)'
    <3>1. c \in Pass /\ docs'[c] = NoDoc
      BY <2>1, <2>2, <2>5 DEF Pass, CalmInv, OpenOK
    <3>2. WalkedAt(c)' = {} /\ run'.kept[c] = NoEvent /\ docs'[c].ev = NoEvent /\ docs'[c].text = NoEvent
      BY <2>2, <3>1, NoDocIs DEF WalkedAt, Pass
    <3>3. Shows(c)'
      BY <2>2, <3>2 DEF Shows
    <3> QED
      BY <3>2, <3>3 DEF WalkingAt, IsNewestOf
  <2>6. WalkOK'
    BY <2>4, <2>5 DEF WalkOK
  <2> QED
    BY <2>2, <2>3, <2>6 DEF CalmInv, OpenOK, RowsOK, CollectOK, ReplayOK, AfterOK
<1> QED
  BY <1>1, <1>2

(* What a visit does to the dedup of a coordinate, and to the batch. *)
LEMMA VisitDedup ==
  ASSUME TypeInv, CalmInv, run.pc = "walk", UNCHANGED <<bolt, gone>>,
         NEW e \in run.left, run' = Visited(e), run' \in Run, run'.coll = run.coll
  PROVE  /\ run'.walked = ToWalk' \ run'.left /\ run'.left \subseteq bolt'
         /\ \A c \in Pass : IsNewestOf(run'.kept[c], WalkedAt(c)')
         /\ \A c \in Pass : (e \in gone \/ ~ Keep(e) \/ c # coordOf[e]) => run'.kept[c] = run.kept[c]
         /\ e \notin gone /\ Keep(e) => run'.kept[coordOf[e]] = e
         /\ run'.batch = IF e \notin gone /\ Keep(e) /\ IsAmb(e) THEN Append(run.batch, e) ELSE run.batch
<1>0. /\ run \in Run /\ RunOK(run) /\ e \in Event /\ coordOf[e] \in Coord /\ coordOf[e] \in Pass
      /\ run.walked = ToWalk \ run.left /\ run.walked \in SUBSET Event /\ run.left \subseteq bolt
      /\ collection[coordOf[e]] = run.coll
  BY EventCoord DEF TypeInv, Run, RunOK, Pass, CalmInv, WalkOK
<1>1. \A c \in Pass : IsNewestOf(run.kept[c], WalkedAt(c)) /\ WalkedAt(c) \in SUBSET Event
  BY <1>0 DEF CalmInv, WalkOK, WalkingAt, WalkedAt
<1>2. CASE e \in gone
  <2>1. run' = [run EXCEPT !.left = run.left \ {e}]
    BY <1>0, <1>2, VisitedIs
  <2>2. /\ run'.walked = run.walked /\ run'.left = run.left \ {e} /\ run'.kept = run.kept
        /\ run'.batch = run.batch
    BY <1>0, <2>1 DEF Run
  <2>3. \A c : WalkedAt(c)' = WalkedAt(c)
    BY <2>2 DEF WalkedAt
  <2> QED
    BY <1>0, <1>1, <1>2, <2>2, <2>3 DEF ToWalk
<1>3. CASE e \notin gone
  <2>1. run'.walked = run.walked \cup {e} /\ run'.left = run.left \ {e}
    <3>1. CASE ~ Keep(e)
      <4>1. run' = [run EXCEPT !.left = run.left \ {e}, !.walked = run.walked \cup {e}]
        BY <1>0, <1>3, <3>1, VisitedIs
      <4> QED
        BY <1>0, <4>1 DEF Run
    <3>2. CASE Keep(e)
      <4>1. run' = [run EXCEPT !.left = run.left \ {e}, !.walked = run.walked \cup {e},
                               !.kept = [run.kept EXCEPT ![coordOf[e]] = e],
                               !.batch = IF IsAmb(e) THEN Append(run.batch, e) ELSE run.batch]
        BY <1>0, <1>3, <3>2, VisitedIs
      <4> QED
        BY <1>0, <4>1 DEF Run
    <3> QED
      BY <3>1, <3>2
  <2>2. \A c \in Pass : WalkedAt(c)' = IF c = coordOf[e] THEN WalkedAt(c) \cup {e} ELSE WalkedAt(c)
    BY <2>1 DEF WalkedAt
  <2>0. run'.walked = ToWalk' \ run'.left /\ run'.left \subseteq bolt'
    <3>1. e \in ToWalk /\ ToWalk' = ToWalk
      BY <1>0, <1>3 DEF ToWalk
    <3> QED
      BY <1>0, <2>1, <3>1
  <2>3. CASE ~ Keep(e)
    <3>1. run'.kept = run.kept /\ run'.batch = run.batch
      BY <1>0, <1>3, <2>3, VisitedIs DEF Run
    <3>2. IsNewestOf(run.kept[coordOf[e]], WalkedAt(coordOf[e]) \cup {e})
      BY <1>0, <1>1, <2>3, NewerIsNewest DEF Keep
    <3> QED
      BY <1>0, <1>1, <1>3, <2>0, <2>2, <2>3, <3>1, <3>2
  <2>4. CASE Keep(e)
    <3>1. /\ run'.kept = [run.kept EXCEPT ![coordOf[e]] = e]
          /\ run'.batch = IF IsAmb(e) THEN Append(run.batch, e) ELSE run.batch
      BY <1>0, <1>3, <2>4, VisitedIs DEF Run
    <3>2. IsNewestOf(e, WalkedAt(coordOf[e]) \cup {e})
      BY <1>0, <1>1, <2>4, NewerIsNewest DEF Keep
    <3>3. run.kept \in [Coord -> OptEvent] /\ Pass \in SUBSET Coord
      BY <1>0 DEF Run, Pass
    <3>4. \A c \in Pass : run'.kept[c] = IF c = coordOf[e] THEN e ELSE run.kept[c]
      BY <3>1, <3>3
    <3> QED
      BY <1>0, <1>1, <1>3, <2>0, <2>2, <2>4, <3>1, <3>2, <3>4
  <2> QED
    BY <2>3, <2>4
<1> QED
  BY <1>2, <1>3

(* Of the others' documents and of the batch a visit changes nothing that  *)
(* counts.                                                                 *)
LEMMA WalkCalm ==
  ASSUME TypeInv, CalmInv, calm', WalkAmb \/ WalkStructured
  PROVE  CalmInv'
<1>0. /\ UNCHANGED <<bolt, gone, rows>> /\ run \in Run /\ RunOK(run) /\ docs \in [Coord -> DocType]
      /\ run.pc = "walk" /\ calm' # FALSE
  BY Zenon DEF TypeInv, DocsOK, WalkAmb, WalkStructured, RunGoes, RunCalls, UnchangedOthers
<1>1. PICK e \in run.left :
        /\ run' = Visited(e)
        /\ docs' = IF run.coll = "structured" /\ e \notin gone /\ Keep(e)
                   THEN [docs EXCEPT ![coordOf[e]] = Projected(e)] ELSE docs
  <2>1. CASE WalkAmb
    BY <2>1 DEF WalkAmb, NextInWalk, RunGoes
  <2>2. CASE WalkStructured
    BY <1>0, <2>2 DEF WalkStructured, NextInWalk, RunCalls
  <2> QED
    BY <2>1, <2>2
<1>2. Visited(e) \in Run /\ Visited(e).pc = "walk" /\ Visited(e).coll = run.coll
  BY VisitedFields DEF WalkAmb, WalkStructured
<1>3. /\ run'.walked = ToWalk' \ run'.left /\ run'.left \subseteq bolt'
      /\ \A c \in Pass : IsNewestOf(run'.kept[c], WalkedAt(c)')
      /\ \A c \in Pass : (e \in gone \/ ~ Keep(e) \/ c # coordOf[e]) => run'.kept[c] = run.kept[c]
      /\ e \notin gone /\ Keep(e) => run'.kept[coordOf[e]] = e
      /\ run'.batch = IF e \notin gone /\ Keep(e) /\ IsAmb(e) THEN Append(run.batch, e) ELSE run.batch
  BY <1>0, <1>1, <1>2, VisitDedup
<1>4. /\ e \in Event /\ coordOf[e] \in Coord /\ collection[coordOf[e]] = run.coll
      /\ (IsAmb(e) <=> run.coll = "amb") /\ run.coll \in {"amb", "structured"}
      /\ run.batch \in Seq(Event) /\ Projected(e).ev = e /\ Projected(e).text = NoEvent
  BY <1>0, EventCoord, ProjectedIs DEF Run, RunOK, Collection
<1>5. ASSUME NEW c \in Pass
      PROVE  Shows(c)' /\ docs'[c].text = NoEvent
  <2>1. Shows(c) /\ docs[c].text = NoEvent /\ c \in Coord
    BY <1>0 DEF CalmInv, WalkOK, WalkingAt, Pass
  <2>2. CASE e \in gone \/ ~ Keep(e)
    <3>1. run'.batch = run.batch /\ run'.kept[c] = run.kept[c] /\ docs' = docs
      BY <1>1, <1>3, <2>2
    <3> QED
      BY <2>1, <3>1 DEF Shows
  <2>3. CASE e \notin gone /\ Keep(e) /\ run.coll = "amb"
    <3>1. run'.batch = Append(run.batch, e) /\ docs' = docs
      BY <1>1, <1>3, <1>4, <2>3
    <3> DEFINE n == Len(run.batch)
    <3>2. /\ n \in Nat /\ DOMAIN run.batch = 1 .. n /\ DOMAIN run'.batch = 1 .. (n + 1)
          /\ run'.batch[n + 1] = e /\ \A i \in 1 .. n : run'.batch[i] = run.batch[i]
      BY <1>4, <3>1
    <3> HIDE DEF n
    <3>3. CASE c = coordOf[e]
      <4>1. /\ n + 1 \in DOMAIN run'.batch /\ run'.batch[n + 1] = run'.kept[c] /\ coordOf[run'.batch[n + 1]] = c
            /\ \A j \in DOMAIN run'.batch : j <= n + 1
        BY <1>3, <2>3, <3>2, <3>3
      <4> QED
        BY <2>1, <3>1, <4>1 DEF Shows
    <3>4. CASE c # coordOf[e]
      <4>1. /\ run'.kept[c] = run.kept[c]
            /\ \A i \in 1 .. (n + 1) : coordOf[run'.batch[i]] = c => i \in 1 .. n
        BY <1>3, <3>2, <3>4
      <4>2. CASE docs[c].ev = run.kept[c] /\ \A i \in DOMAIN run.batch : coordOf[run.batch[i]] # c
        BY <2>1, <3>1, <3>2, <4>1, <4>2 DEF Shows
      <4>3. ASSUME NEW i \in DOMAIN run.batch, run.batch[i] = run.kept[c], coordOf[run.batch[i]] = c,
                   \A j \in DOMAIN run.batch : coordOf[run.batch[j]] = c => j <= i
            PROVE  Shows(c)'
        <5>1. /\ i \in DOMAIN run'.batch /\ run'.batch[i] = run'.kept[c] /\ coordOf[run'.batch[i]] = c
              /\ \A j \in DOMAIN run'.batch : coordOf[run'.batch[j]] = c => j <= i
          BY <3>2, <4>1, <4>3
        <5> QED
          BY <5>1 DEF Shows
      <4> QED
        BY <2>1, <3>1, <4>2, <4>3 DEF Shows
    <3> QED
      BY <3>3, <3>4
  <2>4. CASE e \notin gone /\ Keep(e) /\ run.coll = "structured"
    <3>1. run'.batch = <<>> /\ run.batch = <<>>
      BY <1>0, <1>3, <1>4, <2>4 DEF RunOK
    <3>2. docs'[c] = IF c = coordOf[e] THEN Projected(e) ELSE docs[c]
      BY <1>0, <1>1, <1>4, <2>1, <2>4
    <3>3. docs[c].ev = run.kept[c]
      BY <2>1, <3>1 DEF Shows
    <3>4. docs'[c].ev = run'.kept[c]
      BY <1>3, <1>4, <2>4, <3>2, <3>3
    <3> QED
      BY <1>4, <2>1, <3>1, <3>2, <3>4 DEF Shows
  <2> QED
    BY <1>4, <2>2, <2>3, <2>4
<1>6. WalkOK'
  BY <1>1, <1>2, <1>3, <1>5 DEF WalkOK, WalkingAt, Pass
<1>7. AmbDone'
  <2>1. run.coll = "structured" => \A c \in AmbCoord : docs'[c] = docs[c]
    BY <1>0, <1>1, <1>4 DEF AmbCoord
  <2> QED
    BY <1>0, <1>1, <1>2, <2>1, AmbDoneKept DEF CalmInv
<1> QED
  BY <1>1, <1>2, <1>6, <1>7 DEF CalmInv, OpenOK, RowsOK, CollectOK, ReplayOK, AfterOK

LEMMA FlushCalm ==
  ASSUME TypeInv, CalmInv, calm', Flush
  PROVE  CalmInv'
<1> DEFINE B == run.batch
           last(c) == {i \in DOMAIN B : coordOf[B[i]] = c /\ \A j \in DOMAIN B : coordOf[B[j]] = c => j <= i}
<1>0. /\ UNCHANGED <<bolt, gone, rows>> /\ run \in Run /\ RunOK(run) /\ run.pc = "walk" /\ run.coll = "amb"
      /\ run' = [run EXCEPT !.batch = <<>>] /\ B \in Seq(Event)
  BY DEF TypeInv, Flush, UnchangedOthers, Run
<1>1. docs' = [c \in Coord |-> IF last(c) = {} THEN docs[c] ELSE Projected(B[CHOOSE i \in last(c) : TRUE])]
  <2>1. PICK landed \in SUBSET DOMAIN B :
          /\ docs' = [c \in Coord |->
               IF {i \in landed : coordOf[B[i]] = c /\ \A j \in landed : coordOf[B[j]] = c => j <= i} = {} THEN docs[c]
               ELSE Projected(B[CHOOSE i \in {i \in landed : coordOf[B[i]] = c /\
                                     \A j \in landed : coordOf[B[j]] = c => j <= i} : TRUE])]
          /\ calm' = (calm /\ landed = DOMAIN B)
    BY DEF Flush
  <2>2. landed = DOMAIN B
    BY <2>1, Zenon
  <2> QED
    BY <2>1, <2>2
<1>2. run'.pc = "walk" /\ run'.coll = "amb" /\ run'.batch = <<>> /\ run'.walked = run.walked
      /\ run'.kept = run.kept /\ run'.left = run.left
  BY <1>0 DEF Run
<1>3. ASSUME NEW c \in Pass
      PROVE  WalkingAt(c)'
  <2>1. c \in Coord /\ Shows(c) /\ docs[c].text = NoEvent /\ IsNewestOf(run.kept[c], WalkedAt(c))
    BY <1>0 DEF CalmInv, WalkOK, WalkingAt, Pass
  <2>2. docs'[c].ev = run.kept[c] /\ docs'[c].text = NoEvent
    <3>1. CASE docs[c].ev = run.kept[c] /\ \A i \in DOMAIN B : coordOf[B[i]] # c
      <4>1. last(c) = {}
        BY <3>1
      <4> QED
        BY <1>1, <2>1, <3>1, <4>1
    <3>2. ASSUME NEW i \in DOMAIN B, B[i] = run.kept[c], coordOf[B[i]] = c,
                 \A j \in DOMAIN B : coordOf[B[j]] = c => j <= i
          PROVE  docs'[c].ev = run.kept[c] /\ docs'[c].text = NoEvent
      <4>1. \A k \in last(c) : k = i
        <5> SUFFICES ASSUME NEW k \in last(c) PROVE k = i
          OBVIOUS
        <5>1. k \in DOMAIN B /\ k <= i /\ i <= k /\ k \in Nat /\ i \in Nat
          BY <1>0, <3>2
        <5> QED
          BY <5>1
      <4>2. i \in last(c)
        BY <3>2
      <4>3. (CHOOSE k \in last(c) : TRUE) = i /\ last(c) # {}
        <5> HIDE DEF last
        <5> QED
          BY <4>1, <4>2
      <4>4. docs'[c] = Projected(B[i])
        BY <1>1, <2>1, <4>3
      <4>5. B[i] \in Event
        BY <1>0, <3>2
      <4> QED
        BY <3>2, <4>4, <4>5, ProjectedIs
    <3> QED
      BY <2>1, <3>1, <3>2 DEF Shows
  <2>3. Shows(c)'
    BY <1>2, <2>2 DEF Shows
  <2> QED
    BY <1>2, <2>1, <2>2, <2>3 DEF WalkingAt, WalkedAt
<1>4. WalkOK'
  BY <1>0, <1>2, <1>3 DEF WalkOK, CalmInv, Pass, ToWalk
<1> QED
  BY <1>2, <1>4 DEF CalmInv, AmbDone, OpenOK, RowsOK, CollectOK, ReplayOK, AfterOK

(* From the end of the walk to the replay. *)
LEMMA RowsCalm ==
  ASSUME TypeInv, CalmInv, calm', Walked \/ ReadRows \/ Classify \/ Classified \/ Collect \/ Collected
  PROVE  CalmInv'
<1>0. /\ UNCHANGED <<bolt, gone, docs>> /\ run \in Run /\ RunOK(run) /\ run.coll \in {"amb", "structured"}
      /\ bolt \in SUBSET Event
  BY DEF TypeInv, StoresOK, Walked, ReadRows, Classify, Classified, Collect, Collected, RunGoes, UnchangedOthers,
         Run, Collection
<1>1. rows' \cap bolt = rows \cap bolt
  <2>1. CASE Collect
    <3>1. PICK e \in run.orphans : rows' = rows \ {e}
      BY <2>1 DEF Collect
    <3>2. e \notin bolt
      BY <2>1 DEF Collect, CalmInv, CollectOK
    <3> QED
      BY <3>1, <3>2
  <2> QED
    BY <2>1 DEF Walked, ReadRows, Classify, Classified, Collected, RunGoes
<1>2. \A c \in Coord : VersionRight(c) => VersionRight(c)'
  BY <1>0, <1>1, DoneKept
<1>3. run'.coll = run.coll
  BY <1>0 DEF Walked, ReadRows, Classify, Classified, Collect, Collected, RunGoes, Run
<1>4. AmbDone'
  BY <1>0, <1>1, <1>3, AmbDoneKept DEF CalmInv
<1>5. Pass' = Pass /\ ToWalk' = ToWalk /\ rows' \cap ToWalk = rows \cap ToWalk
  BY <1>0, <1>1, <1>3 DEF Pass, ToWalk
<1>6. CASE Walked
  <2>1. run'.pc = "rows" /\ run'.walked = run.walked /\ run.pc = "walk" /\ run.left = {} /\ run.batch = <<>>
    BY <1>0, <1>6 DEF Walked, RunGoes, Run
  <2>2. run'.walked = ToWalk'
    BY <1>5, <2>1 DEF CalmInv, WalkOK
  <2>3. ASSUME NEW c \in Pass PROVE VersionRight(c)' /\ docs'[c].text = NoEvent
    <3>1. IsNewestOf(run.kept[c], WalkedAt(c)) /\ docs[c].text = NoEvent /\ Shows(c) /\ c \in Coord
      BY <2>1 DEF CalmInv, WalkOK, WalkingAt, Pass
    <3>2. docs[c].ev = run.kept[c]
      BY <2>1, <3>1 DEF Shows
    <3>3. WalkedAt(c) = Live(c)
      BY <1>5, <2>1, <2>2 DEF WalkedAt, Live, ToWalk, Pass
    <3> QED
      BY <1>0, <1>2, <3>1, <3>2, <3>3 DEF VersionRight
  <2>4. RowsOK'
    BY <1>5, <2>2, <2>3 DEF RowsOK
  <2> QED
    BY <1>4, <2>1, <2>4 DEF CalmInv, OpenOK, WalkOK, CollectOK, ReplayOK, AfterOK
<1>7. CASE ReadRows
  <2>1. \A c \in Pass : VersionRight(c)' /\ docs'[c].text = NoEvent
    BY <1>0, <1>2, <1>7 DEF ReadRows, CalmInv, RowsOK, Pass
  <2>2. run.walked = ToWalk /\ run.orphans = {} /\ rows' = rows
    BY <1>0, <1>7 DEF ReadRows, CalmInv, RowsOK, RunOK
  <2>3. CASE run.coll = "amb"
    <3>1. run'.pc = "classify" /\ run'.live = rows \cap run.walked /\ run'.orphans = run.orphans
      BY <1>0, <1>7, <2>3 DEF ReadRows, Run
    <3>2. CollectOK'
      BY <1>5, <2>1, <2>2, <3>1 DEF CollectOK
    <3> QED
      BY <1>4, <3>1, <3>2 DEF CalmInv, OpenOK, WalkOK, RowsOK, ReplayOK, AfterOK
  <2>4. CASE run.coll = "structured"
    <3>1. run'.pc = "replay"
      BY <1>0, <1>7, <2>4 DEF ReadRows, Run
    <3>2. ReplayOK'
      BY <1>3, <1>5, <2>1, <2>4, <3>1 DEF ReplayOK
    <3> QED
      BY <1>4, <3>1, <3>2 DEF CalmInv, OpenOK, WalkOK, RowsOK, CollectOK, AfterOK
  <2> QED
    BY <1>0, <2>3, <2>4
<1>8. CASE Classify \/ Classified \/ Collect \/ Collected
  <2>1. /\ \A c \in Pass : VersionRight(c)' /\ docs'[c].text = NoEvent
        /\ run.live = rows \cap ToWalk /\ run.orphans \cap bolt = {} /\ run.coll = "amb"
    BY <1>0, <1>2, <1>8 DEF Classify, Classified, Collect, Collected, CalmInv, CollectOK, RunOK, Pass
  <2>2. CASE Classify \/ Classified \/ Collect
    <3>1. run'.pc \in {"classify", "collect"} /\ run'.live = run.live /\ run'.orphans \cap bolt = {}
      <4>1. CASE Classify
        <5>1. PICK e \in run.todo :
                run' = [run EXCEPT !.todo = @ \ {e}, !.orphans = IF IsOrphan(e) THEN @ \cup {e} ELSE @]
          BY <4>1 DEF Classify, RunGoes
        <5>2. run'.pc = run.pc /\ run'.live = run.live /\ run.pc = "classify"
              /\ run'.orphans = IF e \notin bolt THEN run.orphans \cup {e} ELSE run.orphans
          BY <1>0, <4>1, <5>1 DEF Run, IsOrphan, Classify
        <5> QED
          BY <2>1, <5>2
      <4>2. CASE Classified
        BY <1>0, <2>1, <4>2 DEF Classified, RunGoes, Run
      <4>3. CASE Collect
        BY <1>0, <2>1, <4>3 DEF Collect, Run
      <4> QED
        BY <2>2, <4>1, <4>2, <4>3
    <3>2. CollectOK'
      BY <1>0, <1>5, <2>1, <3>1 DEF CollectOK
    <3> QED
      BY <1>4, <3>1, <3>2 DEF CalmInv, OpenOK, WalkOK, RowsOK, ReplayOK, AfterOK
  <2>3. CASE Collected
    <3>1. run'.pc = "replay" /\ run'.live = run.live /\ rows' = rows
      BY <1>0, <2>3 DEF Collected, RunGoes, Run
    <3>2. ASSUME NEW c \in Pass PROVE ReplayingAt(c)'
      <4>1. Text(c)' \subseteq run'.live
        BY <1>0, <2>1, <3>1 DEF Text, Live, ToWalk, Pass
      <4>2. ReplayedAt(c)' = {} /\ docs'[c].text = NoEvent
        BY <2>1, <4>1 DEF ReplayedAt
      <4> QED
        BY <4>2 DEF ReplayingAt, IsNewestOf
    <3>3. ReplayOK'
      BY <1>5, <2>1, <3>1, <3>2 DEF ReplayOK
    <3> QED
      BY <1>4, <3>1, <3>3 DEF CalmInv, OpenOK, WalkOK, RowsOK, CollectOK, AfterOK
  <2> QED
    BY <1>8, <2>2, <2>3
<1> QED
  BY <1>6, <1>7, <1>8

LEMMA PatchedIs ==
  ASSUME NEW ds \in [Coord -> DocType], NEW e \in Event, NEW c \in Coord
  PROVE  /\ Patched(ds, e, e)[c].ev = ds[c].ev
         /\ c # coordOf[e] => Patched(ds, e, e)[c] = ds[c]
         /\ c = coordOf[e] /\ ds[c] # NoDoc => Patched(ds, e, e)[c].text = e
<1>1. coordOf[e] \in Coord /\ ds[c] \in DocType
  BY EventCoord
<1> QED
  BY <1>1 DEF Patched, DocType

LEMMA ReplayCalm ==
  ASSUME TypeInv, CalmInv, calm', Replay
  PROVE  CalmInv'
<1>0. /\ UNCHANGED <<bolt, gone, rows>> /\ run \in Run /\ run.coll = "amb" /\ run.pc = "replay" /\ calm' # FALSE
      /\ docs \in [Coord -> DocType] /\ \A c \in Coord : Whole(docs[c])
      /\ bolt \in SUBSET Event
  BY Zenon DEF TypeInv, DocsOK, StoresOK, Replay, RunCalls, UnchangedOthers
<1>1. PICK e \in run.live : /\ \A f \in run.live : ~ IsOlder(f, e)
                            /\ docs' = Patched(docs, e, e) /\ run' = [run EXCEPT !.live = @ \ {e}]
  BY <1>0 DEF Replay, NextToReplay, RunCalls
<1>2. /\ run'.pc = "replay" /\ run'.coll = "amb" /\ run'.live = run.live \ {e}
      /\ e \in Event /\ run.live \in SUBSET Event
  BY <1>0, <1>1 DEF Run
<1>3. /\ run.live \subseteq rows \cap ToWalk
      /\ \A c \in Pass : VersionRight(c) /\ ReplayingAt(c)
  BY <1>0 DEF CalmInv, ReplayOK
<1>4. ASSUME NEW c \in Pass
      PROVE  VersionRight(c)' /\ ReplayingAt(c)'
  <2>1. /\ c \in Coord /\ docs'[c].ev = docs[c].ev /\ Live(c)' = Live(c) /\ Text(c)' = Text(c)
        /\ Live(c) \in SUBSET Event /\ Text(c) \in SUBSET Event
    BY <1>0, <1>1, <1>2, PatchedIs DEF Live, Text, Pass
  <2>2. VersionRight(c)'
    BY <1>3, <2>1 DEF VersionRight
  <2>3. /\ IsNewestOf(docs[c].text, ReplayedAt(c))
        /\ \A g \in ReplayedAt(c), f \in run.live : coordOf[f] = c => ~ IsOlder(f, g)
    BY <1>3 DEF ReplayingAt
  <2>4. CASE c # coordOf[e]
    <3>1. docs'[c] = docs[c] /\ ReplayedAt(c)' = ReplayedAt(c)
      <4>1. e \notin Text(c)
        BY <2>4 DEF Text, Live
      <4> QED
        BY <1>0, <1>1, <1>2, <2>1, <2>4, <4>1, PatchedIs DEF ReplayedAt
    <3> QED
      BY <1>2, <2>2, <2>3, <3>1 DEF ReplayingAt
  <2>5. CASE c = coordOf[e]
    <3>1. e \in Text(c) /\ e \in Live(c)
      BY <1>2, <1>3, <2>5 DEF Text, Live, ToWalk
    <3>2. docs[c] # NoDoc
      <4>1. docs[c].ev \in Live(c)
        BY <1>3, <3>1 DEF VersionRight, IsNewestOf
      <4> QED
        BY <2>1, <4>1, NoDocIs, EventAssumption
    <3>3. docs'[c].text = e
      BY <1>0, <1>1, <1>2, <2>1, <2>5, <3>2, PatchedIs
    <3>4. ReplayedAt(c)' = ReplayedAt(c) \cup {e} /\ ReplayedAt(c) \in SUBSET Event
      BY <1>2, <2>1, <3>1 DEF ReplayedAt
    <3>5. IsNewestOf(e, ReplayedAt(c) \cup {e})
      BY <1>1, <1>2, <2>3, <2>5, <3>4, NewerIsNewest
    <3>6. \A g \in ReplayedAt(c) \cup {e}, f \in run.live \ {e} : coordOf[f] = c => ~ IsOlder(f, g)
      BY <1>1, <2>3
    <3> QED
      BY <1>2, <2>2, <3>3, <3>4, <3>5, <3>6 DEF ReplayingAt
  <2> QED
    BY <2>4, <2>5
<1>5. ReplayOK'
  BY <1>0, <1>2, <1>3, <1>4 DEF ReplayOK, Pass, ToWalk
<1> QED
  BY <1>2, <1>5 DEF CalmInv, AmbDone, OpenOK, WalkOK, RowsOK, CollectOK, AfterOK

LEMMA ReplayPublicationsCalm ==
  ASSUME TypeInv, CalmInv, calm', ReplayPublications
  PROVE  CalmInv'
<1>0. /\ UNCHANGED <<bolt, gone, rows>> /\ run \in Run /\ run.coll = "structured" /\ run.pc = "replay"
      /\ calm' # FALSE /\ docs \in [Coord -> DocType]
  BY Zenon DEF TypeInv, DocsOK, ReplayPublications, RunCalls, UnchangedOthers
<1>1. PICK e \in run.live : /\ docs' = IF e \in bolt /\ ~ IsAmb(e) THEN Patched(docs, e, e) ELSE docs
                            /\ run' = [run EXCEPT !.live = @ \ {e}]
  BY <1>0 DEF ReplayPublications, RunCalls
<1>2. run'.pc = "replay" /\ run'.coll = "structured" /\ e \in Event
  BY <1>0, <1>1 DEF Run
<1>3. ASSUME NEW c \in Coord
      PROVE  docs'[c].ev = docs[c].ev /\ (c \in AmbCoord => docs'[c] = docs[c])
  <2>1. ~ IsAmb(e) /\ c \in AmbCoord => c # coordOf[e]
    BY <1>2, EventCoord DEF AmbCoord
  <2> QED
    BY <1>0, <1>1, <1>2, <2>1, PatchedIs
<1>4. AmbDone'
  BY <1>0, <1>2, <1>3, AmbDoneKept DEF CalmInv, AmbCoord
<1>5. \A c \in Coord : VersionRight(c) => VersionRight(c)'
  BY <1>0, <1>3 DEF VersionRight, Live, IsNewestOf
<1>6. ReplayOK'
  BY <1>0, <1>2, <1>5 DEF ReplayOK, CalmInv, Pass
<1> QED
  BY <1>2, <1>4, <1>6 DEF CalmInv, OpenOK, WalkOK, RowsOK, CollectOK, AfterOK

LEMMA ReplayedCalm ==
  ASSUME TypeInv, CalmInv, calm', Replayed \/ RunEnds
  PROVE  CalmInv'
<1>0. UNCHANGED <<bolt, gone, rows, docs>> /\ run \in Run /\ run.coll \in {"amb", "structured"}
  BY DEF TypeInv, Replayed, RunEnds, RunGoes, UnchangedOthers, Run, Collection
<1>1. \A c \in Coord : (VersionRight(c) => VersionRight(c)') /\ (TextRight(c) => TextRight(c)')
  BY <1>0, DoneKept
<1>2. CASE Replayed /\ run.coll = "amb"
  <2>1. run'.pc = "recreate" /\ run.live = {} /\ run.pc = "replay"
    BY <1>2 DEF Replayed, RunGoes, Resting
  <2>2. ASSUME NEW c \in AmbCoord PROVE VersionRight(c) /\ TextRight(c)
    <3>1. VersionRight(c) /\ ReplayingAt(c)
      BY <1>2, <2>1 DEF CalmInv, ReplayOK, AmbCoord, Pass
    <3>2. ReplayedAt(c) = Text(c)
      BY <2>1 DEF ReplayedAt
    <3> QED
      BY <3>1, <3>2 DEF ReplayingAt, TextRight
  <2>3. AmbDone'
    BY <1>1, <2>2 DEF AmbDone, AmbCoord
  <2> QED
    BY <2>1, <2>3 DEF CalmInv, OpenOK, WalkOK, RowsOK, CollectOK, ReplayOK, AfterOK
<1>3. CASE Replayed /\ run.coll = "structured"
  <2>1. run'.pc = "after" /\ run'.coll = "amb" /\ run.pc = "replay"
    BY <1>3 DEF Replayed, RunGoes, Resting
  <2>2. ASSUME NEW c \in Coord PROVE VersionRight(c) /\ (c \in AmbCoord => TextRight(c))
    <3>1. c \in AmbCoord \/ c \in Pass
      BY <1>3, EventAssumption DEF AmbCoord, Pass, Collection
    <3> QED
      BY <1>3, <2>1, <3>1 DEF CalmInv, AmbDone, ReplayOK
  <2>3. AfterOK'
    BY <1>1, <2>2 DEF AfterOK, AmbCoord
  <2> QED
    BY <2>1, <2>3 DEF CalmInv, AmbDone, OpenOK, WalkOK, RowsOK, CollectOK, ReplayOK
<1>4. CASE RunEnds
  <2>1. run'.pc = "idle" /\ run'.coll = "amb"
    BY <1>4 DEF RunEnds, RunGoes, Resting
  <2> QED
    BY <2>1 DEF CalmInv, AmbDone, OpenOK, WalkOK, RowsOK, CollectOK, ReplayOK, AfterOK
<1> QED
  BY <1>0, <1>2, <1>3, <1>4

LEMMA StepCalm ==
  ASSUME TypeInv, calm => CalmInv, [Next]_vars
  PROVE  calm' => CalmInv'
<1> SUFFICES ASSUME calm' PROVE CalmInv'
  OBVIOUS
<1>0. calm' # FALSE
  BY Zenon
<1>1. CASE Start
  <2>1. run'.pc = "recreate" /\ run'.coll = "amb"
    BY <1>1 DEF Start, Resting
  <2> QED
    BY <2>1 DEF CalmInv, AmbDone, OpenOK, WalkOK, RowsOK, CollectOK, ReplayOK, AfterOK
<1>2. CASE Rebuild
  <2>1. calm /\ ~ RecreateFails
    BY <1>2, StaysCalm
  <2>2. CalmInv
    BY <2>1
  <2> QED
    BY <1>2, <2>1, <2>2, OpenCalm, WalkCalm, FlushCalm, RowsCalm, ReplayCalm, ReplayPublicationsCalm, ReplayedCalm
       DEF Rebuild
<1>3. CASE UNCHANGED vars
  <2>1. calm' = calm
    BY <1>3 DEF vars
  <2>2. CalmInv
    BY <2>1, Zenon
  <2> QED
    BY <1>3, <2>2 DEF vars, stores, CalmInv, AmbDone, OpenOK, WalkOK, RowsOK, CollectOK, ReplayOK, AfterOK,
                      VersionRight, TextRight, WalkingAt, Shows, WalkedAt, ReplayingAt, ReplayedAt, Pass, ToWalk,
                      Live, Text, IsNewestOf
<1> QED
  BY <1>0, <1>1, <1>2, <1>3, OthersDisturb DEF Next

(* A rebuild that nothing disturbed leaves every document right: it shows  *)
(* the newest version that may be served, and an AMB one carries the       *)
(* fulltext of the newest version with a row, whatever versions and rows   *)
(* the stores hold, in whichever order a second's versions are walked, and *)
(* however the batches are cut.                                            *)
THEOREM RebuildIsRight == Spec => []RebuiltRight
<1>1. Init => TypeInv /\ (calm => CalmInv)
  BY InitType DEF Init
<1>2. TypeInv /\ (calm => CalmInv) => RebuiltRight
  BY CalmIsRight DEF RebuiltRight
<1>3. TypeInv /\ (calm => CalmInv) /\ [Next]_vars => TypeInv' /\ (calm' => CalmInv')
  BY StepType, StepCalm
<1> QED
  BY <1>1, <1>2, <1>3, PTL DEF Spec
=============================================================================
