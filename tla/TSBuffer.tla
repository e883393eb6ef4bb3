------------------------------- MODULE TSBuffer -------------------------------
(***************************************************************************)
(* TSWriteBuffer (buffer.go): the projection of AMB events into the search *)
(* index.  Tasks from many goroutines go through one channel to one        *)
(* worker, which batches upserts and flushes the batch when it is full,    *)
(* when the ticker fires, and before a task that must come after it.       *)
(***************************************************************************)
EXTENDS Gate, SearchIndex

CONSTANTS
  TSBufSize,   \* capacity of the channel (batchSize * 100)
  TSBatchSize  \* a batch this long is flushed

ASSUME TSAssumption == TSBufSize \in Nat \ {0} /\ TSBatchSize \in Nat \ {0}

VARIABLES
  docs,       \* Coord -> its search document
  tsCall,     \* Caller -> the task it is sending, NoTask outside Queue
  tsCh,       \* the channel
  tsClosed,   \* the closed flag the Queue functions read
  tsDone,     \* TRUE once the done channel is closed
  tsPhase,    \* the worker goroutine: live loop, drain, or returned
  tsExpired,  \* TRUE once the drain was abandoned at its deadline
  tsPc,       \* where the worker is
  tsTask,     \* the task in process(), a tick or the final flush
  tsBatch,    \* the batch: projections waiting for the gate
  tsKept,     \* projections of the batch being flushed the gate let pass
  tsPending   \* pendingDocIDs

tsWorkerVars == <<tsPc, tsTask, tsBatch, tsKept, tsPending>>
tsIntakeVars == <<tsCall, tsClosed, tsDone>>
tsVars == <<docs, tsCh, tsPhase, tsExpired, tsWorkerVars, tsIntakeVars>>

(* The two flushes that no task asks for. *)
Tick == [NoTask EXCEPT !.op = "tick"]
Final == [NoTask EXCEPT !.op = "final"]

TSTypeOK ==
  /\ docs \in [Coord -> Doc]
  /\ tsCall \in [Caller -> Task \cup {NoTask}]
  /\ tsCh \in Seq(Task) /\ Len(tsCh) <= TSBufSize
  /\ tsClosed \in BOOLEAN /\ tsDone \in BOOLEAN /\ tsExpired \in BOOLEAN
  /\ tsPhase \in {"run", "drain", "stopped"}
  /\ tsPc \in {"idle", "filter", "upsert", "act", "patch"}
  /\ tsTask \in Task \cup {NoTask, Tick, Final}
  /\ tsBatch \in Seq(AmbEvent) /\ tsKept \in Seq(AmbEvent)
  /\ tsPending \in SUBSET Coord

TSFresh ==
  /\ tsCall = [p \in Caller |-> NoTask]
  /\ tsCh = <<>>
  /\ tsClosed = FALSE /\ tsDone = FALSE /\ tsExpired = FALSE
  /\ tsPhase = "run"
  /\ tsPc = "idle" /\ tsTask = NoTask
  /\ tsBatch = <<>> /\ tsKept = <<>> /\ tsPending = {}

TSInit == docs = [c \in Coord |-> NoDoc] /\ TSFresh

-----------------------------------------------------------------------------
(* Producers. *)

(* Queue, QueueContent, QueueCommunityPatch or QueueDelete reads closed as *)
(* FALSE and is about to send; when it reads TRUE it drops the task.       *)
TSQueue(p, t) ==
  /\ ~ tsClosed
  /\ tsCall[p] = NoTask
  /\ tsCall' = [tsCall EXCEPT ![p] = t]
  /\ UNCHANGED <<docs, tsCh, tsPhase, tsExpired, tsClosed, tsDone, tsWorkerVars>>

TSSend(p) ==
  /\ tsCall[p] # NoTask
  /\ Len(tsCh) < TSBufSize
  /\ tsCh' = Append(tsCh, tsCall[p])
  /\ tsCall' = [tsCall EXCEPT ![p] = NoTask]
  /\ UNCHANGED <<docs, tsPhase, tsExpired, tsClosed, tsDone, tsWorkerVars>>

TSCloseFlag ==
  /\ ~ tsClosed
  /\ tsClosed' = TRUE
  /\ UNCHANGED <<docs, tsCall, tsCh, tsPhase, tsExpired, tsDone, tsWorkerVars>>

TSCloseDone ==
  /\ tsClosed /\ ~ tsDone
  /\ tsDone' = TRUE
  /\ UNCHANGED <<docs, tsCall, tsCh, tsPhase, tsExpired, tsClosed, tsWorkerVars>>

-----------------------------------------------------------------------------
(* The worker. *)

(* Mutant of FlushesFirst: a community patch never waits for its document. *)
FlushesFirstNoStamp(t, b) ==
  \/ t.op \in {"content", "delete"}
  \/ t.op = "event" /\ Len(b) >= TSBatchSize

(* Whether process(t) flushes the batch, which is b once t's own event is  *)
(* in: always before a content patch or a delete, before a community patch *)
(* only when its document is pending, after a projection when full.        *)
FlushesFirst(t, b) ==
  \/ t.op \in {"content", "delete"}
  \/ t.op = "stamp" /\ t.doc \in tsPending
  \/ t.op = "event" /\ Len(b) >= TSBatchSize

(* Mutant of TSTake: a community patch falls through to the batch. *)
TSTakeAll ==
  /\ tsPc = "idle" /\ tsPhase # "stopped"
  /\ tsCh # <<>>
  /\ tsCh' = Tail(tsCh)
  /\ tsBatch' = Append(tsBatch, Head(tsCh).ev)
  /\ tsPc' = "act" /\ tsTask' = Head(tsCh)
  /\ UNCHANGED <<docs, tsPhase, tsExpired, tsKept, tsPending, tsIntakeVars>>

(* process() takes over a task, its event joining the batch. *)
TSTake ==
  /\ tsPc = "idle" /\ tsPhase # "stopped"
  /\ tsCh # <<>>
  /\ tsCh' = Tail(tsCh)
  /\ LET t == Head(tsCh)
         projects == t.op \in {"event", "content"}
         b == IF projects THEN Append(tsBatch, t.ev) ELSE tsBatch
     IN /\ tsBatch' = b
        /\ tsPending' = IF projects THEN tsPending \cup {coordOf[t.ev]} ELSE tsPending
        /\ \/ /\ FlushesFirst(t, b)
              /\ tsPc' = "filter" /\ tsTask' = t
           \/ /\ ~ FlushesFirst(t, b)
              /\ t.op = "event"
              /\ UNCHANGED <<tsPc, tsTask>>
           \/ /\ ~ FlushesFirst(t, b)
              /\ t.op = "stamp"
              /\ tsPc' = "act" /\ tsTask' = t
  /\ UNCHANGED <<docs, tsPhase, tsExpired, tsKept, tsIntakeVars>>

(* Mutant of TSTick: only a full batch is flushed. *)
TSTickWhenFull ==
  /\ tsPc = "idle" /\ tsPhase = "run"
  /\ Len(tsBatch) >= TSBatchSize
  /\ tsPc' = "filter" /\ tsTask' = Tick
  /\ UNCHANGED <<docs, tsCh, tsPhase, tsExpired, tsBatch, tsKept, tsPending, tsIntakeVars>>

(* The ticker flushes what has gathered, if anything. *)
TSTick ==
  /\ tsPc = "idle" /\ tsPhase = "run"
  /\ tsBatch # <<>>
  /\ tsPc' = "filter" /\ tsTask' = Tick
  /\ UNCHANGED <<docs, tsCh, tsPhase, tsExpired, tsBatch, tsKept, tsPending, tsIntakeVars>>

(* Mutant of TSFilter: the kept projections are collected in reverse. *)
TSFilterReversed ==
  /\ tsPc = "filter"
  /\ tsBatch # <<>>
  /\ tsBatch' = Tail(tsBatch)
  /\ tsKept' = IF Blocked(Head(tsBatch)) THEN tsKept ELSE <<Head(tsBatch)>> \o tsKept
  /\ UNCHANGED <<docs, tsCh, tsPhase, tsExpired, tsPc, tsTask, tsPending, tsIntakeVars>>

(* flushBatch asks the gate about the events one after the other. *)
TSFilter ==
  /\ tsPc = "filter"
  /\ tsBatch # <<>>
  /\ tsBatch' = Tail(tsBatch)
  /\ tsKept' = IF Blocked(Head(tsBatch)) THEN tsKept ELSE Append(tsKept, Head(tsBatch))
  /\ UNCHANGED <<docs, tsCh, tsPhase, tsExpired, tsPc, tsTask, tsPending, tsIntakeVars>>

(* Mutant of TSFlushed: pendingDocIDs is not cleared. *)
TSFlushedKeepsPending ==
  /\ tsKept' = <<>> /\ UNCHANGED tsPending
  /\ IF tsTask.op \in {"content", "stamp", "delete"}
       THEN tsPc' = "act" /\ UNCHANGED tsTask
       ELSE tsPc' = "idle" /\ tsTask' = NoTask
  /\ tsPhase' = IF tsTask.op = "final" THEN "stopped" ELSE tsPhase

(* The end of flushBatch; process() is done unless the task has a write of *)
(* its own to make, and the final flush ends the drain.                    *)
TSFlushed ==
  /\ tsKept' = <<>> /\ tsPending' = {}
  /\ IF tsTask.op \in {"content", "stamp", "delete"}
       THEN tsPc' = "act" /\ UNCHANGED tsTask
       ELSE tsPc' = "idle" /\ tsTask' = NoTask
  /\ tsPhase' = IF tsTask.op = "final" THEN "stopped" ELSE tsPhase

(* An empty batch is not sent. *)
TSFiltered ==
  /\ tsPc = "filter"
  /\ tsBatch = <<>>
  /\ IF tsKept = <<>>
       THEN TSFlushed
       ELSE tsPc' = "upsert" /\ UNCHANGED <<tsPhase, tsTask, tsKept, tsPending>>
  /\ UNCHANGED <<docs, tsCh, tsExpired, tsBatch, tsIntakeVars>>

(* Upsert, retries included: any part of the batch may have got through    *)
(* when it gives up; what has not is dropped from the batch all the same.  *)
TSUpsert ==
  /\ tsPc = "upsert"
  /\ \E landed \in SUBSET DOMAIN tsKept : docs' = Upserted(docs, tsKept, landed)
  /\ TSFlushed
  /\ UNCHANGED <<tsCh, tsExpired, tsBatch, tsIntakeVars>>

(* The task's own write; it may fail, which is only logged.                *)
TSReturn == tsPc' = "idle" /\ tsTask' = NoTask

TSDelete ==
  /\ tsPc = "act" /\ tsTask.op = "delete"
  /\ docs' \in {docs, Deleted(docs, tsTask.ev, {"amb"})}
  /\ TSReturn
  /\ UNCHANGED <<tsCh, tsPhase, tsExpired, tsBatch, tsKept, tsPending, tsIntakeVars>>

TSStamp ==
  /\ tsPc = "act" /\ tsTask.op = "stamp"
  /\ docs' \in {docs, Stamped(docs, tsTask.doc, tsTask.set)}
  /\ TSReturn
  /\ UNCHANGED <<tsCh, tsPhase, tsExpired, tsBatch, tsKept, tsPending, tsIntakeVars>>

(* A content task asks the gate once more and leaves a blocked event be.   *)
TSRecheck ==
  /\ tsPc = "act" /\ tsTask.op = "content"
  /\ \/ Blocked(tsTask.ev) /\ TSReturn
     \/ ~ Blocked(tsTask.ev) /\ tsPc' = "patch" /\ UNCHANGED tsTask
  /\ UNCHANGED <<docs, tsCh, tsPhase, tsExpired, tsBatch, tsKept, tsPending, tsIntakeVars>>

TSPatch ==
  /\ tsPc = "patch"
  /\ docs' \in {docs, ContentPatched(docs, coordOf[tsTask.ev])}
  /\ TSReturn
  /\ UNCHANGED <<tsCh, tsPhase, tsExpired, tsBatch, tsKept, tsPending, tsIntakeVars>>

TSProcess ==
  TSFilter \/ TSFiltered \/ TSUpsert \/ TSDelete \/ TSStamp \/ TSRecheck \/ TSPatch

(* Mutant of TSDrain: the loop looks at done only when a task arrives. *)
TSDrainOnTraffic ==
  /\ tsPc = "idle" /\ tsPhase = "run"
  /\ tsDone /\ tsCh # <<>>
  /\ tsPhase' = "drain"
  /\ UNCHANGED <<docs, tsCh, tsExpired, tsWorkerVars, tsIntakeVars>>

(* The live loop sees done and starts the drain. *)
TSDrain ==
  /\ tsPc = "idle" /\ tsPhase = "run"
  /\ tsDone
  /\ tsPhase' = "drain"
  /\ UNCHANGED <<docs, tsCh, tsExpired, tsWorkerVars, tsIntakeVars>>

(* The drain finds the channel empty: the final flush. *)
TSFinalFlush ==
  /\ tsPc = "idle" /\ tsPhase = "drain"
  /\ tsCh = <<>>
  /\ tsPc' = "filter" /\ tsTask' = Final
  /\ UNCHANGED <<docs, tsCh, tsPhase, tsExpired, tsBatch, tsKept, tsPending, tsIntakeVars>>

(* The deadline passes during a task or the final flush, whose goroutine   *)
(* is left to finish on its own.                                           *)
TSAbandon ==
  /\ tsPc # "idle" /\ tsPhase = "drain"
  /\ tsPhase' = "stopped" /\ tsExpired' = TRUE
  /\ UNCHANGED <<docs, tsCh, tsWorkerVars, tsIntakeVars>>

(* The deadline has passed before the next task, or the final flush,       *)
(* starts: it is dropped.                                                  *)
TSExpire ==
  /\ tsPc = "idle" /\ tsPhase = "drain"
  /\ tsCh' = IF tsCh = <<>> THEN tsCh ELSE Tail(tsCh)
  /\ tsPhase' = "stopped" /\ tsExpired' = TRUE
  /\ UNCHANGED <<docs, tsWorkerVars, tsIntakeVars>>

TSShutdown == TSDrain \/ TSFinalFlush \/ TSAbandon \/ TSExpire

TSRun == TSTake \/ TSTick \/ TSProcess \/ TSShutdown

-----------------------------------------------------------------------------
(* The buffer among arbitrary producers, purges and gate changes.          *)

(* registry.deleteEverywhere, the purge's own delete: every collection. *)
TSPurge(e) ==
  /\ docs' = Deleted(docs, e, Collection)
  /\ UNCHANGED <<tsCh, tsPhase, tsExpired, tsWorkerVars, tsIntakeVars>>

TSEnv ==
  \/ \E p \in Caller, t \in Task : TSQueue(p, t)
  \/ \E p \in Caller : TSSend(p)
  \/ TSCloseFlag
  \/ TSCloseDone
  \/ \E e \in Event : TSPurge(e)

TSNext ==
  \/ (TSRun \/ TSEnv) /\ UNCHANGED gateVars
  \/ \E e \in Event : (RecordBan(e) \/ AllowEvent(e)) /\ UNCHANGED tsVars

TSBufferVars == <<gateVars, tsVars>>

(* As for the other buffer; the ticker is one of several ready cases of a  *)
(* select, which Go picks at random.                                       *)
TSScheduling ==
  /\ WF_TSBufferVars(TSTake /\ UNCHANGED gateVars)
  /\ SF_TSBufferVars(TSTick /\ UNCHANGED gateVars)
  /\ WF_TSBufferVars(TSShutdown /\ UNCHANGED gateVars)
  /\ WF_TSBufferVars(TSCloseDone /\ UNCHANGED gateVars)
  /\ \A p \in Caller : SF_TSBufferVars(TSSend(p) /\ UNCHANGED gateVars)

(* Every call to the search backend returns. *)
TSCallsReturn == WF_TSBufferVars(TSProcess /\ UNCHANGED gateVars)

TSBufferInit == GateInit /\ TSInit

TSSafeSpec == TSBufferInit /\ [][TSNext]_TSBufferVars

TSSpec == TSSafeSpec /\ TSScheduling /\ TSCallsReturn

-----------------------------------------------------------------------------
(* Properties. *)

InSeq(x, s) == \E i \in DOMAIN s : s[i] = x

Unflushed(c) == \E e \in Event : coordOf[e] = c /\ (InSeq(e, tsBatch) \/ InSeq(e, tsKept))

(* A document with a projection waiting in the batch is in pendingDocIDs,  *)
(* and between tasks no other is: the set a community patch consults is    *)
(* neither stale nor late.                                                 *)
PendingExact ==
  /\ \A c \in Coord : Unflushed(c) => c \in tsPending
  /\ tsPc = "idle" => \A c \in tsPending : Unflushed(c)

(* A community or content patch is sent only when no projection of its     *)
(* document is waiting behind it in the worker, to overwrite it.           *)
PatchNotClobbered ==
  /\ tsPc = "act" /\ tsTask.op = "stamp" => ~ Unflushed(tsTask.doc)
  /\ tsPc = "patch" => ~ Unflushed(coordOf[tsTask.ev])

(* What gathers in the batch is flushed, full or not. *)
BatchFlushed == \A c \in Coord : c \in tsPending ~> c \notin tsPending \/ tsPhase = "stopped"

(* Close returns. *)
TSCloseReturns == tsClosed ~> tsPhase = "stopped"
=============================================================================
