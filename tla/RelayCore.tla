------------------------------ MODULE RelayCore ------------------------------
(***************************************************************************)
(* The write path as a whole: goroutines that publish, delete and ban      *)
(* (relay.StoreEvent, ReplaceEvent, DeleteEvent and banevent in main.go,   *)
(* eventPurger in purge.go), the two write buffers and the gate between    *)
(* them, and the process, which may stop at any moment and start again.    *)
(*                                                                         *)
(* One step is one access to shared state: one gate transaction, one call  *)
(* to a store, one look at a closed flag, one channel operation.           *)
(***************************************************************************)
EXTENDS BoltBuffer, TSBuffer

CONSTANTS
  MaxStarts,   \* bound: requests begun
  MaxRestarts  \* bound: times the process stops and starts again

ASSUME BoundAssumption == MaxStarts \in Nat /\ MaxRestarts \in Nat

VARIABLES
  job,        \* Caller -> the request its goroutine is serving
  acked,      \* history: events whose client got OK=true
  tsOrphans,  \* history: documents whose queued delete failed or was lost
  starts,     \* requests begun
  restarts    \* restarts made

coreVars == <<job, acked, tsOrphans, starts, restarts>>
vars == <<gateVars, boltVars, tsVars, coreVars>>

JobPc == {"idle", "queue", "store", "ack", "coords", "findBolt", "findIndex",
          "targets", "ids", "mark", "purgeBolt", "purgeIndex", "queueDelete", "return"}

(* ev: the event of the request.  save: it came from the stamp fetcher,    *)
(* which always calls SaveEvent.  coords, ids: 'a' and 'e' targets left.   *)
(* coord, targets: the coordinate being deleted and its versions left.     *)
(* cur: the event being purged, ret: where to go when that is done.        *)
Job == [pc : JobPc, ev : Event \cup {NoEvent}, save : BOOLEAN,
        coords : SUBSET Coord, coord : Coord \cup {NoCoord},
        targets : SUBSET Event, ids : SUBSET Event,
        cur : Event \cup {NoEvent}, ret : {"idle", "targets", "ids"}]

NoJob == [pc |-> "idle", ev |-> NoEvent, save |-> FALSE,
          coords |-> {}, coord |-> NoCoord, targets |-> {}, ids |-> {},
          cur |-> NoEvent, ret |-> "idle"]

JobOK(j) ==
  /\ j \in Job
  /\ j.pc \in {"queue", "store", "ack", "coords", "findBolt", "findIndex", "targets", "ids"}
       => j.ev \in Event
  /\ j.pc \in {"findBolt", "findIndex"} => j.coord \in Coord
  /\ j.pc \in {"mark", "purgeBolt", "purgeIndex", "queueDelete"} => j.cur \in Event
  /\ j.ret # "idle" => j.ev \in Event

CoreTypeOK ==
  /\ \A h \in Caller : JobOK(job[h])
  /\ job \in [Caller -> Job]
  /\ acked \in SUBSET Event
  /\ tsOrphans \in SUBSET Event
  /\ starts \in Nat /\ restarts \in Nat

TypeOK == GateTypeOK /\ BoltTypeOK /\ TSTypeOK /\ CoreTypeOK

Init ==
  /\ GateInit
  /\ BoltInit
  /\ TSInit
  /\ job = [h \in Caller |-> NoJob]
  /\ acked = {} /\ tsOrphans = {} /\ starts = 0 /\ restarts = 0

-----------------------------------------------------------------------------
(* A goroutine serving a request. *)

UnchangedHistory == UNCHANGED <<acked, tsOrphans, starts, restarts>>

Begin(h, j) ==
  /\ job[h].pc = "idle"
  /\ starts < MaxStarts
  /\ job' = [job EXCEPT ![h] = j]
  /\ starts' = starts + 1
  /\ UNCHANGED <<acked, tsOrphans, restarts>>

Goto(h, pc) == job' = [job EXCEPT ![h].pc = pc] /\ UnchangedHistory

(* OnEvent: a blocked event is rejected, any other goes on to StoreEvent   *)
(* or ReplaceEvent.                                                        *)
OnEvent(h, e) ==
  /\ ~ Blocked(e)
  /\ Begin(h, [NoJob EXCEPT !.pc = "queue", !.ev = e])
  /\ UNCHANGED <<gateVars, boltVars, tsVars>>

(* The stamper's store callback, for a content event it fetched from       *)
(* another relay: the same gate, then the same two writes, no reply.       *)
Fetched(h, e) ==
  /\ IsAddressable(e)
  /\ ~ Blocked(e)
  /\ Begin(h, [NoJob EXCEPT !.pc = "queue", !.ev = e, !.save = TRUE])
  /\ UNCHANGED <<gateVars, boltVars, tsVars>>

(* boltBuf.Queue.  On a closed buffer the client gets OK=false, while the  *)
(* fetcher ignores the answer.                                             *)
QueueBolt(h) ==
  LET j == job[h]
      op == [ev |-> j.ev, replace |-> IsAddressable(j.ev) /\ ~ j.save]
  IN /\ j.pc = "queue"
     /\ \/ BoltQueue(h, op) /\ Goto(h, "store")
        \/ boltClosed /\ j.save /\ Goto(h, "store") /\ UNCHANGED boltVars
        \/ /\ boltClosed /\ ~ j.save
           /\ job' = [job EXCEPT ![h] = NoJob]
           /\ UnchangedHistory /\ UNCHANGED boltVars
     /\ UNCHANGED <<gateVars, tsVars>>

(* reg.store, once Queue has returned.  An AMB event is queued for         *)
(* projection; a structured one is upserted here and now, the gate not     *)
(* asked again and an error only logged; a deletion request has no         *)
(* document, and goes on to its 'a' targets.                               *)
StoreIndex(h) ==
  LET e == job[h].ev
  IN /\ job[h].pc = "store"
     /\ boltCall[h] = NoOp
     /\ \/ IsAmb(e) /\ TSQueue(h, EventTask(e)) /\ Goto(h, "ack")
        \/ IsAmb(e) /\ tsClosed /\ Goto(h, "ack") /\ UNCHANGED tsVars
        \/ /\ IsAddressable(e) /\ ~ IsAmb(e)
           /\ docs' \in {docs, [docs EXCEPT ![coordOf[e]] = Projected(e)]}
           /\ Goto(h, "ack")
           /\ UNCHANGED <<tsCh, tsPhase, tsExpired, tsWorkerVars, tsIntakeVars>>
        \/ /\ IsDeletion(e)
           /\ job' = [job EXCEPT ![h].pc = "coords", ![h].coords = SameAuthorCoords(e),
                                 ![h].ids = eTargets[e]]
           /\ UnchangedHistory /\ UNCHANGED tsVars
     /\ UNCHANGED <<gateVars, boltVars>>

Finish(h) ==
  /\ job' = [job EXCEPT ![h] = NoJob]
  /\ acked' = IF job[h].save THEN acked ELSE acked \cup {job[h].ev}
  /\ UNCHANGED <<tsOrphans, starts, restarts>>

(* Mutant of Ack: the reply waits for the event to be durable. *)
AckWhenDurable(h) ==
  /\ job[h].pc = "ack"
  /\ tsCall[h] = NoTask
  /\ job[h].ev \in bolt
  /\ Finish(h)
  /\ UNCHANGED <<gateVars, boltVars, tsVars>>

(* The handler returns nil and khatru sends OK=true. *)
Ack(h) ==
  /\ job[h].pc = "ack"
  /\ tsCall[h] = NoTask
  /\ Finish(h)
  /\ UNCHANGED <<gateVars, boltVars, tsVars>>

(* applyCoordDeletions, per coordinate: the tombstone first (a failure is  *)
(* counted and logged), then the versions at or before the request, looked *)
(* up in the raw store and in the index, one authorDelete each.            *)
TombstoneCoord(h) ==
  /\ job[h].pc = "coords"
  /\ \E c \in job[h].coords :
       /\ MarkCoordDeleted(c, createdAt[job[h].ev]) \/ UNCHANGED gateVars
       /\ job' = [job EXCEPT ![h].pc = "findBolt", ![h].coord = c,
                             ![h].coords = @ \ {c}]
  /\ UnchangedHistory
  /\ UNCHANGED <<boltVars, tsVars>>

Covered(j, e) == coordOf[e] = j.coord /\ createdAt[e] <= createdAt[j.ev]

FindInBolt(h) ==
  /\ job[h].pc = "findBolt"
  /\ job' = [job EXCEPT ![h].pc = "findIndex",
                        ![h].targets = {e \in bolt : Covered(job[h], e)}]
  /\ UnchangedHistory
  /\ UNCHANGED <<gateVars, boltVars, tsVars>>

FindInIndex(h) ==
  /\ job[h].pc = "findIndex"
  /\ LET found == {e \in Event : docs[job[h].coord].ev = e /\ Covered(job[h], e)}
     IN job' = [job EXCEPT ![h].pc = "targets", ![h].targets = @ \cup found]
  /\ UnchangedHistory
  /\ UNCHANGED <<gateVars, boltVars, tsVars>>

(* Mutant of NextTarget: the purge does not learn which event is meant. *)
NextTargetLost(h) ==
  /\ job[h].pc = "targets"
  /\ \/ \E e \in job[h].targets :
          job' = [job EXCEPT ![h].pc = "mark", ![h].ret = "targets",
                             ![h].targets = @ \ {e}]
     \/ job[h].targets = {} /\ job' = [job EXCEPT ![h].pc = "coords"]
  /\ UnchangedHistory
  /\ UNCHANGED <<gateVars, boltVars, tsVars>>

NextTarget(h) ==
  /\ job[h].pc = "targets"
  /\ \/ \E e \in job[h].targets :
          job' = [job EXCEPT ![h].pc = "mark", ![h].cur = e, ![h].ret = "targets",
                             ![h].targets = @ \ {e}]
     \/ job[h].targets = {} /\ job' = [job EXCEPT ![h].pc = "coords"]
  /\ UnchangedHistory
  /\ UNCHANGED <<gateVars, boltVars, tsVars>>

(* No coordinate is left: khatru handles the 'e' targets. *)
CoordsDone(h) ==
  /\ job[h].pc = "coords" /\ job[h].coords = {}
  /\ Goto(h, "ids")
  /\ UNCHANGED <<gateVars, boltVars, tsVars>>

(* khatru looks an 'e' target up through QueryStored, so in the index and  *)
(* behind the read gate; AllowDeleting must accept it.  What it does not   *)
(* find it passes over.                                                    *)
Deletable(d, e) ==
  /\ IsAddressable(e)
  /\ docs[coordOf[e]].ev = e
  /\ ~ Blocked(e)
  /\ signer[e] = signer[d]

NextId(h) ==
  /\ job[h].pc = "ids"
  /\ \E e \in job[h].ids :
       job' = [job EXCEPT ![h].ids = @ \ {e},
                          ![h].pc = IF Deletable(job[h].ev, e) THEN "mark" ELSE @,
                          ![h].cur = IF Deletable(job[h].ev, e) THEN e ELSE @,
                          ![h].ret = "ids"]
  /\ UnchangedHistory
  /\ UNCHANGED <<gateVars, boltVars, tsVars>>

IdsDone(h) ==
  /\ job[h].pc = "ids" /\ job[h].ids = {}
  /\ Finish(h)
  /\ UNCHANGED <<gateVars, boltVars, tsVars>>

(* banevent: the ban first; when recording it fails nothing else happens.  *)
Ban(h, e) ==
  /\ Begin(h, [NoJob EXCEPT !.pc = "purgeBolt", !.cur = e])
  /\ RecordBan(e)
  /\ UNCHANGED <<boltVars, tsVars>>

(* authorDelete: mark (a failure is logged), then purge. *)
MarkDeleted(h) ==
  /\ job[h].pc = "mark"
  /\ MarkEventDeleted(job[h].cur) \/ UNCHANGED gateVars
  /\ Goto(h, "purgeBolt")
  /\ UNCHANGED <<boltVars, tsVars>>

(* purge: the raw store, every collection, then a delete queued behind the *)
(* projections that are queued already.                                    *)
PurgeBolt(h) ==
  /\ job[h].pc = "purgeBolt"
  /\ BoltDelete(job[h].cur)
  /\ Goto(h, "purgeIndex")
  /\ UNCHANGED <<boltCh, boltWorker, boltPhase, boltExpired, boltCallerVars>>
  /\ UNCHANGED <<gateVars, tsVars>>

PurgeIndex(h) ==
  /\ job[h].pc = "purgeIndex"
  /\ docs' \in {docs, Deleted(docs, job[h].cur, Collection)}
  /\ Goto(h, "queueDelete")
  /\ UNCHANGED <<tsCh, tsPhase, tsExpired, tsWorkerVars, tsIntakeVars>>
  /\ UNCHANGED <<gateVars, boltVars>>

(* Mutant of QueueDelete: the purge ends with its own delete. *)
QueueDeleteSkipped(h) ==
  /\ job[h].pc = "queueDelete"
  /\ Goto(h, "return")
  /\ UNCHANGED <<gateVars, boltVars, tsVars>>

QueueDelete(h) ==
  /\ job[h].pc = "queueDelete"
  /\ \/ TSQueue(h, DeleteTask(job[h].cur)) /\ Goto(h, "return")
     \/ /\ tsClosed
        /\ job' = [job EXCEPT ![h].pc = "return"]
        /\ tsOrphans' = tsOrphans \cup {job[h].cur}
        /\ UNCHANGED <<acked, starts, restarts, tsVars>>
  /\ UNCHANGED <<gateVars, boltVars>>

PurgeReturn(h) ==
  /\ job[h].pc = "return"
  /\ tsCall[h] = NoTask
  /\ \/ job[h].ret = "idle" /\ job' = [job EXCEPT ![h] = NoJob]
     \/ /\ job[h].ret # "idle"
        /\ job' = [job EXCEPT ![h].pc = job[h].ret, ![h].cur = NoEvent]
  /\ UnchangedHistory
  /\ UNCHANGED <<gateVars, boltVars, tsVars>>

Request(h) == \E e \in Event : OnEvent(h, e) \/ Fetched(h, e) \/ Ban(h, e)

Serving(h) ==
  \/ QueueBolt(h) \/ StoreIndex(h) \/ Ack(h)
  \/ TombstoneCoord(h) \/ FindInBolt(h) \/ FindInIndex(h) \/ NextTarget(h) \/ CoordsDone(h)
  \/ NextId(h) \/ IdsDone(h)
  \/ MarkDeleted(h) \/ PurgeBolt(h) \/ PurgeIndex(h) \/ QueueDelete(h) \/ PurgeReturn(h)

-----------------------------------------------------------------------------
(* The admin calls that only touch the gate. *)
Admin ==
  /\ starts < MaxStarts
  /\ starts' = starts + 1
  /\ \/ \E p \in PubKey : BanPubKey(p) \/ AllowPubKey(p)
     \/ \E e \in Event : AllowEvent(e)
  /\ UNCHANGED <<boltVars, tsVars, job, acked, tsOrphans, restarts>>

(* The buffers, composed: each worker, and the sends it makes room for.    *)
BoltWorker == BoltRun /\ UNCHANGED <<gateVars, tsVars, coreVars>>

BoltSender(h) == BoltSend(h) /\ UNCHANGED <<gateVars, tsVars, coreVars>>

BoltStep == BoltWorker \/ \E h \in Caller : BoltSender(h)

(* A queued delete of e that this step of the worker gives up although the *)
(* document is there: the call failed, or the drain's deadline dropped it. *)
DeleteGivenUp(e) ==
  /\ IsAmb(e) /\ docs'[coordOf[e]].ev = e
  /\ \/ tsPc = "act" /\ tsTask = DeleteTask(e) /\ tsPc' = "idle"
     \/ /\ tsPc = "idle" /\ tsPhase' = "stopped"
        /\ tsCh # <<>> /\ Head(tsCh) = DeleteTask(e)

TSWorker ==
  /\ TSRun
  /\ tsOrphans' = tsOrphans \cup {e \in Event : DeleteGivenUp(e)}
  /\ UNCHANGED <<gateVars, boltVars, job, acked, starts, restarts>>

TSSender(h) == TSSend(h) /\ UNCHANGED <<gateVars, boltVars, coreVars>>

TSStep == TSWorker \/ \E h \in Caller : TSSender(h)

(* main's deferred Closes: the Bolt buffer first, the projection buffer    *)
(* once that has drained.                                                  *)
CloseBuffers ==
  /\ \/ (BoltCloseFlag \/ BoltCloseDone) /\ UNCHANGED tsVars
     \/ boltPhase = "stopped" /\ (TSCloseFlag \/ TSCloseDone) /\ UNCHANGED boltVars
  /\ UNCHANGED <<gateVars, coreVars>>

-----------------------------------------------------------------------------
(* What is still on its way to remove e from the raw store. *)
BoltRemovalHeld(j, e) ==
  \/ j.pc \in {"mark", "purgeBolt"} /\ j.cur = e
  \/ j.pc = "findBolt" /\ Covered(j, e)
  \/ e \in j.targets

BoltRemovalPending(e) ==
  \/ boltWorker.pc \in {"heal", "healDelete"} /\ boltWorker.op.ev = e
  \/ \E h \in Caller : BoltRemovalHeld(job[h], e)

(* What is still on its way to remove the document of e from the index,    *)
(* behind every projection of e the worker holds.                          *)
IndexRemovalHeld(j, e) ==
  j.pc \in {"mark", "purgeBolt", "purgeIndex", "queueDelete"} /\ j.cur = e

IndexRemovalPending(e) ==
  \/ \E h \in Caller : IndexRemovalHeld(job[h], e) \/ tsCall[h] = DeleteTask(e)
  \/ InSeq(DeleteTask(e), tsCh)
  \/ tsTask = DeleteTask(e)

(* The process stops, by a crash or at the end of a shutdown, and starts   *)
(* again: the stores and the gate survive, channels and goroutines do not. *)
Restart ==
  /\ restarts < MaxRestarts
  /\ restarts' = restarts + 1
  /\ boltCall' = [p \in Caller |-> NoOp] /\ boltCh' = <<>>
  /\ boltClosed' = FALSE /\ boltDone' = FALSE /\ boltExpired' = FALSE
  /\ boltPhase' = "run" /\ boltWorker' = BoltIdle /\ boltRacers' = {}
  /\ tsCall' = [p \in Caller |-> NoTask] /\ tsCh' = <<>>
  /\ tsClosed' = FALSE /\ tsDone' = FALSE /\ tsExpired' = FALSE
  /\ tsPhase' = "run" /\ tsPc' = "idle" /\ tsTask' = NoTask
  /\ tsBatch' = <<>> /\ tsKept' = <<>> /\ tsPending' = {}
  /\ job' = [h \in Caller |-> NoJob]
  /\ boltOrphans' = boltOrphans \cup {e \in bolt : BoltRemovalPending(e)}
  /\ tsOrphans' = tsOrphans \cup {e \in AmbEvent : docs[coordOf[e]].ev = e /\ IndexRemovalPending(e)}
  /\ UNCHANGED <<bolt, docs, gateVars, acked, starts>>

(* The relay in operation, and over its whole life. *)
Serve == (\E h \in Caller : Request(h) \/ Serving(h)) \/ Admin \/ BoltStep \/ TSStep

Next == Serve \/ CloseBuffers \/ Restart

ServeSpec == Init /\ [][Serve]_vars

Spec == Init /\ [][Next]_vars

(* Goroutines are scheduled and calls into the stores return, with success *)
(* or not; no request need ever arrive, and the process need not stop.     *)
ServeFairSpec ==
  /\ ServeSpec
  /\ WF_vars(BoltWorker) /\ WF_vars(TSWorker)
  /\ \A h \in Caller : WF_vars(Serving(h)) /\ SF_vars(BoltSender(h)) /\ SF_vars(TSSender(h))

-----------------------------------------------------------------------------
(* Properties. *)

(* Blocked by a ban or a deletion of the event, not of its author. *)
Gone(e) == IdBlocked(e) \/ Tombstoned(e)

(* A banned or deleted event does not stay in the raw store: whatever the  *)
(* interleaving of writes, retries, bans and deletions, an event the gate  *)
(* blocks by id or by its coordinate is only there while someone is on the *)
(* way to remove it, or after a removal that failed or was cut off.  (A    *)
(* pubkey ban removes nothing and is not meant.)                           *)
BoltSealed ==
  \A e \in bolt : Gone(e) => BoltRemovalPending(e) \/ e \in boltOrphans

(* A projection that was in flight when its event was banned or deleted by *)
(* id does not bring the document back for good: a delete is behind it.    *)
IndexSealed ==
  \A e \in AmbEvent :
    IdBlocked(e) /\ (docs[coordOf[e]].ev = e \/ InSeq(e, tsKept)) =>
      IndexRemovalPending(e) \/ e \in tsOrphans

(* A deletion is final: deleted ids stay deleted, tombstones only rise, as *)
(* republication checks and retries rely on.                               *)
DeletionIsFinal ==
  [][/\ deletedEvents \subseteq deletedEvents'
     /\ \A c \in Coord : deletedCoords[c] <= deletedCoords'[c]]_vars

(* Every request is answered: no handler waits for ever on the two         *)
(* channels, however many of them push into them at once.                  *)
RequestAnswered == \A h \in Caller : job[h].pc # "idle" ~> job[h].pc = "idle"

(* A banned event leaves the raw store in the end, unless the removal      *)
(* failed or the ban is lifted, whatever writes were on their way.         *)
BanTakesEffect ==
  \A e \in Event : e \in bannedEvents /\ e \in bolt ~>
    e \notin bolt \/ e \notin bannedEvents \/ e \in boltOrphans
=============================================================================
