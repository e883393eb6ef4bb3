--------------------------- MODULE RelayCore_proofs ---------------------------
(***************************************************************************)
(* Theorems about the whole write path, for every number of goroutines,    *)
(* requests, restarts and events.                                          *)
(***************************************************************************)
EXTENDS RelayCore, Buffers_proofs

-----------------------------------------------------------------------------
(* Type correctness. *)

(* A goroutine moves to job j. *)
LEMMA JobStep ==
  ASSUME CoreTypeOK, NEW h \in Caller, NEW j, JobOK(j), job' = [job EXCEPT ![h] = j],
         acked' \in SUBSET Event, tsOrphans' \in SUBSET Event, starts' \in Nat,
         UNCHANGED restarts
  PROVE  CoreTypeOK'
<1>1. j \in Job
  BY DEF JobOK
<1>2. job' \in [Caller -> Job] /\ \A g \in Caller : job'[g] = IF g = h THEN j ELSE job[g]
  BY <1>1 DEF CoreTypeOK
<1>3. \A g \in Caller : JobOK(job'[g])
  BY <1>2 DEF CoreTypeOK
<1> QED
  BY <1>2, <1>3 DEF CoreTypeOK

LEMMA NoJobOK == JobOK(NoJob)
  BY DEF JobOK, NoJob, Job, JobPc

LEMMA GateType ==
  ASSUME GateTypeOK,
         \/ UNCHANGED gateVars
         \/ \E p \in PubKey : BanPubKey(p) \/ AllowPubKey(p)
         \/ \E e \in Event : RecordBan(e) \/ AllowEvent(e) \/ MarkEventDeleted(e)
         \/ \E c \in Coord, e \in Event : MarkCoordDeleted(c, createdAt[e])
  PROVE  GateTypeOK'
<1>1. CASE UNCHANGED gateVars
  BY <1>1 DEF GateTypeOK, gateVars
<1>2. ASSUME NEW p \in PubKey, BanPubKey(p) \/ AllowPubKey(p) PROVE GateTypeOK'
  BY <1>2 DEF GateTypeOK, BanPubKey, AllowPubKey
<1>3. ASSUME NEW e \in Event, RecordBan(e) \/ AllowEvent(e) \/ MarkEventDeleted(e)
      PROVE  GateTypeOK'
  BY <1>3 DEF GateTypeOK, RecordBan, AllowEvent, MarkEventDeleted
<1>4. ASSUME NEW c \in Coord, NEW e \in Event, MarkCoordDeleted(c, createdAt[e])
      PROVE  GateTypeOK'
  <2>1. createdAt[e] \in Nat
    BY EventAssumption
  <2> QED
    BY <1>4, <2>1 DEF GateTypeOK, MarkCoordDeleted
<1> QED
  BY <1>1, <1>2, <1>3, <1>4

LEMMA GotoType ==
  ASSUME CoreTypeOK, NEW h \in Caller, NEW pc, Goto(h, pc), JobOK([job[h] EXCEPT !.pc = pc])
  PROVE  CoreTypeOK'
<1>1. job' = [job EXCEPT ![h] = [job[h] EXCEPT !.pc = pc]]
  BY DEF Goto
<1> QED
  BY <1>1, JobStep DEF Goto, UnchangedHistory, CoreTypeOK

LEMMA RequestType ==
  ASSUME CoreTypeOK, NEW h \in Caller, Request(h)
  PROVE  CoreTypeOK'
<1>1. ASSUME NEW j, Begin(h, j), JobOK(j)
      PROVE  CoreTypeOK'
  <2>1. /\ job' = [job EXCEPT ![h] = j] /\ UNCHANGED restarts
        /\ acked' \in SUBSET Event /\ tsOrphans' \in SUBSET Event /\ starts' \in Nat
    BY <1>1 DEF Begin, CoreTypeOK
  <2> QED
    BY <1>1, <2>1, JobStep
<1>2. \A e \in Event : JobOK([NoJob EXCEPT !.pc = "queue", !.ev = e])
  BY DEF JobOK, NoJob, Job, JobPc
<1>3. \A e \in Event : JobOK([NoJob EXCEPT !.pc = "queue", !.ev = e, !.save = TRUE])
  BY DEF JobOK, NoJob, Job, JobPc
<1>4. \A e \in Event : JobOK([NoJob EXCEPT !.pc = "purgeBolt", !.cur = e])
  BY DEF JobOK, NoJob, Job, JobPc
<1> QED
  BY <1>1, <1>2, <1>3, <1>4 DEF Request, OnEvent, Fetched, Ban

(* A step of a goroutine that leaves the histories alone. *)
LEMMA JobMove ==
  ASSUME CoreTypeOK, NEW h \in Caller, NEW j, JobOK(j), job' = [job EXCEPT ![h] = j],
         UnchangedHistory
  PROVE  CoreTypeOK'
<1>1. /\ UNCHANGED restarts
      /\ acked' \in SUBSET Event /\ tsOrphans' \in SUBSET Event /\ starts' \in Nat
  BY DEF UnchangedHistory, CoreTypeOK
<1> QED
  BY <1>1, JobStep

LEMMA QueueBoltType ==
  ASSUME CoreTypeOK, NEW h \in Caller, QueueBolt(h)
  PROVE  CoreTypeOK'
<1>1. JobOK([job[h] EXCEPT !.pc = "store"])
  BY DEF QueueBolt, CoreTypeOK, JobOK, Job, JobPc
<1>2. CASE Goto(h, "store")
  BY <1>1, <1>2, GotoType
<1>3. CASE job' = [job EXCEPT ![h] = NoJob] /\ UnchangedHistory
  BY <1>3, NoJobOK, JobMove
<1> QED
  BY <1>2, <1>3 DEF QueueBolt

LEMMA StoreIndexType ==
  ASSUME CoreTypeOK, NEW h \in Caller, StoreIndex(h)
  PROVE  CoreTypeOK'
<1> DEFINE e == job[h].ev
           j == [job[h] EXCEPT !.pc = "coords", !.coords = SameAuthorCoords(e),
                               !.ids = eTargets[e]]
<1>1. JobOK([job[h] EXCEPT !.pc = "ack"])
  BY DEF StoreIndex, CoreTypeOK, JobOK, Job, JobPc
<1>2. CASE Goto(h, "ack")
  BY <1>1, <1>2, GotoType
<1>3. CASE job' = [job EXCEPT ![h] = j] /\ UnchangedHistory
  <2>1. e \in Event /\ job[h].pc = "store" /\ JobOK(job[h])
    BY DEF StoreIndex, CoreTypeOK, JobOK
  <2>2. SameAuthorCoords(e) \in SUBSET Coord /\ eTargets[e] \in SUBSET Event
    BY <2>1, EventAssumption DEF SameAuthorCoords
  <2>3. JobOK(j)
    BY <2>1, <2>2 DEF JobOK, Job, JobPc
  <2> QED
    BY <1>3, <2>3, JobMove
<1> QED
  BY <1>2, <1>3 DEF StoreIndex

LEMMA FinishType ==
  ASSUME CoreTypeOK, NEW h \in Caller, Ack(h) \/ IdsDone(h)
  PROVE  CoreTypeOK'
<1>1. job[h].ev \in Event
  BY DEF Ack, IdsDone, CoreTypeOK, JobOK
<1>2. /\ job' = [job EXCEPT ![h] = NoJob] /\ UNCHANGED restarts
      /\ acked' \in SUBSET Event /\ tsOrphans' \in SUBSET Event /\ starts' \in Nat
  BY <1>1 DEF Ack, IdsDone, Finish, CoreTypeOK
<1> QED
  BY <1>2, NoJobOK, JobStep

(* NextId in the form the lemmas about one changed job use.                *)
LEMMA NextIdJob ==
  ASSUME NEW h \in Caller, NextId(h)
  PROVE  \E e \in job[h].ids :
           job' = [job EXCEPT ![h] =
                     [job[h] EXCEPT !.ids = @ \ {e},
                                    !.pc = IF Deletable(job[h].ev, e) THEN "mark" ELSE @,
                                    !.cur = IF Deletable(job[h].ev, e) THEN e ELSE @,
                                    !.ret = "ids"]]
<1>1. PICK e \in job[h].ids :
        job' = [job EXCEPT ![h].ids = @ \ {e},
                           ![h].pc = IF Deletable(job[h].ev, e) THEN "mark" ELSE @,
                           ![h].cur = IF Deletable(job[h].ev, e) THEN e ELSE @,
                           ![h].ret = "ids"]
  BY DEF NextId
<1>2. job' = [job EXCEPT ![h] =
                [job[h] EXCEPT !.ids = @ \ {e},
                               !.pc = IF Deletable(job[h].ev, e) THEN "mark" ELSE @,
                               !.cur = IF Deletable(job[h].ev, e) THEN e ELSE @,
                               !.ret = "ids"]]
  BY <1>1
<1> QED
  BY <1>2

LEMMA DeletionType ==
  ASSUME CoreTypeOK, BoltTypeOK, NEW h \in Caller,
         \/ TombstoneCoord(h) \/ FindInBolt(h) \/ FindInIndex(h) \/ NextTarget(h)
         \/ CoordsDone(h) \/ NextId(h)
  PROVE  CoreTypeOK'
<1>0. JobOK(job[h]) /\ job[h] \in Job
  BY DEF CoreTypeOK, JobOK
<1>1. CASE TombstoneCoord(h)
  <2>1. PICK c \in job[h].coords :
          job' = [job EXCEPT ![h] = [job[h] EXCEPT !.pc = "findBolt", !.coord = c,
                                                   !.coords = @ \ {c}]]
    BY <1>1 DEF TombstoneCoord
  <2>2. JobOK([job[h] EXCEPT !.pc = "findBolt", !.coord = c, !.coords = @ \ {c}])
    BY <1>0, <1>1 DEF TombstoneCoord, JobOK, Job, JobPc
  <2> QED
    BY <1>1, <2>1, <2>2, JobMove DEF TombstoneCoord
<1>2. CASE FindInBolt(h)
  <2> DEFINE found == {e \in bolt : Covered(job[h], e)}
  <2>1. found \in SUBSET Event
    BY DEF BoltTypeOK
  <2>2. JobOK([job[h] EXCEPT !.pc = "findIndex", !.targets = found])
    BY <1>0, <1>2, <2>1 DEF FindInBolt, JobOK, Job, JobPc
  <2>3. job' = [job EXCEPT ![h] = [job[h] EXCEPT !.pc = "findIndex", !.targets = found]]
    BY <1>2 DEF FindInBolt
  <2> QED
    BY <1>2, <2>2, <2>3, JobMove DEF FindInBolt
<1>3. CASE FindInIndex(h)
  <2> DEFINE found == {e \in Event : docs[job[h].coord].ev = e /\ Covered(job[h], e)}
  <2>1. JobOK([job[h] EXCEPT !.pc = "targets", !.targets = @ \cup found])
    BY <1>0, <1>3 DEF FindInIndex, JobOK, Job, JobPc
  <2>2. job' = [job EXCEPT ![h] = [job[h] EXCEPT !.pc = "targets", !.targets = @ \cup found]]
    BY <1>3 DEF FindInIndex
  <2> QED
    BY <1>3, <2>1, <2>2, JobMove DEF FindInIndex
<1>4. CASE NextTarget(h)
  <2>1. CASE job' = [job EXCEPT ![h].pc = "coords"]
    <3>1. JobOK([job[h] EXCEPT !.pc = "coords"])
      BY <1>0, <1>4 DEF NextTarget, JobOK, Job, JobPc
    <3> QED
      BY <1>4, <2>1, <3>1, JobMove DEF NextTarget
  <2>2. ASSUME NEW e \in job[h].targets,
               job' = [job EXCEPT ![h].pc = "mark", ![h].cur = e, ![h].ret = "targets",
                                  ![h].targets = @ \ {e}]
        PROVE  CoreTypeOK'
    <3> DEFINE j == [job[h] EXCEPT !.pc = "mark", !.cur = e, !.ret = "targets",
                                   !.targets = @ \ {e}]
    <3>1. JobOK(j)
      BY <1>0, <1>4 DEF NextTarget, JobOK, Job, JobPc
    <3>2. job' = [job EXCEPT ![h] = j]
      BY <2>2
    <3> QED
      BY <1>4, <3>1, <3>2, JobMove DEF NextTarget
  <2> QED
    BY <1>4, <2>1, <2>2 DEF NextTarget
<1>5. CASE CoordsDone(h)
  <2>1. JobOK([job[h] EXCEPT !.pc = "ids"])
    BY <1>0, <1>5 DEF CoordsDone, JobOK, Job, JobPc
  <2> QED
    BY <1>5, <2>1, GotoType DEF CoordsDone
<1>6. CASE NextId(h)
  <2>1. PICK e \in job[h].ids :
          job' = [job EXCEPT ![h] =
                    [job[h] EXCEPT !.ids = @ \ {e},
                                   !.pc = IF Deletable(job[h].ev, e) THEN "mark" ELSE @,
                                   !.cur = IF Deletable(job[h].ev, e) THEN e ELSE @,
                                   !.ret = "ids"]]
    BY <1>6, NextIdJob
  <2>2. JobOK([job[h] EXCEPT !.ids = @ \ {e},
                             !.pc = IF Deletable(job[h].ev, e) THEN "mark" ELSE @,
                             !.cur = IF Deletable(job[h].ev, e) THEN e ELSE @,
                             !.ret = "ids"])
    BY <1>0, <1>6 DEF NextId, JobOK, Job, JobPc
  <2> QED
    BY <1>6, <2>1, <2>2, JobMove DEF NextId
<1> QED
  BY <1>1, <1>2, <1>3, <1>4, <1>5, <1>6

LEMMA PurgeType ==
  ASSUME CoreTypeOK, NEW h \in Caller,
         MarkDeleted(h) \/ PurgeBolt(h) \/ PurgeIndex(h) \/ QueueDelete(h) \/ PurgeReturn(h)
  PROVE  CoreTypeOK'
<1>0. JobOK(job[h]) /\ job[h] \in Job
  BY DEF CoreTypeOK, JobOK
<1>1. ASSUME NEW pc \in {"purgeBolt", "purgeIndex", "queueDelete", "return"},
             job[h].pc \in {"mark", "purgeBolt", "purgeIndex", "queueDelete"}
      PROVE  JobOK([job[h] EXCEPT !.pc = pc])
  BY <1>0, <1>1 DEF JobOK, Job, JobPc
<1>2. CASE MarkDeleted(h) \/ PurgeBolt(h) \/ PurgeIndex(h)
  BY <1>1, <1>2, GotoType DEF MarkDeleted, PurgeBolt, PurgeIndex
<1>3. CASE QueueDelete(h)
  <2>1. JobOK([job[h] EXCEPT !.pc = "return"]) /\ job[h].cur \in Event
    BY <1>0, <1>1, <1>3 DEF QueueDelete, JobOK
  <2>2. CASE Goto(h, "return")
    BY <2>1, <2>2, GotoType
  <2>3. CASE ~ Goto(h, "return")
    <3>1. /\ job' = [job EXCEPT ![h] = [job[h] EXCEPT !.pc = "return"]] /\ UNCHANGED restarts
          /\ acked' \in SUBSET Event /\ tsOrphans' \in SUBSET Event /\ starts' \in Nat
      BY <1>3, <2>1, <2>3 DEF QueueDelete, CoreTypeOK
    <3> QED
      BY <2>1, <3>1, JobStep
  <2> QED
    BY <2>2, <2>3
<1>4. CASE PurgeReturn(h)
  <2>1. CASE job' = [job EXCEPT ![h] = NoJob]
    BY <1>4, <2>1, NoJobOK, JobMove DEF PurgeReturn
  <2>2. CASE /\ job[h].ret # "idle"
             /\ job' = [job EXCEPT ![h].pc = job[h].ret, ![h].cur = NoEvent]
    <3> DEFINE j == [job[h] EXCEPT !.pc = job[h].ret, !.cur = NoEvent]
    <3>1. JobOK(j)
      BY <1>0, <1>4, <2>2 DEF PurgeReturn, JobOK, Job, JobPc
    <3>2. job' = [job EXCEPT ![h] = j]
      BY <2>2
    <3> QED
      BY <1>4, <3>1, <3>2, JobMove DEF PurgeReturn
  <2> QED
    BY <1>4, <2>1, <2>2 DEF PurgeReturn
<1> QED
  BY <1>2, <1>3, <1>4

LEMMA ServingType ==
  ASSUME CoreTypeOK, BoltTypeOK, NEW h \in Caller, Serving(h)
  PROVE  CoreTypeOK'
  BY QueueBoltType, StoreIndexType, FinishType, DeletionType, PurgeType DEF Serving

(* What a goroutine does to the gate and the buffers keeps their types. *)
LEMMA ServingGateType ==
  ASSUME TypeOK, NEW h \in Caller, Request(h) \/ Serving(h)
  PROVE  GateTypeOK'
<1>1. GateTypeOK /\ JobOK(job[h])
  BY DEF TypeOK, CoreTypeOK
<1>2. CASE Request(h)
  <2>1. UNCHANGED gateVars \/ \E e \in Event : RecordBan(e)
    BY <1>2 DEF Request, OnEvent, Fetched, Ban
  <2> QED
    BY <1>1, <2>1, GateType
<1>3. CASE TombstoneCoord(h)
  <2>1. job[h].ev \in Event /\ job[h].coords \in SUBSET Coord
    BY <1>1, <1>3 DEF TombstoneCoord, JobOK, Job
  <2>2. UNCHANGED gateVars \/ \E c \in Coord, e \in Event : MarkCoordDeleted(c, createdAt[e])
    BY <1>3, <2>1 DEF TombstoneCoord
  <2> QED
    BY <1>1, <2>2, GateType
<1>4. CASE MarkDeleted(h)
  <2>1. job[h].cur \in Event
    BY <1>1, <1>4 DEF MarkDeleted, JobOK
  <2>2. UNCHANGED gateVars \/ \E e \in Event : MarkEventDeleted(e)
    BY <1>4, <2>1 DEF MarkDeleted
  <2> QED
    BY <1>1, <2>2, GateType
<1>5. CASE Serving(h) /\ ~ TombstoneCoord(h) /\ ~ MarkDeleted(h)
  <2>1. UNCHANGED gateVars
    BY <1>5 DEF Serving, QueueBolt, StoreIndex, Ack, FindInBolt, FindInIndex, NextTarget,
      CoordsDone, NextId, IdsDone, PurgeBolt, PurgeIndex, QueueDelete, PurgeReturn
  <2> QED
    BY <1>1, <2>1, GateType
<1> QED
  BY <1>2, <1>3, <1>4, <1>5

LEMMA ServingBoltType ==
  ASSUME TypeOK, NEW h \in Caller, Request(h) \/ Serving(h)
  PROVE  BoltTypeOK'
<1>1. BoltTypeOK /\ JobOK(job[h])
  BY DEF TypeOK, CoreTypeOK
<1>2. CASE UNCHANGED boltVars
  BY <1>1, <1>2 DEF BoltTypeOK, boltVars
<1>3. CASE QueueBolt(h)
  <2> DEFINE op == [ev |-> job[h].ev, replace |-> IsAddressable(job[h].ev) /\ ~ job[h].save]
  <2>1. job[h].ev \in Event
    BY <1>1, <1>3 DEF QueueBolt, JobOK
  <2>2. (IsAddressable(job[h].ev) /\ ~ job[h].save) \in BOOLEAN
    BY DEF IsAddressable
  <2>3. op \in BoltOp
    BY <2>1, <2>2 DEF BoltOp
  <2>4. BoltQueue(h, op) \/ UNCHANGED boltVars
    BY <1>3 DEF QueueBolt
  <2> QED
    BY <1>1, <1>2, <2>3, <2>4, BoltQueueType
<1>4. CASE PurgeBolt(h)
  <2>1. job[h].cur \in Event
    BY <1>1, <1>4 DEF PurgeBolt, JobOK
  <2> QED
    BY <1>1, <1>4, <2>1, BoltPurgeType DEF PurgeBolt
<1>5. CASE Request(h) \/ (Serving(h) /\ ~ QueueBolt(h) /\ ~ PurgeBolt(h))
  <2>1. UNCHANGED boltVars
    BY <1>5 DEF Request, OnEvent, Fetched, Ban, Serving, StoreIndex, Ack, TombstoneCoord,
      FindInBolt, FindInIndex, NextTarget, CoordsDone, NextId, IdsDone, MarkDeleted, PurgeIndex,
      QueueDelete, PurgeReturn
  <2> QED
    BY <1>2, <2>1
<1> QED
  BY <1>3, <1>4, <1>5

LEMMA ServingTSType ==
  ASSUME TypeOK, NEW h \in Caller, Request(h) \/ Serving(h)
  PROVE  TSTypeOK'
<1>1. TSTypeOK /\ docs \in [Coord -> Doc] /\ JobOK(job[h])
  BY DEF TypeOK, CoreTypeOK, TSTypeOK
<1>2. CASE UNCHANGED tsVars
  BY <1>1, <1>2 DEF TSTypeOK, tsVars, tsWorkerVars, tsIntakeVars
<1>3. CASE StoreIndex(h)
  <2> DEFINE e == job[h].ev
  <2>1. e \in Event
    BY <1>1, <1>3 DEF StoreIndex, JobOK
  <2>2. CASE IsAmb(e) /\ TSQueue(h, EventTask(e))
    <3>1. EventTask(e) \in Task
      BY <2>1, <2>2 DEF Task, AmbEvent
    <3> QED
      BY <1>1, <2>2, <3>1, TSQueueType
  <2>3. CASE /\ IsAddressable(e)
             /\ docs' \in {docs, [docs EXCEPT ![coordOf[e]] = Projected(e)]}
             /\ UNCHANGED <<tsCh, tsPhase, tsExpired, tsWorkerVars, tsIntakeVars>>
    <3>1. Projected(e) \in Doc
      BY <2>1, ProjectedType
    <3>2. docs' \in [Coord -> Doc]
      BY <1>1, <2>3, <3>1
    <3> QED
      BY <1>1, <2>3, <3>2, TSDocsType
  <2> QED
    BY <1>2, <1>3, <2>2, <2>3 DEF StoreIndex
<1>4. CASE PurgeIndex(h)
  <2>1. docs' \in [Coord -> Doc]
    BY <1>1, <1>4, DeletedType DEF PurgeIndex
  <2> QED
    BY <1>1, <1>4, <2>1, TSDocsType DEF PurgeIndex
<1>5. CASE QueueDelete(h)
  <2>1. job[h].cur \in Event
    BY <1>1, <1>5 DEF QueueDelete, JobOK
  <2>2. DeleteTask(job[h].cur) \in Task
    BY <2>1 DEF Task
  <2>3. TSQueue(h, DeleteTask(job[h].cur)) \/ UNCHANGED tsVars
    BY <1>5 DEF QueueDelete
  <2> QED
    BY <1>1, <1>2, <2>2, <2>3, TSQueueType
<1>6. CASE Request(h) \/ (Serving(h) /\ ~ StoreIndex(h) /\ ~ PurgeIndex(h) /\ ~ QueueDelete(h))
  <2>1. UNCHANGED tsVars
    BY <1>6 DEF Request, OnEvent, Fetched, Ban, Serving, QueueBolt, Ack, TombstoneCoord,
      FindInBolt, FindInIndex, NextTarget, CoordsDone, NextId, IdsDone, MarkDeleted, PurgeBolt,
      PurgeReturn
  <2> QED
    BY <1>2, <2>1
<1> QED
  BY <1>3, <1>4, <1>5, <1>6

LEMMA RestartType ==
  ASSUME TypeOK, Restart
  PROVE  TypeOK'
<1>1. GateTypeOK'
  BY GateType DEF TypeOK, Restart
<1>2. BoltTypeOK'
  <2>1. BoltIdle \in [pc : BoltPc, op : BoltOp \cup {NoOp}, attempt : 0..BoltMaxRetries]
    BY BoltAssumption DEF BoltIdle, BoltPc
  <2>2. boltWorker' = BoltIdle /\ boltWorker'.pc = "idle"
    BY DEF Restart, BoltIdle
  <2>3. bolt' \in SUBSET Event /\ boltOrphans' \in SUBSET Event
    BY DEF Restart, TypeOK, BoltTypeOK
  <2>4. <<>> \in Seq(BoltOp) /\ Len(<<>>) <= BoltBufSize
    BY BoltAssumption
  <2> QED
    BY <2>1, <2>2, <2>3, <2>4 DEF Restart, BoltTypeOK
<1>3. TSTypeOK'
  <2>1. <<>> \in Seq(Task) /\ <<>> \in Seq(AmbEvent) /\ Len(<<>>) <= TSBufSize
    BY TSAssumption
  <2>2. docs' \in [Coord -> Doc]
    BY DEF Restart, TypeOK, TSTypeOK
  <2> QED
    BY <2>1, <2>2 DEF Restart, TSTypeOK
<1>4. CoreTypeOK'
  <2>1. NoJob \in Job
    BY NoJobOK DEF JobOK
  <2> QED
    BY <2>1, NoJobOK DEF Restart, TypeOK, CoreTypeOK, AmbEvent
<1> QED
  BY <1>1, <1>2, <1>3, <1>4 DEF TypeOK

LEMMA TypeStep ==
  ASSUME TypeOK, [Next]_vars
  PROVE  TypeOK'
<1>0. GateTypeOK /\ BoltTypeOK /\ TSTypeOK /\ CoreTypeOK
  BY DEF TypeOK
<1>a. UNCHANGED gateVars => GateTypeOK'
  BY <1>0, GateType
<1>b. UNCHANGED boltVars => BoltTypeOK'
  BY <1>0 DEF BoltTypeOK, boltVars
<1>c. UNCHANGED tsVars => TSTypeOK'
  BY <1>0 DEF TSTypeOK, tsVars, tsWorkerVars, tsIntakeVars
<1>d. UNCHANGED coreVars => CoreTypeOK'
  BY <1>0 DEF CoreTypeOK, coreVars
<1>1. ASSUME NEW h \in Caller, Request(h) \/ Serving(h)
      PROVE  TypeOK'
  <2>1. CoreTypeOK'
    BY <1>0, <1>1, RequestType, ServingType
  <2> QED
    BY <1>1, <2>1, ServingGateType, ServingBoltType, ServingTSType DEF TypeOK
<1>2. CASE Admin
  <2>1. GateTypeOK'
    BY <1>0, <1>2, GateType DEF Admin
  <2>2. CoreTypeOK'
    BY <1>0, <1>2 DEF Admin, CoreTypeOK
  <2> QED
    BY <1>2, <1>b, <1>c, <2>1, <2>2 DEF Admin, TypeOK
<1>3. CASE BoltStep
  <2>1. BoltTypeOK'
    BY <1>0, <1>3, BoltRunType, BoltSendType DEF BoltStep, BoltWorker, BoltSender
  <2> QED
    BY <1>3, <1>a, <1>c, <1>d, <2>1 DEF BoltStep, BoltWorker, BoltSender, TypeOK
<1>4. CASE TSStep
  <2>1. TSTypeOK'
    BY <1>0, <1>4, TSRunType, TSSendType DEF TSStep, TSWorker, TSSender
  <2>2. CoreTypeOK'
    BY <1>0, <1>4, <1>d DEF TSStep, TSWorker, TSSender, CoreTypeOK
  <2> QED
    BY <1>4, <1>a, <1>b, <2>1, <2>2 DEF TSStep, TSWorker, TSSender, TypeOK
<1>5. CASE CloseBuffers
  <2>1. BoltTypeOK' /\ TSTypeOK'
    BY <1>0, <1>5, <1>b, <1>c, BoltCloseType, TSCloseType DEF CloseBuffers
  <2> QED
    BY <1>5, <1>a, <1>d, <2>1 DEF CloseBuffers, TypeOK
<1>6. CASE Restart
  BY <1>6, RestartType
<1>7. CASE UNCHANGED vars
  BY <1>7, <1>a, <1>b, <1>c, <1>d DEF vars, TypeOK
<1> QED
  BY <1>1, <1>2, <1>3, <1>4, <1>5, <1>6, <1>7 DEF Next, Serve

LEMMA InitType ==
  ASSUME Init
  PROVE  TypeOK
<1>1. GateTypeOK
  BY DEF Init, GateInit, GateTypeOK, NoDeletion
<1>2. BoltTypeOK /\ TSTypeOK
  BY BoltInitType, TSInitType DEF Init
<1>3. CoreTypeOK
  BY NoJobOK DEF Init, CoreTypeOK, JobOK
<1> QED
  BY <1>1, <1>2, <1>3 DEF TypeOK

(* Every variable of the write path keeps its type. *)
THEOREM TypeCorrect == Spec => []TypeOK
<1>1. TypeOK /\ [Next]_vars => TypeOK'
  BY TypeStep
<1> QED
  BY <1>1, InitType, PTL DEF Spec

-----------------------------------------------------------------------------
(* Nothing banned or deleted stays in the raw store. *)

(* The versions a coordinate deletion has found are with its goroutine     *)
(* until the last of them is purged; no other job has any.                 *)
TargetsOK(j) ==
  j.targets # {} =>
    \/ j.pc \in {"findIndex", "targets"}
    \/ j.pc \in {"mark", "purgeBolt", "purgeIndex", "queueDelete", "return"} /\ j.ret = "targets"

TargetsHeld == \A h \in Caller : TargetsOK(job[h])

SealInv == TypeOK /\ TargetsHeld /\ BoltSealed

(* A goroutine moves to job j: it may drop only what is out of the store   *)
(* or whose removal failed, and holds what it makes the gate block.        *)
LEMMA SealKept ==
  ASSUME SealInv, NEW h \in Caller, NEW j, job' = [job EXCEPT ![h] = j],
         TargetsOK(j),
         UNCHANGED boltWorker, bolt' \subseteq bolt,
         \A e \in bolt' : e \in boltOrphans => e \in boltOrphans',
         \A e \in bolt' : BoltRemovalHeld(job[h], e) =>
           BoltRemovalHeld(j, e) \/ e \in boltOrphans',
         \A e \in bolt' : Gone(e)' /\ ~ Gone(e) => BoltRemovalHeld(j, e)
  PROVE  TargetsHeld' /\ BoltSealed'
<1>1. \A g \in Caller : job'[g] = IF g = h THEN j ELSE job[g]
  BY DEF SealInv, TypeOK, CoreTypeOK
<1>2. TargetsHeld'
  BY <1>1 DEF SealInv, TargetsHeld
<1>3. ASSUME NEW e \in bolt', Gone(e)'
      PROVE  BoltRemovalPending(e)' \/ e \in boltOrphans'
  <2>1. CASE Gone(e)
    <3>1. BoltRemovalPending(e) \/ e \in boltOrphans
      BY <2>1 DEF SealInv, BoltSealed
    <3>2. ASSUME NEW g \in Caller, BoltRemovalHeld(job[g], e)
          PROVE  BoltRemovalHeld(job'[g], e) \/ e \in boltOrphans'
      BY <1>1, <3>2
    <3> QED
      BY <3>1, <3>2 DEF BoltRemovalPending
  <2>2. CASE ~ Gone(e)
    <3>1. BoltRemovalHeld(job'[h], e)
      BY <1>1, <1>3, <2>2
    <3> QED
      BY <3>1 DEF BoltRemovalPending
  <2> QED
    BY <2>1, <2>2
<1> QED
  BY <1>2, <1>3 DEF BoltSealed

(* The same, when only the job changes. *)
LEMMA SealMoved ==
  ASSUME SealInv, NEW h \in Caller, NEW j, job' = [job EXCEPT ![h] = j], TargetsOK(j),
         UNCHANGED <<boltWorker, bolt, boltOrphans, gateVars>>,
         \A e \in bolt : BoltRemovalHeld(job[h], e) => BoltRemovalHeld(j, e)
  PROVE  TargetsHeld' /\ BoltSealed'
<1>1. \A e : Gone(e)' <=> Gone(e)
  BY DEF Gone, IdBlocked, Tombstoned, gateVars
<1> QED
  BY <1>1, SealKept

LEMMA SealRequest ==
  ASSUME SealInv, NEW h \in Caller, Request(h)
  PROVE  TargetsHeld' /\ BoltSealed'
<1>1. ASSUME job[h].pc = "idle"
      PROVE  \A e : ~ BoltRemovalHeld(job[h], e)
  BY <1>1 DEF SealInv, TargetsHeld, TargetsOK, BoltRemovalHeld
<1>2. ASSUME NEW e \in Event, OnEvent(h, e) \/ Fetched(h, e)
      PROVE  TargetsHeld' /\ BoltSealed'
  <2>1. PICK j : /\ Begin(h, j) /\ TargetsOK(j)
                 /\ UNCHANGED <<boltWorker, bolt, boltOrphans, gateVars>>
    BY <1>2 DEF OnEvent, Fetched, boltVars, TargetsOK, NoJob
  <2> QED
    BY <1>1, <2>1, SealMoved DEF Begin
<1>3. ASSUME NEW e \in Event, Ban(h, e)
      PROVE  TargetsHeld' /\ BoltSealed'
  <2> DEFINE j == [NoJob EXCEPT !.pc = "purgeBolt", !.cur = e]
  <2>1. /\ job' = [job EXCEPT ![h] = j] /\ job[h].pc = "idle"
        /\ UNCHANGED <<boltWorker, bolt, boltOrphans>>
    BY <1>3 DEF Ban, Begin, boltVars
  <2>2. TargetsOK(j) /\ BoltRemovalHeld(j, e)
    BY DEF TargetsOK, NoJob, BoltRemovalHeld
  <2>3. \A f : Gone(f)' /\ ~ Gone(f) => f = e
    BY <1>3 DEF Ban, RecordBan, Gone, IdBlocked, Tombstoned
  <2> QED
    BY <1>1, <2>1, <2>2, <2>3, SealKept
<1> QED
  BY <1>2, <1>3 DEF Request

(* The steps of a goroutine that holds nothing before. *)
LEMMA SealUnheld ==
  ASSUME SealInv, NEW h \in Caller,
         \/ QueueBolt(h) \/ StoreIndex(h) \/ Ack(h) \/ TombstoneCoord(h) \/ CoordsDone(h)
         \/ NextId(h) \/ IdsDone(h)
  PROVE  TargetsHeld' /\ BoltSealed'
<1>0. JobOK(job[h]) /\ TargetsOK(job[h]) /\ job[h] \in Job
  BY DEF SealInv, TypeOK, CoreTypeOK, TargetsHeld, JobOK
<1>1. job[h].targets = {} /\ \A e : ~ BoltRemovalHeld(job[h], e)
  BY <1>0 DEF QueueBolt, StoreIndex, Ack, TombstoneCoord, CoordsDone, NextId, IdsDone,
    TargetsOK, BoltRemovalHeld
<1>2. CASE TombstoneCoord(h)
  <2>1. PICK c \in job[h].coords :
          /\ MarkCoordDeleted(c, createdAt[job[h].ev]) \/ UNCHANGED gateVars
          /\ job' = [job EXCEPT ![h] = [job[h] EXCEPT !.pc = "findBolt", !.coord = c,
                                                   !.coords = @ \ {c}]]
    BY <1>2 DEF TombstoneCoord
  <2> DEFINE j == [job[h] EXCEPT !.pc = "findBolt", !.coord = c, !.coords = @ \ {c}]
  <2>2. /\ j.pc = "findBolt" /\ j.coord = c /\ j.ev = job[h].ev /\ j.targets = {}
        /\ c \in Coord /\ job[h].ev \in Event
    BY <1>0, <1>1, <1>2 DEF Job, JobOK, TombstoneCoord
  <2>3. ASSUME NEW e \in bolt, Gone(e)', ~ Gone(e)
        PROVE  BoltRemovalHeld(j, e)
    <3>1. MarkCoordDeleted(c, createdAt[job[h].ev])
      BY <2>1, <2>3 DEF Gone, IdBlocked, Tombstoned, gateVars
    <3>2. deletedCoords \in [Coord -> Nat \cup {NoDeletion}] /\ e \in Event
      BY DEF SealInv, TypeOK, GateTypeOK, BoltTypeOK
    <3>3. coordOf[e] = c /\ createdAt[e] <= createdAt[job[h].ev]
      BY <2>2, <2>3, <3>1, <3>2, EventAssumption
      DEF MarkCoordDeleted, Gone, IdBlocked, Tombstoned, IsAddressable
    <3> QED
      BY <2>2, <3>3 DEF BoltRemovalHeld, Covered
  <2>4. TargetsOK(j) /\ UNCHANGED <<boltWorker, bolt, boltOrphans>>
    BY <1>2, <2>2 DEF TombstoneCoord, boltVars, TargetsOK
  <2>5. job' = [job EXCEPT ![h] = j]
    BY <2>1
  <2> HIDE DEF j
  <2> QED
    BY <1>1, <2>3, <2>4, <2>5, SealKept
<1>3. CASE ~ TombstoneCoord(h)
  <2>1. PICK j : /\ job' = [job EXCEPT ![h] = j]
                 /\ j = NoJob \/ j.targets = {}
    <3>0. ASSUME NEW pc, Goto(h, pc)
          PROVE  \E j : job' = [job EXCEPT ![h] = j] /\ j.targets = {}
      <4>1. job' = [job EXCEPT ![h] = [job[h] EXCEPT !.pc = pc]]
        BY <3>0 DEF Goto
      <4>2. [job[h] EXCEPT !.pc = pc].targets = {}
        BY <1>0, <1>1 DEF Job
      <4> QED
        BY <4>1, <4>2
    <3>1. CASE QueueBolt(h) \/ Ack(h) \/ IdsDone(h) \/ CoordsDone(h)
      <4>1. job' = [job EXCEPT ![h] = NoJob] \/ Goto(h, "store") \/ Goto(h, "ids")
        BY <3>1 DEF QueueBolt, Ack, IdsDone, CoordsDone, Finish
      <4> QED
        BY <3>0, <4>1
    <3>2. CASE StoreIndex(h)
      <4> DEFINE k == [job[h] EXCEPT !.pc = "coords", !.coords = SameAuthorCoords(job[h].ev),
                                     !.ids = eTargets[job[h].ev]]
      <4>1. Goto(h, "ack") \/ job' = [job EXCEPT ![h] = k]
        BY <3>2 DEF StoreIndex
      <4>2. k.targets = {}
        BY <1>0, <1>1 DEF Job
      <4> QED
        BY <3>0, <4>1, <4>2
    <3>3. CASE NextId(h)
      <4>1. PICK e \in job[h].ids :
              job' = [job EXCEPT ![h] =
                        [job[h] EXCEPT !.ids = @ \ {e},
                                       !.pc = IF Deletable(job[h].ev, e) THEN "mark" ELSE @,
                                       !.cur = IF Deletable(job[h].ev, e) THEN e ELSE @,
                                       !.ret = "ids"]]
        BY <3>3, NextIdJob
      <4> DEFINE k == [job[h] EXCEPT !.ids = @ \ {e},
                                     !.pc = IF Deletable(job[h].ev, e) THEN "mark" ELSE @,
                                     !.cur = IF Deletable(job[h].ev, e) THEN e ELSE @,
                                     !.ret = "ids"]
      <4>2. k.targets = {}
        BY <1>0, <1>1 DEF Job
      <4> QED
        BY <4>1, <4>2
    <3> QED
      BY <1>3, <3>1, <3>2, <3>3
  <2>2. TargetsOK(j)
    BY <2>1 DEF TargetsOK, NoJob
  <2>3. UNCHANGED <<boltWorker, bolt, boltOrphans, gateVars>>
    BY <1>3 DEF QueueBolt, BoltQueue, StoreIndex, Ack, CoordsDone, NextId, IdsDone, boltVars
  <2> QED
    BY <1>1, <2>1, <2>2, <2>3, SealMoved
<1> QED
  BY <1>2, <1>3

(* The steps of a goroutine that holds removals. *)
LEMMA SealHolder ==
  ASSUME SealInv, NEW h \in Caller,
         \/ FindInBolt(h) \/ FindInIndex(h) \/ NextTarget(h)
         \/ PurgeIndex(h) \/ QueueDelete(h) \/ PurgeReturn(h)
  PROVE  TargetsHeld' /\ BoltSealed'
<1>0. JobOK(job[h]) /\ TargetsOK(job[h]) /\ job[h] \in Job
  BY DEF SealInv, TypeOK, CoreTypeOK, TargetsHeld, JobOK
<1>1. UNCHANGED <<boltWorker, bolt, boltOrphans, gateVars>>
  BY DEF FindInBolt, FindInIndex, NextTarget, PurgeIndex, QueueDelete, PurgeReturn, boltVars
<1>2. SUFFICES ASSUME NEW j, job' = [job EXCEPT ![h] = j]
               PROVE  /\ TargetsOK(j)
                      /\ \A e \in bolt : BoltRemovalHeld(job[h], e) => BoltRemovalHeld(j, e)
  <2>1. \E j : job' = [job EXCEPT ![h] = j]
    <3>1. job' = [job EXCEPT ![h] = job'[h]]
      BY <1>0 DEF FindInBolt, FindInIndex, NextTarget, PurgeIndex, QueueDelete, PurgeReturn, Goto,
        SealInv, TypeOK, CoreTypeOK
    <3> QED
      BY <3>1
  <2> QED
    BY <1>1, <1>2, <2>1, SealMoved
<1>3. j = job'[h] /\ job \in [Caller -> Job]
  BY <1>2 DEF SealInv, TypeOK, CoreTypeOK
<1>4. CASE FindInBolt(h)
  <2>1. j = [job[h] EXCEPT !.pc = "findIndex", !.targets = {e \in bolt : Covered(job[h], e)}]
    BY <1>3, <1>4 DEF FindInBolt
  <2>2. job[h].pc = "findBolt" /\ job[h].targets = {}
    BY <1>0, <1>4 DEF FindInBolt, TargetsOK
  <2> QED
    BY <1>0, <2>1, <2>2 DEF Job, TargetsOK, BoltRemovalHeld
<1>5. CASE FindInIndex(h)
  <2>1. /\ j.pc = "targets" /\ job[h].targets \subseteq j.targets
        /\ job[h].pc = "findIndex"
    BY <1>0, <1>3, <1>5 DEF FindInIndex, Job
  <2> QED
    BY <2>1 DEF TargetsOK, BoltRemovalHeld
<1>6. CASE NextTarget(h)
  <2>1. CASE job[h].targets = {} /\ j = [job[h] EXCEPT !.pc = "coords"]
    <3>1. j.targets = {} /\ job[h].pc = "targets"
      BY <1>0, <1>6, <2>1 DEF NextTarget, Job
    <3> QED
      BY <2>1, <3>1 DEF TargetsOK, BoltRemovalHeld
  <2>2. ASSUME NEW e \in job[h].targets,
               j = [job[h] EXCEPT !.pc = "mark", !.cur = e, !.ret = "targets",
                                  !.targets = @ \ {e}]
        PROVE  /\ TargetsOK(j)
               /\ \A f \in bolt : BoltRemovalHeld(job[h], f) => BoltRemovalHeld(j, f)
    <3>1. /\ j.pc = "mark" /\ j.ret = "targets" /\ j.cur = e
          /\ j.targets = job[h].targets \ {e} /\ job[h].pc = "targets"
      BY <1>0, <1>6, <2>2 DEF NextTarget, Job
    <3> QED
      BY <3>1 DEF TargetsOK, BoltRemovalHeld
  <2> QED
    BY <1>3, <1>6, <2>1, <2>2 DEF NextTarget
<1>7. CASE PurgeIndex(h) \/ QueueDelete(h)
  <2>1. /\ j.pc \in {"queueDelete", "return"} /\ j.targets = job[h].targets /\ j.ret = job[h].ret
        /\ job[h].pc \in {"purgeIndex", "queueDelete"}
    BY <1>0, <1>3, <1>7 DEF PurgeIndex, QueueDelete, Goto, Job
  <2> QED
    BY <1>0, <2>1 DEF TargetsOK, BoltRemovalHeld
<1>8. CASE PurgeReturn(h)
  <2>1. job[h].pc = "return"
    BY <1>8 DEF PurgeReturn
  <2>2. CASE j = NoJob /\ job[h].ret = "idle"
    BY <1>0, <2>1, <2>2 DEF TargetsOK, BoltRemovalHeld, NoJob
  <2>3. CASE j.pc = job[h].ret /\ j.targets = job[h].targets
    BY <1>0, <2>1, <2>3 DEF TargetsOK, BoltRemovalHeld
  <2> QED
    BY <1>0, <1>3, <1>8, <2>2, <2>3 DEF PurgeReturn, Job
<1> QED
  BY <1>4, <1>5, <1>6, <1>7, <1>8

LEMMA SealPurge ==
  ASSUME SealInv, NEW h \in Caller, MarkDeleted(h) \/ PurgeBolt(h)
  PROVE  TargetsHeld' /\ BoltSealed'
<1>0. JobOK(job[h]) /\ TargetsOK(job[h]) /\ job[h] \in Job /\ job \in [Caller -> Job]
  BY DEF SealInv, TypeOK, CoreTypeOK, TargetsHeld, JobOK
<1>1. CASE MarkDeleted(h)
  <2> DEFINE j == [job[h] EXCEPT !.pc = "purgeBolt"]
  <2>1. job' = [job EXCEPT ![h] = j] /\ UNCHANGED <<boltWorker, bolt, boltOrphans>>
    BY <1>1 DEF MarkDeleted, Goto, boltVars
  <2>2. /\ j.pc = "purgeBolt" /\ j.cur = job[h].cur /\ j.targets = job[h].targets
        /\ j.ret = job[h].ret /\ job[h].pc = "mark"
    BY <1>0, <1>1 DEF MarkDeleted, Job
  <2>3. TargetsOK(j) /\ \A e : BoltRemovalHeld(job[h], e) => BoltRemovalHeld(j, e)
    BY <1>0, <2>2 DEF TargetsOK, BoltRemovalHeld
  <2>4. \A e : Gone(e)' /\ ~ Gone(e) => e = job[h].cur
    BY <1>1 DEF MarkDeleted, MarkEventDeleted, Gone, IdBlocked, Tombstoned, gateVars
  <2>5. BoltRemovalHeld(j, job[h].cur)
    BY <2>2 DEF BoltRemovalHeld
  <2> HIDE DEF j
  <2> QED
    BY <2>1, <2>3, <2>4, <2>5, SealKept
<1>2. CASE PurgeBolt(h)
  <2> DEFINE j == [job[h] EXCEPT !.pc = "purgeIndex"]
  <2>1. /\ job' = [job EXCEPT ![h] = j] /\ UNCHANGED <<boltWorker, gateVars>>
        /\ BoltDelete(job[h].cur)
    BY <1>2 DEF PurgeBolt, Goto
  <2>2. /\ j.pc = "purgeIndex" /\ j.targets = job[h].targets
        /\ j.ret = job[h].ret /\ job[h].pc = "purgeBolt"
    BY <1>0, <1>2 DEF PurgeBolt, Job
  <2>3. /\ bolt' \subseteq bolt
        /\ \A e \in bolt' : e \in boltOrphans => e \in boltOrphans'
        /\ \A e \in bolt' : e = job[h].cur => e \in boltOrphans'
    BY <2>1 DEF BoltDelete
  <2>4. TargetsOK(j)
    BY <1>0, <2>2 DEF TargetsOK
  <2>5. \A e \in bolt' : BoltRemovalHeld(job[h], e) => BoltRemovalHeld(j, e) \/ e \in boltOrphans'
    BY <2>2, <2>3 DEF BoltRemovalHeld
  <2>6. \A e : Gone(e)' => Gone(e)
    BY <2>1 DEF Gone, IdBlocked, Tombstoned, gateVars
  <2> HIDE DEF j
  <2> QED
    BY <2>1, <2>3, <2>4, <2>5, <2>6, SealKept
<1> QED
  BY <1>1, <1>2

(* The worker of the buffer. *)
LEMMA SealWorker ==
  ASSUME SealInv, BoltStep
  PROVE  TargetsHeld' /\ BoltSealed'
<1>1. UNCHANGED <<job, gateVars>>
  BY DEF BoltStep, BoltWorker, BoltSender, coreVars
<1>2. TargetsHeld'
  BY <1>1 DEF SealInv, TargetsHeld
<1>3. \A e : Gone(e)' <=> Gone(e)
  BY <1>1 DEF Gone, IdBlocked, Tombstoned, gateVars
<1>4. CASE BoltWriteOK
  <2>1. /\ boltWorker'.pc = "heal" /\ boltWorker'.op = boltWorker.op
        /\ boltWorker.pc = "write" /\ boltWorker.op \in BoltOp
    BY <1>4 DEF BoltWriteOK, BoltMove, SealInv, TypeOK, BoltTypeOK
  <2>2. bolt' \subseteq bolt \cup {boltWorker.op.ev} /\ UNCHANGED boltOrphans
    BY <1>4 DEF BoltWriteOK, Written, Replaced
  <2> QED
    BY <1>1, <1>2, <1>3, <2>1, <2>2 DEF SealInv, BoltSealed, BoltRemovalPending
<1>5. CASE BoltHeal
  <2>1. /\ boltWorker.pc = "heal" /\ UNCHANGED <<bolt, boltOrphans>>
        /\ \/ ~ Gone(boltWorker.op.ev)
           \/ boltWorker'.pc = "healDelete" /\ boltWorker'.op = boltWorker.op
    BY <1>5 DEF BoltHeal, BoltMove, Blocked, Gone, SealInv, TypeOK, BoltTypeOK
  <2> QED
    BY <1>1, <1>2, <1>3, <2>1 DEF SealInv, BoltSealed, BoltRemovalPending
<1>6. CASE BoltHealDelete
  <2>1. boltWorker.pc = "healDelete" /\ BoltDelete(boltWorker.op.ev)
    BY <1>6 DEF BoltHealDelete
  <2> QED
    BY <1>1, <1>2, <1>3, <2>1 DEF BoltDelete, SealInv, BoltSealed, BoltRemovalPending
<1>7. CASE BoltTake \/ BoltCheck \/ BoltWriteFail \/ BoltRetry
  <2>1. boltWorker.pc \notin {"heal", "healDelete"} /\ UNCHANGED <<bolt, boltOrphans>>
    BY <1>7 DEF BoltTake, BoltCheck, BoltWriteFail, BoltRetry
  <2> QED
    BY <1>1, <1>2, <1>3, <2>1 DEF SealInv, BoltSealed, BoltRemovalPending
<1>8. CASE BoltShutdown \/ \E h \in Caller : BoltSend(h)
  <2>1. UNCHANGED <<bolt, boltOrphans, boltWorker>>
    BY <1>8 DEF BoltShutdown, BoltDrain, BoltDrained, BoltAbandon, BoltTakeExpired, BoltSend
  <2> QED
    BY <1>1, <1>2, <1>3, <2>1 DEF SealInv, BoltSealed, BoltRemovalPending
<1> QED
  BY <1>4, <1>5, <1>6, <1>7, <1>8
  DEF BoltStep, BoltWorker, BoltSender, BoltRun, BoltProcess

LEMMA SealStep ==
  ASSUME SealInv, [Next]_vars
  PROVE  SealInv'
<1>0. TypeOK'
  BY TypeStep DEF SealInv
<1>1. ASSUME NEW h \in Caller, Request(h) \/ Serving(h)
      PROVE  TargetsHeld' /\ BoltSealed'
  BY <1>1, SealRequest, SealUnheld, SealHolder, SealPurge DEF Serving
<1>2. CASE Admin
  <2>1. UNCHANGED <<job, bolt, boltWorker, boltOrphans>>
    BY <1>2 DEF Admin, boltVars
  <2>2. \A e : Gone(e)' => Gone(e)
    BY <1>2 DEF Admin, BanPubKey, AllowPubKey, AllowEvent, Gone, IdBlocked, Tombstoned
  <2> QED
    BY <1>0, <2>1, <2>2 DEF SealInv, TargetsHeld, BoltSealed, BoltRemovalPending
<1>3. CASE TSStep \/ CloseBuffers \/ UNCHANGED vars
  <2>1. UNCHANGED <<job, bolt, boltWorker, boltOrphans, gateVars>>
    BY <1>3 DEF TSStep, TSWorker, TSSender, CloseBuffers, BoltCloseFlag, BoltCloseDone, coreVars,
      boltVars, vars
  <2>2. \A e : Gone(e)' <=> Gone(e)
    BY <2>1 DEF Gone, IdBlocked, Tombstoned, gateVars
  <2> QED
    BY <1>0, <2>1, <2>2 DEF SealInv, TargetsHeld, BoltSealed, BoltRemovalPending
<1>4. CASE Restart
  <2>1. TargetsHeld'
    BY <1>4 DEF Restart, TargetsHeld, TargetsOK, NoJob
  <2>2. \A e : Gone(e)' <=> Gone(e)
    BY <1>4 DEF Restart, Gone, IdBlocked, Tombstoned, gateVars
  <2>3. BoltSealed'
    BY <1>4, <2>2 DEF Restart, SealInv, BoltSealed
  <2> QED
    BY <1>0, <2>1, <2>3 DEF SealInv
<1> QED
  BY <1>0, <1>1, <1>2, <1>3, <1>4, SealWorker DEF Next, Serve, SealInv

(* A banned or deleted event is in the raw store only while someone is     *)
(* about to remove it, or after its removal failed.                        *)
THEOREM NothingGoneStaysInBolt == Spec => []BoltSealed
<1>1. Init => SealInv
  BY InitType DEF SealInv, Init, TargetsHeld, TargetsOK, NoJob, BoltSealed, BoltInit
<1>2. SealInv /\ [Next]_vars => SealInv'
  BY SealStep
<1>3. SealInv => BoltSealed
  BY DEF SealInv
<1> QED
  BY <1>1, <1>2, <1>3, PTL DEF Spec

-----------------------------------------------------------------------------
(* Deletions are final. *)

LEMMA FinalStep ==
  ASSUME TypeOK, [Next]_vars
  PROVE  /\ deletedEvents \subseteq deletedEvents'
         /\ \A c \in Coord : deletedCoords[c] <= deletedCoords'[c]
<1>1. deletedCoords \in [Coord -> Nat \cup {NoDeletion}]
  BY DEF TypeOK, GateTypeOK
<1>2. \A c \in Coord : deletedCoords[c] <= deletedCoords[c]
  BY <1>1 DEF NoDeletion
<1>3. CASE UNCHANGED <<deletedEvents, deletedCoords>>
  BY <1>2, <1>3
<1>4. ASSUME NEW h \in Caller, TombstoneCoord(h), ~ UNCHANGED gateVars
      PROVE  /\ deletedEvents \subseteq deletedEvents'
             /\ \A c \in Coord : deletedCoords[c] <= deletedCoords'[c]
  <2>1. JobOK(job[h])
    BY DEF TypeOK, CoreTypeOK
  <2>2. job[h].ev \in Event /\ job[h].coords \in SUBSET Coord
    BY <1>4, <2>1 DEF TombstoneCoord, JobOK, Job
  <2>3. PICK c \in Coord : MarkCoordDeleted(c, createdAt[job[h].ev])
    BY <1>4, <2>2 DEF TombstoneCoord
  <2>4. createdAt[job[h].ev] \in Nat
    BY <2>2, EventAssumption
  <2> QED
    BY <1>1, <1>2, <2>3, <2>4 DEF MarkCoordDeleted, NoDeletion
<1>5. ASSUME NEW e, MarkEventDeleted(e)
      PROVE  /\ deletedEvents \subseteq deletedEvents'
             /\ \A c \in Coord : deletedCoords[c] <= deletedCoords'[c]
  BY <1>2, <1>5 DEF MarkEventDeleted
<1>6. CASE \E h \in Caller : Request(h)
  BY <1>3, <1>6 DEF Request, OnEvent, Fetched, Ban, RecordBan, gateVars
<1>7. CASE \E h \in Caller : Serving(h)
  BY <1>3, <1>4, <1>5, <1>7 DEF Serving, QueueBolt, StoreIndex, Ack, FindInBolt, FindInIndex,
    NextTarget, CoordsDone, NextId, IdsDone, MarkDeleted, PurgeBolt, PurgeIndex, QueueDelete,
    PurgeReturn, gateVars
<1>8. CASE Admin
  BY <1>3, <1>8 DEF Admin, BanPubKey, AllowPubKey, AllowEvent
<1>9. CASE BoltStep \/ TSStep \/ CloseBuffers \/ Restart \/ UNCHANGED vars
  BY <1>3, <1>9 DEF BoltStep, BoltWorker, BoltSender, TSStep, TSWorker, TSSender, CloseBuffers,
    Restart, vars, gateVars
<1> QED
  BY <1>6, <1>7, <1>8, <1>9 DEF Next, Serve

(* No step forgets a deleted id or lowers a tombstone. *)
THEOREM DeletionsAreFinal == Spec => DeletionIsFinal
<1>1. TypeOK /\ [Next]_vars =>
        [/\ deletedEvents \subseteq deletedEvents'
         /\ \A c \in Coord : deletedCoords[c] <= deletedCoords'[c]]_vars
  BY FinalStep
<1> QED
  BY <1>1, TypeCorrect, PTL DEF Spec, DeletionIsFinal

-----------------------------------------------------------------------------
(* A banned or deleted event does not come back into the index. *)

(* Outside a flush nothing has passed the gate and waits to be written; a  *)
(* worker between tasks has none, and only a content task patches.         *)
TaskHeld ==
  /\ tsPc \notin {"filter", "upsert"} => tsKept = <<>>
  /\ tsPc = "idle" => tsTask = NoTask
  /\ tsPc = "patch" => tsTask.op = "content"

(* In the index, or past the gate on its way there. *)
Present(e) == docs[coordOf[e]].ev = e \/ InSeq(e, tsKept)

IndexInv == TypeOK /\ TaskHeld /\ IndexSealed

(* A step of a goroutine that moves to job j. *)
LEMMA IndexKept ==
  ASSUME IndexInv, NEW h \in Caller, NEW j, job' = [job EXCEPT ![h] = j],
         UNCHANGED <<tsCh, tsPc, tsTask, tsKept>>,
         \A e \in AmbEvent : Present(e)' => Present(e),
         \A g \in Caller : tsCall[g] # NoTask => tsCall'[g] = tsCall[g],
         tsOrphans \subseteq tsOrphans',
         \A e \in AmbEvent : IndexRemovalHeld(job[h], e) =>
           IndexRemovalHeld(j, e) \/ tsCall'[h] = DeleteTask(e) \/ e \in tsOrphans',
         \A e \in AmbEvent : IdBlocked(e)' /\ ~ IdBlocked(e) => IndexRemovalHeld(j, e)
  PROVE  TaskHeld' /\ IndexSealed'
<1>1. \A g \in Caller : job'[g] = IF g = h THEN j ELSE job[g]
  BY DEF IndexInv, TypeOK, CoreTypeOK
<1>2. TaskHeld'
  BY DEF IndexInv, TaskHeld
<1>3. ASSUME NEW e \in AmbEvent, IdBlocked(e)', Present(e)'
      PROVE  IndexRemovalPending(e)' \/ e \in tsOrphans'
  <2>1. CASE IdBlocked(e)
    <3>1. IndexRemovalPending(e) \/ e \in tsOrphans
      BY <1>3, <2>1 DEF IndexInv, IndexSealed, Present
    <3>2. ASSUME NEW g \in Caller, IndexRemovalHeld(job[g], e)
          PROVE  IndexRemovalHeld(job'[g], e) \/ tsCall'[g] = DeleteTask(e) \/ e \in tsOrphans'
      BY <1>1, <3>2
    <3>3. ASSUME NEW g \in Caller, tsCall[g] = DeleteTask(e)
          PROVE  tsCall'[g] = DeleteTask(e)
      BY <3>3 DEF DeleteTask, NoTask
    <3> QED
      BY <3>1, <3>2, <3>3 DEF IndexRemovalPending
  <2>2. CASE ~ IdBlocked(e)
    <3>1. IndexRemovalHeld(job'[h], e)
      BY <1>1, <1>3, <2>2
    <3> QED
      BY <3>1 DEF IndexRemovalPending
  <2> QED
    BY <2>1, <2>2
<1> QED
  BY <1>2, <1>3 DEF IndexSealed, Present

LEMMA IndexServing ==
  ASSUME IndexInv, NEW h \in Caller, Request(h) \/ Serving(h)
  PROVE  TaskHeld' /\ IndexSealed'
<1>0. /\ JobOK(job[h]) /\ job[h] \in Job /\ job \in [Caller -> Job]
      /\ docs \in [Coord -> Doc] /\ tsCall \in [Caller -> Task \cup {NoTask}]
  BY DEF IndexInv, TypeOK, CoreTypeOK, JobOK, TSTypeOK
<1>1. PICK j : job' = [job EXCEPT ![h] = j]
  <2>1. job' = [job EXCEPT ![h] = job'[h]]
    BY <1>0 DEF Request, OnEvent, Fetched, Ban, Begin, Serving, QueueBolt, StoreIndex, Ack, Finish,
      Goto, TombstoneCoord, FindInBolt, FindInIndex, NextTarget, CoordsDone, NextId, IdsDone,
      MarkDeleted, PurgeBolt, PurgeIndex, QueueDelete, PurgeReturn
  <2> QED
    BY <2>1
<1>2. j = job'[h]
  BY <1>0, <1>1
<1>3. UNCHANGED <<tsCh, tsPc, tsTask, tsKept>>
  BY DEF Request, OnEvent, Fetched, Ban, Serving, QueueBolt, StoreIndex, Ack, TombstoneCoord,
    FindInBolt, FindInIndex, NextTarget, CoordsDone, NextId, IdsDone, MarkDeleted, PurgeBolt,
    PurgeIndex, QueueDelete, PurgeReturn, TSQueue, tsVars, tsWorkerVars
<1>4. \A g \in Caller : tsCall[g] # NoTask => tsCall'[g] = tsCall[g]
  BY <1>0 DEF Request, OnEvent, Fetched, Ban, Serving, QueueBolt, StoreIndex, Ack, TombstoneCoord,
    FindInBolt, FindInIndex, NextTarget, CoordsDone, NextId, IdsDone, MarkDeleted, PurgeBolt,
    PurgeIndex, QueueDelete, PurgeReturn, TSQueue, tsVars, tsIntakeVars
<1>5. tsOrphans \subseteq tsOrphans'
  BY DEF Request, OnEvent, Fetched, Ban, Begin, Serving, QueueBolt, StoreIndex, Ack, Finish,
    Goto, TombstoneCoord, FindInBolt, FindInIndex, NextTarget, CoordsDone, NextId, IdsDone,
    MarkDeleted, PurgeBolt, PurgeIndex, QueueDelete, PurgeReturn, UnchangedHistory
<1>6. ASSUME NEW e \in AmbEvent, Present(e)'
      PROVE  Present(e)
  <2>1. coordOf[e] \in Coord /\ collection[coordOf[e]] = "amb"
    BY AmbEventCoord DEF AmbEvent, IsAmb
  <2>2. docs'[coordOf[e]].ev = e => docs[coordOf[e]].ev = e
    <3>1. CASE StoreIndex(h)
      <4>1. job[h].ev \in Event
        BY <1>0, <3>1 DEF StoreIndex, JobOK
      <4>2. \/ UNCHANGED docs
            \/ /\ coordOf[job[h].ev] # coordOf[e]
               /\ docs' = [docs EXCEPT ![coordOf[job[h].ev]] = Projected(job[h].ev)]
        BY <2>1, <3>1 DEF StoreIndex, IsAmb, TSQueue, tsVars
      <4> QED
        BY <1>0, <2>1, <4>2
    <3>2. CASE PurgeIndex(h)
      <4>1. docs' = docs \/ docs' = Deleted(docs, job[h].cur, Collection)
        BY <3>2 DEF PurgeIndex
      <4>2. docs'[coordOf[e]] = docs[coordOf[e]] \/ docs'[coordOf[e]].ev = NoEvent
        BY <2>1, <4>1 DEF Deleted, NoDoc
      <4>3. e # NoEvent
        BY EventAssumption DEF AmbEvent
      <4> QED
        BY <4>2, <4>3
    <3>3. CASE ~ StoreIndex(h) /\ ~ PurgeIndex(h)
      BY <3>3 DEF Request, OnEvent, Fetched, Ban, Serving, QueueBolt, Ack, TombstoneCoord,
        FindInBolt, FindInIndex, NextTarget, CoordsDone, NextId, IdsDone, MarkDeleted, PurgeBolt,
        QueueDelete, PurgeReturn, TSQueue, tsVars
    <3> QED
      BY <3>1, <3>2, <3>3
  <2> QED
    BY <1>3, <1>6, <2>2 DEF Present
<1>7. ASSUME NEW e \in AmbEvent, IndexRemovalHeld(job[h], e)
      PROVE  IndexRemovalHeld(j, e) \/ tsCall'[h] = DeleteTask(e) \/ e \in tsOrphans'
  <2>1. job[h].pc \in {"mark", "purgeBolt", "purgeIndex", "queueDelete"} /\ job[h].cur = e
    BY <1>7 DEF IndexRemovalHeld
  <2>2. CASE MarkDeleted(h) \/ PurgeBolt(h) \/ PurgeIndex(h)
    BY <1>0, <1>2, <2>1, <2>2
    DEF MarkDeleted, PurgeBolt, PurgeIndex, Goto, Job, IndexRemovalHeld
  <2>3. CASE QueueDelete(h)
    BY <1>0, <2>1, <2>3 DEF QueueDelete, TSQueue
  <2> QED
    BY <2>1, <2>2, <2>3 DEF Request, OnEvent, Fetched, Ban, Begin, Serving, QueueBolt, StoreIndex,
      Ack, TombstoneCoord, FindInBolt, FindInIndex, NextTarget, CoordsDone, NextId, IdsDone,
      PurgeReturn
<1>8. ASSUME NEW e \in AmbEvent, IdBlocked(e)', ~ IdBlocked(e)
      PROVE  IndexRemovalHeld(j, e)
  <2>1. CASE MarkDeleted(h)
    <3>1. e = job[h].cur
      BY <1>8, <2>1 DEF MarkDeleted, MarkEventDeleted, IdBlocked, gateVars
    <3> QED
      BY <1>0, <1>2, <2>1, <3>1 DEF MarkDeleted, Goto, Job, IndexRemovalHeld
  <2>2. CASE Request(h)
    <3>1. PICK f \in Event : Ban(h, f)
      BY <1>8, <2>2 DEF Request, OnEvent, Fetched, IdBlocked, gateVars
    <3>2. e = f
      BY <1>8, <3>1 DEF Ban, RecordBan, IdBlocked
    <3> QED
      BY <1>0, <1>2, <3>1, <3>2 DEF Ban, Begin, NoJob, IndexRemovalHeld
  <2>3. CASE Serving(h) /\ ~ MarkDeleted(h)
    BY <1>8, <2>3 DEF Serving, QueueBolt, StoreIndex, Ack, TombstoneCoord, FindInBolt, FindInIndex,
      NextTarget, CoordsDone, NextId, IdsDone, PurgeBolt, PurgeIndex, QueueDelete, PurgeReturn,
      MarkCoordDeleted, IdBlocked, gateVars
  <2> QED
    BY <2>1, <2>2, <2>3
<1> QED
  BY <1>1, <1>3, <1>4, <1>5, <1>6, <1>7, <1>8, IndexKept

(* A step of the index worker: a delete it takes is with it until it is    *)
(* done, and what it writes has passed the gate.                           *)
LEMMA IndexWorker ==
  ASSUME IndexInv, TSWorker
  PROVE  TaskHeld' /\ IndexSealed'
<1>0. /\ UNCHANGED <<job, gateVars>>
      /\ tsOrphans' = tsOrphans \cup {e \in Event : DeleteGivenUp(e)}
      /\ TSRun
      /\ docs \in [Coord -> Doc] /\ tsCh \in Seq(Task)
      /\ tsBatch \in Seq(AmbEvent) /\ tsKept \in Seq(AmbEvent)
  BY DEF TSWorker, IndexInv, TypeOK, TSTypeOK
<1>1. \A e : IdBlocked(e)' <=> IdBlocked(e)
  BY <1>0 DEF IdBlocked, gateVars
<1>2. UNCHANGED tsCall
  BY <1>0 DEF TSRun, TSTake, TSTick, TSProcess, TSFilter, TSFiltered, TSUpsert, TSDelete, TSStamp,
    TSRecheck, TSPatch, TSShutdown, TSDrain, TSFinalFlush, TSAbandon, TSExpire, tsIntakeVars
<1>3. \A e : DeleteTask(e) # NoTask /\ DeleteTask(e) # Tick /\ DeleteTask(e) # Final
             /\ DeleteTask(e).op = "delete"
  BY DEF DeleteTask, NoTask, Tick, Final
(* It is enough that what is present was, and that removals are kept.      *)
<1>4. SUFFICES /\ TaskHeld'
               /\ \A e \in AmbEvent : IdBlocked(e) /\ Present(e)' =>
                    /\ Present(e)
                    /\ InSeq(DeleteTask(e), tsCh) \/ tsTask = DeleteTask(e) =>
                         \/ InSeq(DeleteTask(e), tsCh') \/ tsTask' = DeleteTask(e)
                         \/ DeleteGivenUp(e)
  <2>1. ASSUME NEW e \in AmbEvent, IdBlocked(e)', Present(e)'
        PROVE  IndexRemovalPending(e)' \/ e \in tsOrphans'
    <3>1. IndexRemovalPending(e) \/ e \in tsOrphans
      BY <1>1, <1>4, <2>1 DEF IndexInv, IndexSealed, Present
    <3>2. e \in Event
      BY DEF AmbEvent
    <3> QED
      BY <1>0, <1>1, <1>2, <1>4, <2>1, <3>1, <3>2 DEF IndexRemovalPending
  <2> QED
    BY <1>4, <2>1 DEF IndexSealed, Present
<1>5. CASE TSTake
  <2>1. /\ tsTask = NoTask /\ tsKept = <<>> /\ tsPc = "idle"
        /\ UNCHANGED <<docs, tsKept>> /\ tsCh # <<>> /\ tsCh' = Tail(tsCh)
    BY <1>5 DEF TSTake, IndexInv, TaskHeld
  <2>2. TaskHeld'
    BY <1>5, <2>1 DEF TSTake, TaskHeld
  <2>3. \A e : Head(tsCh) = DeleteTask(e) => tsTask' = DeleteTask(e)
    BY <1>3, <1>5 DEF TSTake, FlushesFirst
  <2>4. \A e : InSeq(DeleteTask(e), tsCh) => Head(tsCh) = DeleteTask(e) \/ InSeq(DeleteTask(e), tsCh')
    BY <1>0, <2>1, InSeqReceive
  <2> QED
    BY <1>3, <2>1, <2>2, <2>3, <2>4 DEF Present
<1>6. CASE TSTick \/ TSFinalFlush
  <2>1. tsTask = NoTask /\ UNCHANGED <<docs, tsKept, tsCh>> /\ tsPc' = "filter"
    BY <1>6 DEF TSTick, TSFinalFlush, IndexInv, TaskHeld
  <2> QED
    BY <1>3, <2>1 DEF Present, TaskHeld
<1>7. CASE TSFilter
  <2>1. UNCHANGED <<docs, tsCh, tsTask, tsPc>> /\ tsPc = "filter"
    BY <1>7 DEF TSFilter
  <2>2. Head(tsBatch) \in AmbEvent
    BY <1>0, <1>7, ReceiveTakesHead DEF TSFilter
  <2>3. ASSUME NEW e \in AmbEvent, IdBlocked(e), InSeq(e, tsKept')
        PROVE  InSeq(e, tsKept)
    <3>1. CASE tsKept' = tsKept
      BY <2>3, <3>1
    <3>2. CASE tsKept' = Append(tsKept, Head(tsBatch)) /\ ~ Blocked(Head(tsBatch))
      <4>1. e # Head(tsBatch)
        BY <2>3, <3>2 DEF Blocked
      <4> QED
        BY <1>0, <2>2, <2>3, <3>2, <4>1, InSeqSend
    <3> QED
      BY <1>7, <3>1, <3>2 DEF TSFilter
  <2> QED
    BY <2>1, <2>3 DEF Present, TaskHeld
<1>8. CASE TSFiltered \/ TSUpsert
  <2>1. tsPc \in {"filter", "upsert"} /\ UNCHANGED tsCh
    BY <1>8 DEF TSFiltered, TSUpsert
  <2>2. \/ TSFlushed
        \/ tsPc' = "upsert" /\ UNCHANGED <<tsTask, tsKept>>
    BY <1>8 DEF TSFiltered, TSUpsert
  <2>3. TaskHeld'
    BY <2>2 DEF TSFlushed, TaskHeld
  <2>4. \A e : tsTask = DeleteTask(e) => tsTask' = DeleteTask(e)
    BY <1>3, <2>2 DEF TSFlushed
  <2>5. tsKept' = tsKept \/ tsKept' = <<>>
    BY <2>2 DEF TSFlushed
  <2>6. ASSUME NEW e \in AmbEvent, docs'[coordOf[e]].ev = e
        PROVE  Present(e)
    <3>1. CASE UNCHANGED docs
      BY <2>6, <3>1 DEF Present
    <3>2. CASE TSUpsert
      <4>1. PICK landed \in SUBSET DOMAIN tsKept : docs' = Upserted(docs, tsKept, landed)
        BY <3>2 DEF TSUpsert
      <4>2. coordOf[e] \in Coord
        BY AmbEventCoord
      <4>3. \/ docs'[coordOf[e]] = docs[coordOf[e]]
            \/ \E i \in DOMAIN tsKept : docs'[coordOf[e]] = Projected(tsKept[i])
        BY <4>1, <4>2 DEF Upserted
      <4>4. \A i : Projected(tsKept[i]).ev = tsKept[i]
        BY DEF Projected
      <4> QED
        BY <2>6, <4>3, <4>4 DEF Present, InSeq
    <3> QED
      BY <1>8, <3>1, <3>2 DEF TSFiltered
  <2> QED
    BY <2>1, <2>3, <2>4, <2>5, <2>6, InSeqEmpty DEF Present
<1>9. CASE TSDelete
  <2>1. /\ tsPc = "act" /\ tsKept = <<>> /\ UNCHANGED <<tsCh, tsKept>>
        /\ tsPc' = "idle" /\ tsTask' = NoTask
        /\ docs' = docs \/ docs' = Deleted(docs, tsTask.ev, {"amb"})
    BY <1>9 DEF TSDelete, TSReturn, IndexInv, TaskHeld
  <2>2. ASSUME NEW e \in AmbEvent, docs'[coordOf[e]].ev = e
        PROVE  docs[coordOf[e]].ev = e /\ (tsTask = DeleteTask(e) => DeleteGivenUp(e))
    <3>1. coordOf[e] \in Coord /\ collection[coordOf[e]] = "amb" /\ IsAmb(e) /\ e # NoEvent
      BY AmbEventCoord, EventAssumption DEF AmbEvent, IsAmb
    <3>2. docs[coordOf[e]].ev = e
      BY <2>1, <2>2, <3>1 DEF Deleted, NoDoc
    <3>3. tsTask = DeleteTask(e) => DeleteGivenUp(e)
      BY <2>1, <2>2, <3>1 DEF DeleteGivenUp
    <3> QED
      BY <3>2, <3>3
  <2> QED
    BY <2>1, <2>2, InSeqEmpty DEF Present, TaskHeld
<1>10. CASE TSStamp \/ TSRecheck \/ TSPatch
  <2>1. /\ tsPc \in {"act", "patch"} /\ tsKept = <<>> /\ UNCHANGED <<tsCh, tsKept>>
        /\ \/ tsPc' = "idle" /\ tsTask' = NoTask /\ tsTask.op # "delete"
           \/ tsPc' = "patch" /\ tsTask' = tsTask /\ tsTask.op = "content"
    BY <1>10 DEF TSStamp, TSRecheck, TSPatch, TSReturn, IndexInv, TaskHeld
  <2>2. \A c \in Coord : docs'[c].ev = docs[c].ev
    <3>1. CASE docs' = docs
      BY <3>1
    <3>2. CASE docs' = Stamped(docs, tsTask.doc, tsTask.set)
      BY <1>0, <3>2 DEF Stamped, Doc
    <3>3. CASE docs' = ContentPatched(docs, coordOf[tsTask.ev])
      BY <1>0, <3>3 DEF ContentPatched, Doc
    <3> QED
      BY <1>10, <3>1, <3>2, <3>3 DEF TSStamp, TSRecheck, TSPatch
  <2> QED
    BY <1>3, <2>1, <2>2, AmbEventCoord DEF Present, TaskHeld
<1>11. CASE TSDrain \/ TSAbandon
  BY <1>11 DEF TSDrain, TSAbandon, tsWorkerVars, Present, TaskHeld, IndexInv
<1>12. CASE TSExpire
  <2>1. /\ UNCHANGED <<docs, tsKept, tsTask, tsPc>> /\ tsPc = "idle" /\ tsPhase' = "stopped"
        /\ tsKept = <<>>
        /\ tsCh' = tsCh \/ (tsCh # <<>> /\ tsCh' = Tail(tsCh))
    BY <1>12 DEF TSExpire, tsWorkerVars, IndexInv, TaskHeld
  <2>2. ASSUME NEW e \in AmbEvent, Present(e)', InSeq(DeleteTask(e), tsCh)
        PROVE  InSeq(DeleteTask(e), tsCh') \/ DeleteGivenUp(e)
    <3>1. docs'[coordOf[e]].ev = e /\ IsAmb(e)
      BY <2>1, <2>2, InSeqEmpty DEF Present, AmbEvent
    <3>2. CASE tsCh' = tsCh
      BY <2>2, <3>2
    <3>3. CASE tsCh # <<>> /\ tsCh' = Tail(tsCh)
      <4>1. Head(tsCh) = DeleteTask(e) \/ InSeq(DeleteTask(e), tsCh')
        BY <1>0, <2>2, <3>3, InSeqReceive
      <4> QED
        BY <2>1, <3>1, <3>3, <4>1 DEF DeleteGivenUp
    <3> QED
      BY <2>1, <3>2, <3>3
  <2>3. TaskHeld' /\ \A e : Present(e)' <=> Present(e)
    BY <2>1 DEF Present, TaskHeld, IndexInv
  <2> QED
    BY <2>1, <2>2, <2>3
<1> QED
  BY <1>0, <1>5, <1>6, <1>7, <1>8, <1>9, <1>10, <1>11, <1>12 DEF TSRun, TSProcess, TSShutdown

LEMMA IndexSender ==
  ASSUME IndexInv, NEW h \in Caller, TSSender(h)
  PROVE  TaskHeld' /\ IndexSealed'
<1>1. /\ UNCHANGED <<docs, tsKept, tsTask, tsPc, job, tsOrphans, gateVars>>
      /\ tsCh \in Seq(Task) /\ tsCall[h] \in Task
      /\ tsCh' = Append(tsCh, tsCall[h]) /\ tsCall' = [tsCall EXCEPT ![h] = NoTask]
      /\ tsCall \in [Caller -> Task \cup {NoTask}]
  BY DEF TSSender, TSSend, coreVars, tsWorkerVars, IndexInv, TypeOK, TSTypeOK
<1>2. \A y : InSeq(y, tsCh') <=> y = tsCall[h] \/ InSeq(y, tsCh)
  BY <1>1, InSeqSend
<1>3. \A e : IndexRemovalPending(e) => IndexRemovalPending(e)'
  BY <1>1, <1>2 DEF IndexRemovalPending
<1>4. \A e : IdBlocked(e)' <=> IdBlocked(e)
  BY <1>1 DEF IdBlocked, gateVars
<1>5. TaskHeld'
  BY <1>1 DEF TaskHeld, IndexInv
<1> QED
  BY <1>1, <1>3, <1>4, <1>5 DEF IndexInv, IndexSealed

LEMMA IndexQuiet ==
  ASSUME IndexInv,
         UNCHANGED <<docs, tsCh, tsCall, tsTask, tsPc, tsKept, job, tsOrphans>>,
         bannedEvents' \subseteq bannedEvents, deletedEvents' \subseteq deletedEvents
  PROVE  TaskHeld' /\ IndexSealed'
<1>1. \A e : IndexRemovalPending(e) => IndexRemovalPending(e)'
  BY DEF IndexRemovalPending
<1>2. TaskHeld'
  BY DEF IndexInv, TaskHeld
<1>3. \A e : IdBlocked(e)' => IdBlocked(e)
  BY DEF IdBlocked
<1>4. IndexSealed'
  BY <1>1, <1>3 DEF IndexInv, IndexSealed
<1> QED
  BY <1>2, <1>4

LEMMA IndexRestart ==
  ASSUME IndexInv, Restart
  PROVE  TaskHeld' /\ IndexSealed'
<1>1. TaskHeld'
  BY DEF Restart, TaskHeld, NoTask
<1>2. ASSUME NEW e \in AmbEvent, IdBlocked(e)', docs'[coordOf[e]].ev = e \/ InSeq(e, tsKept')
      PROVE  e \in tsOrphans'
  <2>1. IdBlocked(e) /\ docs[coordOf[e]].ev = e
    BY <1>2, InSeqEmpty DEF Restart, IdBlocked, gateVars
  <2>2. IndexRemovalPending(e) \/ e \in tsOrphans
    BY <2>1 DEF IndexInv, IndexSealed
  <2> QED
    BY <2>1, <2>2 DEF Restart
<1>3. IndexSealed'
  BY <1>2 DEF IndexSealed
<1> QED
  BY <1>1, <1>3

LEMMA IndexStep ==
  ASSUME IndexInv, [Next]_vars
  PROVE  IndexInv'
<1>0. TypeOK'
  BY TypeStep DEF IndexInv
<1>1. CASE Admin
  <2>1. UNCHANGED <<docs, tsCh, tsCall, tsTask, tsPc, tsKept, job, tsOrphans>>
    BY <1>1 DEF Admin, tsVars, tsWorkerVars, tsIntakeVars
  <2>2. bannedEvents' \subseteq bannedEvents /\ deletedEvents' \subseteq deletedEvents
    BY <1>1 DEF Admin, BanPubKey, AllowPubKey, AllowEvent
  <2>3. TaskHeld' /\ IndexSealed'
    BY <2>1, <2>2, IndexQuiet
  <2> QED
    BY <1>0, <2>3 DEF IndexInv
<1>2. CASE BoltStep \/ CloseBuffers \/ UNCHANGED vars
  <2>1. UNCHANGED <<docs, tsCh, tsCall, tsTask, tsPc, tsKept, job, tsOrphans>>
    BY <1>2 DEF BoltStep, BoltWorker, BoltSender, CloseBuffers, TSCloseFlag, TSCloseDone, coreVars,
      tsVars, tsWorkerVars, tsIntakeVars, vars
  <2>2. bannedEvents' \subseteq bannedEvents /\ deletedEvents' \subseteq deletedEvents
    BY <1>2 DEF BoltStep, BoltWorker, BoltSender, CloseBuffers, gateVars, vars
  <2>3. TaskHeld' /\ IndexSealed'
    BY <2>1, <2>2, IndexQuiet
  <2> QED
    BY <1>0, <2>3 DEF IndexInv
<1>3. CASE Restart
  BY <1>0, <1>3, IndexRestart DEF IndexInv
<1>4. CASE \E h \in Caller : Request(h) \/ Serving(h)
  BY <1>0, <1>4, IndexServing DEF IndexInv
<1>5. CASE TSStep
  BY <1>0, <1>5, IndexWorker, IndexSender DEF IndexInv, TSStep
<1> QED
  BY <1>1, <1>2, <1>3, <1>4, <1>5 DEF Next, Serve

(* An AMB event whose id was banned or deleted is in the index only while  *)
(* a delete is on its way behind it, or after a delete failed.             *)
THEOREM NoBlockedIdStaysIndexed == Spec => []IndexSealed
<1>1. Init => IndexInv
  <2> SUFFICES ASSUME Init PROVE IndexInv
    OBVIOUS
  <2>1. TaskHeld
    BY DEF Init, TSInit, TSFresh, TaskHeld
  <2>2. \A e : ~ IdBlocked(e)
    BY DEF Init, GateInit, IdBlocked
  <2> QED
    BY <2>1, <2>2, InitType DEF IndexInv, IndexSealed
<1>2. IndexInv /\ [Next]_vars => IndexInv'
  BY IndexStep
<1>3. IndexInv => IndexSealed
  BY DEF IndexInv
<1> QED
  BY <1>1, <1>2, <1>3, PTL DEF Spec
=============================================================================
