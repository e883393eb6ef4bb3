----------------------------- MODULE Buffers_proofs -----------------------------
(***************************************************************************)
(* Theorems about the two write buffers, for every set of events,          *)
(* documents and callers, every capacity, every number of retries and      *)
(* every batch size.                                                       *)
(***************************************************************************)
EXTENDS BoltBuffer, TSBufferOrder, SequenceTheorems, WellFoundedInduction, TLAPS

-----------------------------------------------------------------------------
(* Lemmas on channels.  A Go channel is a sequence: a send appends, a      *)
(* receive takes the head.                                                 *)

(* A send puts its operation behind all others. *)
LEMMA SendAppends ==
  ASSUME NEW S, NEW s \in Seq(S), NEW x \in S
  PROVE  /\ Append(s, x) \in Seq(S)
         /\ Len(s) \in Nat /\ Len(Append(s, x)) = Len(s) + 1
         /\ \A i \in DOMAIN Append(s, x) :
              Append(s, x)[i] = x \/ (i \in DOMAIN s /\ Append(s, x)[i] = s[i])
<1>1. /\ Append(s, x) \in Seq(S)
      /\ Len(Append(s, x)) = Len(s) + 1 /\ Len(s) \in Nat
      /\ \A i \in 1..Len(s) : Append(s, x)[i] = s[i]
      /\ Append(s, x)[Len(s) + 1] = x
  OBVIOUS
<1>2. DOMAIN Append(s, x) = 1..(Len(s) + 1) /\ DOMAIN s = 1..Len(s)
  BY <1>1, LenProperties
<1> QED
  BY <1>1, <1>2

(* A receive takes the first operation and leaves the others in order. *)
LEMMA ReceiveTakesHead ==
  ASSUME NEW S, NEW s \in Seq(S), s # <<>>
  PROVE  /\ Head(s) \in S /\ Tail(s) \in Seq(S)
         /\ Len(s) \in Nat /\ Len(Tail(s)) = Len(s) - 1
         /\ \A i \in DOMAIN Tail(s) : i + 1 \in DOMAIN s /\ Tail(s)[i] = s[i + 1]
<1>1. /\ Head(s) \in S /\ Tail(s) \in Seq(S) /\ Len(Tail(s)) = Len(s) - 1
      /\ \A i \in 1..Len(Tail(s)) : Tail(s)[i] = s[i + 1]
  BY HeadTailProperties
<1>2. DOMAIN Tail(s) = 1..Len(Tail(s)) /\ DOMAIN s = 1..Len(s) /\ Len(s) \in Nat
  BY <1>1, LenProperties
<1> QED
  BY <1>1, <1>2

(* A send behind an operation held by the worker. *)
LEMMA SendBehind ==
  ASSUME NEW S, NEW s \in Seq(S), NEW x \in S, NEW y \in S
  PROVE  <<x>> \o Append(s, y) = Append(<<x>> \o s, y)
<1>1. <<x>> \in Seq(S) /\ <<y>> \in Seq(S) /\ <<x>> \o s \in Seq(S)
  BY ConcatProperties
<1>2. Append(s, y) = s \o <<y>> /\ Append(<<x>> \o s, y) = (<<x>> \o s) \o <<y>>
  BY <1>1, AppendIsConcat
<1> QED
  BY <1>1, <1>2, ConcatAssociative

(* An operation in front of a channel. *)
LEMMA InFront ==
  ASSUME NEW S, NEW s \in Seq(S), NEW x \in S
  PROVE  /\ <<x>> \o s \in Seq(S) /\ <<x>> \o s # <<>>
         /\ Head(<<x>> \o s) = x /\ Tail(<<x>> \o s) = s
         /\ <<>> \o s = s
         /\ s # <<>> => s = <<Head(s)>> \o Tail(s)
<1>1. <<x>> \in Seq(S) /\ Len(<<x>>) = 1 /\ <<x>>[1] = x
  OBVIOUS
<1>2. /\ <<x>> \o s \in Seq(S)
      /\ Len(<<x>> \o s) = 1 + Len(s)
      /\ \A i \in 1..(1 + Len(s)) : (<<x>> \o s)[i] = IF i <= 1 THEN x ELSE s[i - 1]
  BY <1>1, ConcatProperties
<1>3. Len(s) \in Nat
  BY LenProperties
<1>4. <<x>> \o s # <<>> /\ Head(<<x>> \o s) = x
  BY <1>2, <1>3
<1>5. Tail(<<x>> \o s) = s
  <2>1. /\ Tail(<<x>> \o s) \in Seq(S)
        /\ Len(Tail(<<x>> \o s)) = Len(s)
        /\ \A i \in 1..Len(s) : Tail(<<x>> \o s)[i] = (<<x>> \o s)[i + 1]
    BY <1>2, <1>3, <1>4, HeadTailProperties
  <2>2. \A i \in 1..Len(s) : Tail(<<x>> \o s)[i] = s[i]
    BY <1>2, <1>3, <2>1
  <2> QED
    BY <2>1, <2>2, SeqEqual
<1>6. <<>> \o s = s
  BY ConcatEmptySeq
<1>7. s # <<>> => s = <<Head(s)>> \o Tail(s)
  <2> SUFFICES ASSUME s # <<>> PROVE s = <<Head(s)>> \o Tail(s)
    OBVIOUS
  <2>1. /\ Head(s) \in S /\ Tail(s) \in Seq(S) /\ Len(Tail(s)) = Len(s) - 1
        /\ \A i \in 1..Len(Tail(s)) : Tail(s)[i] = s[i + 1]
    BY HeadTailProperties
  <2>2. <<Head(s)>> \in Seq(S) /\ Len(<<Head(s)>>) = 1 /\ <<Head(s)>>[1] = Head(s)
    BY <2>1
  <2>3. Len(s) \in Nat \ {0} /\ Head(s) = s[1]
    BY EmptySeq
  <2>4. /\ <<Head(s)>> \o Tail(s) \in Seq(S)
        /\ Len(<<Head(s)>> \o Tail(s)) = Len(s)
        /\ \A i \in 1..Len(s) : (<<Head(s)>> \o Tail(s))[i] = s[i]
    BY <2>1, <2>2, <2>3, ConcatProperties
  <2> QED
    BY <2>4, SeqEqual
<1> QED
  BY <1>2, <1>4, <1>5, <1>6, <1>7

-----------------------------------------------------------------------------
(* BoltWriteBuffer: type correctness. *)

LEMMA NoOpNotOp == NoOp \notin BoltOp
  BY EventAssumption DEF NoOp, BoltOp

LEMMA WrittenType ==
  ASSUME NEW store \in SUBSET Event, NEW op \in BoltOp
  PROVE  Written(store, op) \in SUBSET Event
  BY DEF Written, Replaced, BoltOp

LEMMA BoltRunType ==
  ASSUME BoltTypeOK, BoltRun
  PROVE  BoltTypeOK'
<1> USE DEF BoltTypeOK, BoltPc
<1>0. BoltIdle \in [pc : BoltPc, op : BoltOp \cup {NoOp}, attempt : 0..BoltMaxRetries]
  BY BoltAssumption DEF BoltIdle
<1>1. CASE BoltTake
  <2>1. /\ Head(boltCh) \in BoltOp /\ Tail(boltCh) \in Seq(BoltOp)
        /\ Len(Tail(boltCh)) <= BoltBufSize
    BY <1>1, BoltAssumption, ReceiveTakesHead DEF BoltTake
  <2>2. 1 \in 0..BoltMaxRetries
    BY BoltAssumption
  <2> QED
    BY <1>1, <2>1, <2>2 DEF BoltTake, boltCallerVars
<1>2. CASE BoltCheck
  BY <1>0, <1>2 DEF BoltCheck, BoltReturn, BoltMove, BoltIdle, boltCallerVars
<1>3. CASE BoltWriteOK
  <2>1. bolt' \in SUBSET Event
    BY <1>3, WrittenType DEF BoltWriteOK
  <2> QED
    BY <1>3, <2>1 DEF BoltWriteOK, BoltMove, boltCallerVars
<1>4. CASE BoltWriteFail
  BY <1>0, <1>4 DEF BoltWriteFail, BoltReturn, BoltMove, BoltIdle, boltCallerVars
<1>5. CASE BoltRetry
  <2>1. CASE boltWorker.attempt < BoltMaxRetries
    <3>1. boltWorker.attempt + 1 \in 0..BoltMaxRetries
      BY <2>1, BoltAssumption
    <3> QED
      BY <1>5, <2>1, <3>1 DEF BoltRetry, boltCallerVars
  <2>2. CASE ~ (boltWorker.attempt < BoltMaxRetries)
    BY <1>0, <1>5, <2>2 DEF BoltRetry, BoltReturn, BoltIdle, boltCallerVars
  <2> QED
    BY <2>1, <2>2
<1>6. CASE BoltHeal
  BY <1>0, <1>6 DEF BoltHeal, BoltReturn, BoltMove, BoltIdle, boltCallerVars
<1>7. CASE BoltHealDelete
  <2>1. boltWorker.op.ev \in Event
    BY <1>7 DEF BoltHealDelete, BoltOp
  <2> QED
    BY <1>0, <1>7, <2>1 DEF BoltHealDelete, BoltDelete, BoltReturn, BoltIdle, boltCallerVars
<1>8. CASE BoltDrain
  BY <1>8 DEF BoltDrain, boltCallerVars
<1>9. CASE BoltDrained
  BY <1>9 DEF BoltDrained, boltCallerVars
<1>10. CASE BoltAbandon
  BY <1>10 DEF BoltAbandon, boltCallerVars
<1>11. CASE BoltTakeExpired
  <2>1. Tail(boltCh) \in Seq(BoltOp) /\ Len(Tail(boltCh)) <= BoltBufSize
    BY <1>11, BoltAssumption, ReceiveTakesHead DEF BoltTakeExpired
  <2> QED
    BY <1>11, <2>1 DEF BoltTakeExpired, boltCallerVars
<1> QED
  BY <1>1, <1>2, <1>3, <1>4, <1>5, <1>6, <1>7, <1>8, <1>9, <1>10, <1>11
  DEF BoltRun, BoltProcess, BoltShutdown

LEMMA BoltQueueType ==
  ASSUME BoltTypeOK, NEW p \in Caller, NEW op \in BoltOp, BoltQueue(p, op)
  PROVE  BoltTypeOK'
  BY DEF BoltTypeOK, BoltQueue

LEMMA BoltSendType ==
  ASSUME BoltTypeOK, NEW p \in Caller, BoltSend(p)
  PROVE  BoltTypeOK'
<1>1. boltCall[p] \in BoltOp
  BY DEF BoltTypeOK, BoltSend
<1>2. boltCh' \in Seq(BoltOp) /\ Len(boltCh') <= BoltBufSize
  BY <1>1, BoltAssumption, SendAppends DEF BoltTypeOK, BoltSend
<1> QED
  BY <1>2 DEF BoltTypeOK, BoltSend

LEMMA BoltCloseType ==
  ASSUME BoltTypeOK, BoltCloseFlag \/ BoltCloseDone
  PROVE  BoltTypeOK'
  BY DEF BoltTypeOK, BoltCloseFlag, BoltCloseDone

LEMMA BoltPurgeType ==
  ASSUME BoltTypeOK, NEW e \in Event, BoltDelete(e),
         UNCHANGED <<boltCh, boltWorker, boltPhase, boltExpired, boltCallerVars>>
  PROVE  BoltTypeOK'
  BY DEF BoltTypeOK, BoltDelete, boltCallerVars

LEMMA BoltStepType ==
  ASSUME BoltTypeOK, [BoltNext]_BoltBufferVars
  PROVE  BoltTypeOK'
<1>1. CASE BoltRun
  BY <1>1, BoltRunType
<1>2. ASSUME NEW p \in Caller, NEW op \in BoltOp, BoltQueue(p, op)
      PROVE  BoltTypeOK'
  BY <1>2, BoltQueueType
<1>3. ASSUME NEW p \in Caller, BoltSend(p)
      PROVE  BoltTypeOK'
  BY <1>3, BoltSendType
<1>4. CASE BoltCloseFlag \/ BoltCloseDone
  BY <1>4, BoltCloseType
<1>5. ASSUME NEW e \in Event, BoltPurge(e)
      PROVE  BoltTypeOK'
  BY <1>5, BoltPurgeType DEF BoltPurge, boltCallerVars
<1>6. CASE UNCHANGED boltVars
  BY <1>6 DEF BoltTypeOK, boltVars
<1> QED
  BY <1>1, <1>2, <1>3, <1>4, <1>5, <1>6 DEF BoltNext, BoltEnv, BoltBufferVars

LEMMA BoltInitType ==
  ASSUME BoltInit
  PROVE  BoltTypeOK
<1>1. <<>> \in Seq(BoltOp) /\ Len(<<>>) <= BoltBufSize
  BY BoltAssumption
<1>2. BoltIdle \in [pc : BoltPc, op : BoltOp \cup {NoOp}, attempt : 0..BoltMaxRetries]
  BY BoltAssumption DEF BoltIdle, BoltPc
<1>3. boltWorker = BoltIdle /\ boltWorker.pc = "idle"
  BY DEF BoltInit, BoltFresh, BoltIdle
<1> QED
  BY <1>1, <1>2, <1>3 DEF BoltInit, BoltFresh, BoltTypeOK

(* The buffer's variables keep their types. *)
THEOREM BoltTypeCorrect == BoltSafeSpec => []BoltTypeOK
<1>1. GateInit /\ BoltInit => BoltTypeOK
  BY BoltInitType
<1>2. BoltTypeOK /\ [BoltNext]_BoltBufferVars => BoltTypeOK'
  BY BoltStepType
<1> QED
  BY <1>1, <1>2, PTL DEF BoltSafeSpec, BoltBufferInit

-----------------------------------------------------------------------------
(* What a shutdown loses. *)

(* The worker leaves its live loop only after Close did both its steps; a  *)
(* call that read the closed flag before and is still sending is a racer.  *)
ShutdownOrder ==
  /\ boltDone => boltClosed
  /\ boltPhase # "run" => boltDone
  /\ boltClosed => \A p \in Caller : boltCall[p] # NoOp => boltCall[p] \in boltRacers

LostInv == BoltTypeOK /\ ShutdownOrder /\ OnlyRacersLost

LEMMA LostInvStep ==
  ASSUME LostInv, [BoltNext]_BoltBufferVars
  PROVE  LostInv'
<1> USE DEF LostInv, ShutdownOrder, OnlyRacersLost
<1>0. BoltTypeOK'
  BY BoltStepType
<1>1. CASE BoltTake
  BY <1>0, <1>1 DEF BoltTake, boltCallerVars
<1>2. CASE BoltProcess
  BY <1>0, <1>2 DEF BoltProcess, BoltCheck, BoltWriteOK, BoltWriteFail, BoltRetry,
    BoltHeal, BoltHealDelete, boltCallerVars
<1>3. CASE BoltDrain
  BY <1>0, <1>3 DEF BoltDrain, boltCallerVars
<1>4. CASE BoltDrained
  BY <1>0, <1>4 DEF BoltDrained, boltCallerVars
<1>5. CASE BoltAbandon \/ BoltTakeExpired
  BY <1>0, <1>5 DEF BoltAbandon, BoltTakeExpired, boltCallerVars
<1>6. ASSUME NEW p \in Caller, NEW op \in BoltOp, BoltQueue(p, op)
      PROVE  LostInv'
  BY <1>0, <1>6 DEF BoltQueue
<1>7. ASSUME NEW p \in Caller, BoltSend(p)
      PROVE  LostInv'
  <2>1. ShutdownOrder'
    BY <1>7 DEF BoltSend, BoltTypeOK
  <2>2. boltCall[p] \in BoltOp /\ boltCh \in Seq(BoltOp) /\ boltCh' = Append(boltCh, boltCall[p])
    BY <1>7 DEF BoltSend, BoltTypeOK
  <2>3. \A i \in DOMAIN boltCh' :
          boltCh'[i] = boltCall[p] \/ (i \in DOMAIN boltCh /\ boltCh'[i] = boltCh[i])
    BY <2>2, SendAppends
  <2>4. boltClosed => boltCall[p] \in boltRacers
    BY <1>7 DEF BoltSend
  <2>5. OnlyRacersLost'
    BY <1>7, <2>3, <2>4 DEF BoltSend, BoltTypeOK
  <2> QED
    BY <1>0, <2>1, <2>5
<1>8. CASE BoltCloseFlag
  BY <1>0, <1>8 DEF BoltCloseFlag
<1>9. CASE BoltCloseDone
  BY <1>0, <1>9 DEF BoltCloseDone
<1>10. ASSUME NEW e \in Event, BoltPurge(e)
       PROVE  LostInv'
  BY <1>0, <1>10 DEF BoltPurge
<1>11. CASE UNCHANGED boltVars
  BY <1>0, <1>11 DEF boltVars
<1> QED
  BY <1>1, <1>2, <1>3, <1>4, <1>5, <1>6, <1>7, <1>8, <1>9, <1>10, <1>11
  DEF BoltNext, BoltRun, BoltShutdown, BoltEnv, BoltBufferVars

(* A drain within its deadline loses no write except of a Queue call that  *)
(* was under way when Close stored the closed flag.                        *)
THEOREM ShutdownLosesOnlyRacers == BoltSafeSpec => []OnlyRacersLost
<1>1. GateInit /\ BoltInit => LostInv
  <2>1. GateInit /\ BoltInit => BoltTypeOK
    BY BoltInitType
  <2> QED
    BY <2>1 DEF BoltInit, BoltFresh, LostInv, ShutdownOrder, OnlyRacersLost
<1>2. LostInv /\ [BoltNext]_BoltBufferVars => LostInv'
  BY LostInvStep
<1>3. LostInv => OnlyRacersLost
  BY DEF LostInv
<1> QED
  BY <1>1, <1>2, <1>3, PTL DEF BoltSafeSpec, BoltBufferInit

-----------------------------------------------------------------------------
(* The buffer implements a FIFO store. *)

(* The operations FifoStore sees in the queue. *)
Waiting ==
  (IF boltWorker.pc \in {"check", "write", "backoff"} THEN <<boltWorker.op>> ELSE <<>>) \o boltCh

LEMMA WaitingInFront ==
  ASSUME BoltTypeOK
  PROVE  /\ Waiting \in Seq(BoltOp)
         /\ boltWorker.pc \in {"check", "write", "backoff"} =>
              Waiting # <<>> /\ Head(Waiting) = boltWorker.op /\ Tail(Waiting) = boltCh
         /\ boltWorker.pc \notin {"check", "write", "backoff"} => Waiting = boltCh
<1>1. CASE boltWorker.pc \in {"check", "write", "backoff"}
  <2>1. boltWorker.op \in BoltOp /\ boltCh \in Seq(BoltOp)
    BY <1>1 DEF BoltTypeOK
  <2>2. Waiting = <<boltWorker.op>> \o boltCh
    BY <1>1 DEF Waiting
  <2> QED
    BY <1>1, <2>1, <2>2, InFront
<1>2. CASE boltWorker.pc \notin {"check", "write", "backoff"}
  <2>1. boltCh \in Seq(BoltOp) /\ Waiting = <<>> \o boltCh
    BY <1>2 DEF Waiting, BoltTypeOK
  <2>2. Waiting = boltCh
    BY <2>1, ConcatEmptySeq
  <2> QED
    BY <1>2, <2>1, <2>2
<1> QED
  BY <1>1, <1>2

LEMMA WrittenSame ==
  ASSUME NEW store, NEW op
  PROVE  Sequential!Written(store, op) = Written(store, op)
  BY DEF Sequential!Written, Written, Sequential!Replaced, Replaced,
    Sequential!IsOlder, IsOlder

(* Each step of the buffer is a step of the queue, or none. *)
LEMMA BoltStepSimulates ==
  ASSUME BoltTypeOK, BoltTypeOK', [BoltNext]_BoltBufferVars
  PROVE  \/ \E op \in BoltOp : Waiting' = Append(Waiting, op) /\ UNCHANGED bolt
         \/ Waiting # <<>> /\ Waiting' = Tail(Waiting) /\ bolt' = Written(bolt, Head(Waiting))
         \/ Waiting # <<>> /\ Waiting' = Tail(Waiting) /\ UNCHANGED bolt
         \/ \E e \in Event : bolt' = bolt \ {e} /\ UNCHANGED Waiting
         \/ UNCHANGED <<Waiting, bolt>>
<1> DEFINE Holds == boltWorker.pc \in {"check", "write", "backoff"}
           Dropped == Waiting # <<>> /\ Waiting' = Tail(Waiting) /\ UNCHANGED bolt
           Removed == \E e \in Event : bolt' = bolt \ {e} /\ UNCHANGED Waiting
           Stutter == UNCHANGED <<Waiting, bolt>>
<1>0. /\ Holds => Waiting # <<>> /\ Head(Waiting) = boltWorker.op /\ Tail(Waiting) = boltCh
      /\ ~ Holds => Waiting = boltCh
      /\ ~ Holds' => Waiting' = boltCh'
  <2>1. ~ Holds' => Waiting' = <<>> \o boltCh'
    BY DEF Waiting
  <2>2. boltCh' \in Seq(BoltOp)
    BY DEF BoltTypeOK
  <2> QED
    BY <2>1, <2>2, ConcatEmptySeq, WaitingInFront
<1>a. ASSUME Holds, Holds', boltWorker'.op = boltWorker.op, UNCHANGED <<boltCh, bolt>>
      PROVE  Stutter
  BY <1>a DEF Waiting
<1>b. ASSUME Holds, BoltReturn, UNCHANGED <<boltCh, bolt>>
      PROVE  Dropped
  <2>1. ~ Holds'
    BY <1>b DEF BoltReturn, BoltIdle
  <2> QED
    BY <1>0, <1>b, <2>1
<1>c. ASSUME NEW pc, BoltMove(pc)
      PROVE  boltWorker'.pc = pc /\ boltWorker'.op = boltWorker.op
  BY <1>c DEF BoltMove, BoltTypeOK
<1>1. CASE BoltTake
  <2>1. /\ Waiting = boltCh /\ boltCh # <<>> /\ boltCh \in Seq(BoltOp)
        /\ Waiting' = <<Head(boltCh)>> \o Tail(boltCh)
        /\ UNCHANGED bolt
    BY <1>0, <1>1 DEF BoltTake, Waiting, BoltTypeOK
  <2>2. Head(boltCh) \in BoltOp
    BY <2>1, ReceiveTakesHead
  <2>3. Stutter
    BY <2>1, <2>2, InFront
  <2> QED
    BY <2>3
<1>2. CASE BoltCheck
  <2>1. Holds /\ (BoltReturn \/ BoltMove("write")) /\ UNCHANGED <<boltCh, bolt>>
    BY <1>2 DEF BoltCheck
  <2>2. BoltMove("write") => Holds' /\ boltWorker'.op = boltWorker.op
    BY <1>c
  <2> QED
    BY <1>a, <1>b, <2>1, <2>2
<1>3. CASE BoltWriteOK
  <2>1. Waiting # <<>> /\ Waiting' = Tail(Waiting) /\ bolt' = Written(bolt, Head(Waiting))
    BY <1>0, <1>3 DEF BoltWriteOK, BoltMove, BoltTypeOK
  <2> QED
    BY <2>1
<1>4. CASE BoltWriteFail
  <2>1. Holds /\ (BoltReturn \/ BoltMove("backoff")) /\ UNCHANGED <<boltCh, bolt>>
    BY <1>4 DEF BoltWriteFail
  <2>2. BoltMove("backoff") => Holds' /\ boltWorker'.op = boltWorker.op
    BY <1>c
  <2> QED
    BY <1>a, <1>b, <2>1, <2>2
<1>5. CASE BoltRetry
  <2>1. /\ Holds /\ UNCHANGED <<boltCh, bolt>>
        /\ BoltReturn \/ boltWorker' = [boltWorker EXCEPT !.pc = "check", !.attempt = @ + 1]
    BY <1>5 DEF BoltRetry
  <2>2. BoltReturn \/ (Holds' /\ boltWorker'.op = boltWorker.op)
    BY <2>1 DEF BoltTypeOK
  <2> QED
    BY <1>a, <1>b, <2>1, <2>2
<1>6. CASE BoltHeal
  <2>1. Stutter
    BY <1>0, <1>6 DEF BoltHeal, BoltReturn, BoltMove, BoltIdle, BoltTypeOK
  <2> QED
    BY <2>1
<1>7. CASE BoltHealDelete
  <2>1. boltWorker.op.ev \in Event
    BY <1>7 DEF BoltHealDelete, BoltTypeOK, BoltOp
  <2>2. UNCHANGED Waiting
    BY <1>0, <1>7 DEF BoltHealDelete, BoltReturn, BoltIdle, BoltTypeOK
  <2>3. Removed \/ Stutter
    BY <1>7, <2>1, <2>2 DEF BoltHealDelete, BoltDelete
  <2> QED
    BY <2>3
<1>8. CASE BoltDrain \/ BoltDrained \/ BoltAbandon
  <2>1. Stutter
    BY <1>8 DEF BoltDrain, BoltDrained, BoltAbandon, Waiting
  <2> QED
    BY <2>1
<1>9. CASE BoltTakeExpired
  <2>1. Dropped
    BY <1>0, <1>9 DEF BoltTakeExpired
  <2> QED
    BY <2>1
<1>10. ASSUME NEW p \in Caller, BoltSend(p)
       PROVE  \E op \in BoltOp : Waiting' = Append(Waiting, op) /\ UNCHANGED bolt
  <2>1. /\ boltCall[p] \in BoltOp /\ boltCh \in Seq(BoltOp)
        /\ boltCh' = Append(boltCh, boltCall[p]) /\ UNCHANGED <<boltWorker, bolt>>
    BY <1>10 DEF BoltSend, BoltTypeOK
  <2>2. Waiting' = Append(Waiting, boltCall[p])
    <3>1. CASE ~ Holds
      BY <1>0, <2>1, <3>1
    <3>2. CASE Holds
      <4>1. boltWorker.op \in BoltOp
        BY <3>2 DEF BoltTypeOK
      <4>2. Waiting = <<boltWorker.op>> \o boltCh /\ Waiting' = <<boltWorker.op>> \o Append(boltCh, boltCall[p])
        BY <2>1, <3>2 DEF Waiting
      <4> QED
        BY <2>1, <4>1, <4>2, SendBehind
    <3> QED
      BY <3>1, <3>2
  <2> QED
    BY <2>1, <2>2
<1>11. ASSUME NEW e \in Event, BoltPurge(e)
       PROVE  Removed \/ Stutter
  BY <1>11 DEF BoltPurge, BoltDelete, Waiting
<1>12. CASE \/ \E p \in Caller, op \in BoltOp : BoltQueue(p, op)
            \/ BoltCloseFlag \/ BoltCloseDone \/ UNCHANGED boltVars
  <2>1. Stutter
    BY <1>12 DEF BoltQueue, BoltCloseFlag, BoltCloseDone, boltVars, Waiting
  <2> QED
    BY <2>1
<1> QED
  BY <1>1, <1>2, <1>3, <1>4, <1>5, <1>6, <1>7, <1>8, <1>9, <1>10, <1>11, <1>12
  DEF BoltNext, BoltRun, BoltProcess, BoltShutdown, BoltEnv, BoltBufferVars

(* The worker applies the accepted operations in the order of acceptance,  *)
(* each at most once: the buffer implements FifoStore.                     *)
THEOREM WritesInOrderOnce == BoltSafeSpec => WritesInOrder
<1>1. BoltInit => Sequential!Init
  <2>1. BoltInit => BoltTypeOK
    BY BoltInitType
  <2> QED
    BY <2>1, WaitingInFront DEF BoltInit, BoltFresh, BoltIdle, Waiting, Sequential!Init
<1>2. ASSUME BoltTypeOK, BoltTypeOK', [BoltNext]_BoltBufferVars
      PROVE  Sequential!Next \/ UNCHANGED <<Waiting, bolt>>
  <2>1. ASSUME NEW op \in BoltOp, Waiting' = Append(Waiting, op), UNCHANGED bolt
        PROVE  Sequential!Next
    <3>1. Sequential!Accept(op)
      BY <2>1 DEF Waiting, Sequential!Accept
    <3> QED
      BY <3>1 DEF Sequential!Next, BoltOp, Sequential!BoltOp
  <2>2. ASSUME Waiting # <<>>, Waiting' = Tail(Waiting), bolt' = Written(bolt, Head(Waiting))
        PROVE  Sequential!Next
    BY <2>2, WrittenSame DEF Waiting, Sequential!Apply, Sequential!Next
  <2>3. ASSUME Waiting # <<>>, Waiting' = Tail(Waiting), UNCHANGED bolt
        PROVE  Sequential!Next
    BY <2>3 DEF Waiting, Sequential!GiveUp, Sequential!Next
  <2>4. ASSUME NEW e \in Event, bolt' = bolt \ {e}, UNCHANGED Waiting
        PROVE  Sequential!Next
    BY <2>4 DEF Waiting, Sequential!Remove, Sequential!Next
  <2> QED
    BY <1>2, <2>1, <2>2, <2>3, <2>4, BoltStepSimulates
<1>3. BoltSafeSpec => []BoltTypeOK
  BY BoltTypeCorrect
<1>4. BoltTypeOK /\ BoltTypeOK' /\ [BoltNext]_BoltBufferVars =>
        [Sequential!Next]_<<Waiting, bolt>>
  BY <1>2
<1> QED
  BY <1>1, <1>3, <1>4, PTL DEF BoltSafeSpec, BoltBufferInit, WritesInOrder, Sequential!Spec, Waiting

-----------------------------------------------------------------------------
(* TSWriteBuffer: type correctness. *)

LEMMA AmbEventCoord ==
  ASSUME NEW e \in AmbEvent
  PROVE  e \in Event /\ coordOf[e] \in Coord
  BY EventAssumption DEF AmbEvent, IsAmb, IsAddressable

(* What the four kinds of tasks carry. *)
LEMMA TaskKinds ==
  ASSUME NEW t \in Task
  PROVE  /\ t.op \in {"event", "content", "stamp", "delete"}
         /\ t.op \in {"event", "content"} => t.ev \in AmbEvent
         /\ t.op = "stamp" => t.doc \in AmbDoc /\ t.set \in SUBSET Community
         /\ t.op = "delete" => t.ev \in Event
  BY DEF Task, EventTask, ContentTask, StampTask, DeleteTask

LEMMA NoTaskNotTask ==
  /\ NoTask \notin Task /\ Tick \notin Task /\ Final \notin Task
  /\ NoTask.op = "none" /\ Tick.op = "tick" /\ Final.op = "final"
<1>1. NoTask.op = "none" /\ Tick.op = "tick" /\ Final.op = "final"
  BY DEF NoTask, Tick, Final
<1> QED
  BY <1>1, TaskKinds

LEMMA NoDocType == NoDoc \in Doc
  BY DEF NoDoc, Doc

LEMMA ProjectedType ==
  ASSUME NEW e \in Event
  PROVE  Projected(e) \in Doc
  BY EventAssumption DEF Projected, Doc

LEMMA UpsertedType ==
  ASSUME docs \in [Coord -> Doc], NEW batch \in Seq(AmbEvent), NEW landed \in SUBSET DOMAIN batch
  PROVE  Upserted(docs, batch, landed) \in [Coord -> Doc]
<1>1. \A i \in landed : batch[i] \in Event
  BY DEF AmbEvent
<1>2. \A i \in landed : Projected(batch[i]) \in Doc
  BY <1>1, ProjectedType
<1> QED
  BY <1>2 DEF Upserted

LEMMA DeletedType ==
  ASSUME docs \in [Coord -> Doc], NEW e, NEW cs
  PROVE  Deleted(docs, e, cs) \in [Coord -> Doc]
  BY NoDocType DEF Deleted

LEMMA PatchedType ==
  ASSUME docs \in [Coord -> Doc], NEW c \in Coord, NEW cs \in SUBSET Community
  PROVE  /\ Stamped(docs, c, cs) \in [Coord -> Doc]
         /\ ContentPatched(docs, c) \in [Coord -> Doc]
  BY DEF Stamped, ContentPatched, Doc

LEMMA TSRunType ==
  ASSUME TSTypeOK, TSRun
  PROVE  TSTypeOK'
<1> USE DEF TSTypeOK
<1>1. CASE TSTake
  <2>1. Head(tsCh) \in Task /\ Tail(tsCh) \in Seq(Task) /\ Len(Tail(tsCh)) <= TSBufSize
    BY <1>1, TSAssumption, ReceiveTakesHead DEF TSTake
  <2>2. tsCh' = Tail(tsCh) /\ UNCHANGED <<docs, tsPhase, tsExpired, tsKept, tsIntakeVars>>
    BY <1>1 DEF TSTake
  <2>3. tsPc' \in {"idle", "filter", "act"} /\ tsTask' \in Task \cup {NoTask, Tick, Final}
    BY <1>1, <2>1 DEF TSTake
  <2>4. \/ tsBatch' = tsBatch /\ tsPending' = tsPending
        \/ /\ Head(tsCh).op \in {"event", "content"}
           /\ tsBatch' = Append(tsBatch, Head(tsCh).ev)
           /\ tsPending' = tsPending \cup {coordOf[Head(tsCh).ev]}
    BY <1>1 DEF TSTake
  <2>5. tsBatch' \in Seq(AmbEvent) /\ tsPending' \in SUBSET Coord
    <3>1. CASE tsBatch' = tsBatch /\ tsPending' = tsPending
      BY <3>1
    <3>2. CASE /\ Head(tsCh).op \in {"event", "content"}
               /\ tsBatch' = Append(tsBatch, Head(tsCh).ev)
               /\ tsPending' = tsPending \cup {coordOf[Head(tsCh).ev]}
      <4>1. Head(tsCh).ev \in AmbEvent
        BY <2>1, <3>2, TaskKinds
      <4>2. Append(tsBatch, Head(tsCh).ev) \in Seq(AmbEvent)
        BY <4>1, SendAppends
      <4> QED
        BY <3>2, <4>1, <4>2, AmbEventCoord
    <3> QED
      BY <2>4, <3>1, <3>2
  <2> QED
    BY <2>1, <2>2, <2>3, <2>5 DEF tsIntakeVars
<1>2. CASE TSTick \/ TSFinalFlush
  BY <1>2 DEF TSTick, TSFinalFlush, tsIntakeVars
<1>3. CASE TSFilter
  <2>1. Head(tsBatch) \in AmbEvent /\ Tail(tsBatch) \in Seq(AmbEvent)
    BY <1>3, ReceiveTakesHead DEF TSFilter
  <2>2. tsKept' \in Seq(AmbEvent)
    BY <1>3, <2>1, SendAppends DEF TSFilter
  <2> QED
    BY <1>3, <2>1, <2>2 DEF TSFilter, tsIntakeVars
<1>4. ASSUME TSFlushed
      PROVE  /\ tsKept' \in Seq(AmbEvent) /\ tsPending' \in SUBSET Coord
             /\ tsPc' \in {"idle", "act"} /\ tsTask' \in Task \cup {NoTask, Tick, Final}
             /\ tsPhase' \in {"run", "drain", "stopped"}
  BY <1>4 DEF TSFlushed
<1>5. CASE TSFiltered
  <2>1. /\ tsKept' \in Seq(AmbEvent) /\ tsPending' \in SUBSET Coord
        /\ tsPc' \in {"idle", "act", "upsert"} /\ tsTask' \in Task \cup {NoTask, Tick, Final}
        /\ tsPhase' \in {"run", "drain", "stopped"}
    BY <1>4, <1>5 DEF TSFiltered
  <2> QED
    BY <1>5, <2>1 DEF TSFiltered, tsIntakeVars
<1>6. CASE TSUpsert
  <2>1. docs' \in [Coord -> Doc]
    BY <1>6, UpsertedType DEF TSUpsert
  <2> QED
    BY <1>4, <1>6, <2>1 DEF TSUpsert, tsIntakeVars
<1>7. CASE TSDelete
  <2>1. docs' \in [Coord -> Doc]
    BY <1>7, DeletedType DEF TSDelete
  <2> QED
    BY <1>7, <2>1 DEF TSDelete, TSReturn, tsIntakeVars
<1>8. CASE TSStamp
  <2>1. tsTask \in Task
    BY <1>8, NoTaskNotTask DEF TSStamp
  <2>2. docs' \in [Coord -> Doc]
    BY <1>8, <2>1, TaskKinds, PatchedType DEF TSStamp, AmbDoc
  <2> QED
    BY <1>8, <2>2 DEF TSStamp, TSReturn, tsIntakeVars
<1>9. CASE TSRecheck
  BY <1>9 DEF TSRecheck, TSReturn, tsIntakeVars
<1>10. CASE TSPatch
  <2>1. docs' \in [Coord -> Doc]
    <3>1. \A c \in Coord : [docs[c] EXCEPT !.content = TRUE] \in Doc
      BY DEF Doc
    <3>2. \A c : docs[c] # NoDoc => ContentPatched(docs, c) = [docs EXCEPT ![c] = [docs[c] EXCEPT !.content = TRUE]]
      BY DEF ContentPatched
    <3>3. \A c : docs[c] = NoDoc => ContentPatched(docs, c) = docs
      BY DEF ContentPatched
    <3>4. \A c : ContentPatched(docs, c) \in [Coord -> Doc]
      BY <3>1, <3>2, <3>3
    <3> QED
      BY <1>10, <3>4 DEF TSPatch
  <2> QED
    BY <1>10, <2>1 DEF TSPatch, TSReturn, tsIntakeVars
<1>11. CASE TSDrain \/ TSAbandon
  BY <1>11 DEF TSDrain, TSAbandon, tsIntakeVars, tsWorkerVars
<1>12. CASE TSExpire
  <2>1. tsCh' \in Seq(Task) /\ Len(tsCh') <= TSBufSize
    BY <1>12, TSAssumption, ReceiveTakesHead DEF TSExpire
  <2> QED
    BY <1>12, <2>1 DEF TSExpire, tsIntakeVars, tsWorkerVars
<1> QED
  BY <1>1, <1>2, <1>3, <1>5, <1>6, <1>7, <1>8, <1>9, <1>10, <1>11, <1>12
  DEF TSRun, TSProcess, TSShutdown

LEMMA TSQueueType ==
  ASSUME TSTypeOK, NEW p \in Caller, NEW t \in Task, TSQueue(p, t)
  PROVE  TSTypeOK'
  BY DEF TSTypeOK, TSQueue, tsWorkerVars

LEMMA TSSendType ==
  ASSUME TSTypeOK, NEW p \in Caller, TSSend(p)
  PROVE  TSTypeOK'
<1>1. tsCall[p] \in Task
  BY DEF TSTypeOK, TSSend
<1>2. tsCh' \in Seq(Task) /\ Len(tsCh') <= TSBufSize
  BY <1>1, TSAssumption, SendAppends DEF TSTypeOK, TSSend
<1> QED
  BY <1>2 DEF TSTypeOK, TSSend, tsWorkerVars

LEMMA TSCloseType ==
  ASSUME TSTypeOK, TSCloseFlag \/ TSCloseDone
  PROVE  TSTypeOK'
  BY DEF TSTypeOK, TSCloseFlag, TSCloseDone, tsWorkerVars

LEMMA TSDocsType ==
  ASSUME TSTypeOK, docs' \in [Coord -> Doc],
         UNCHANGED <<tsCh, tsPhase, tsExpired, tsWorkerVars, tsIntakeVars>>
  PROVE  TSTypeOK'
  BY DEF TSTypeOK, tsWorkerVars, tsIntakeVars

LEMMA TSInitType ==
  ASSUME TSInit
  PROVE  TSTypeOK
<1>1. <<>> \in Seq(Task) /\ <<>> \in Seq(AmbEvent) /\ Len(<<>>) <= TSBufSize
  BY TSAssumption
<1>2. docs \in [Coord -> Doc]
  BY NoDocType DEF TSInit
<1> QED
  BY <1>1, <1>2 DEF TSInit, TSFresh, TSTypeOK

LEMMA TSStepType ==
  ASSUME TSTypeOK, [TSNext]_TSBufferVars
  PROVE  TSTypeOK'
<1>1. ASSUME NEW e \in Event, TSPurge(e)
      PROVE  TSTypeOK'
  BY <1>1, DeletedType, TSDocsType DEF TSPurge, TSTypeOK
<1>2. CASE UNCHANGED tsVars
  BY <1>2 DEF TSTypeOK, tsVars, tsWorkerVars, tsIntakeVars
<1> QED
  BY <1>1, <1>2, TSRunType, TSQueueType, TSSendType, TSCloseType
  DEF TSNext, TSEnv, TSBufferVars

(* The buffer's variables keep their types. *)
THEOREM TSTypeCorrect == TSSafeSpec => []TSTypeOK
<1>1. GateInit /\ TSInit => TSTypeOK
  BY TSInitType
<1>2. TSTypeOK /\ [TSNext]_TSBufferVars => TSTypeOK'
  BY TSStepType
<1> QED
  BY <1>1, <1>2, PTL DEF TSSafeSpec, TSBufferInit

-----------------------------------------------------------------------------
(* pendingDocIDs. *)

(* PendingExact, and what the program counter says of the batch: outside a *)
(* flush nothing is half filtered and every pending document is in the     *)
(* batch; whatever must come after the batch is sent with the batch empty, *)
(* or, a community patch, with its document not in it.                     *)
PendingInv ==
  /\ \A c \in Coord : Unflushed(c) => c \in tsPending
  /\ tsPc \notin {"filter", "upsert"} =>
       tsKept = <<>> /\ \A c \in tsPending : Unflushed(c)
  /\ tsPc = "upsert" => tsBatch = <<>>
  /\ tsPc = "act" => tsTask.op \in {"content", "stamp", "delete"}
  /\ tsPc = "act" /\ tsTask.op \in {"content", "delete"} => tsBatch = <<>>
  /\ tsPc = "act" /\ tsTask.op = "stamp" => tsTask.doc \notin tsPending
  /\ tsPc = "patch" => tsBatch = <<>>

BatchInv == TSTypeOK /\ PendingInv

LEMMA InSeqSend ==
  ASSUME NEW S, NEW s \in Seq(S), NEW x \in S, NEW y
  PROVE  InSeq(y, Append(s, x)) <=> y = x \/ InSeq(y, s)
<1>1. /\ DOMAIN Append(s, x) = 1..(Len(s) + 1) /\ DOMAIN s = 1..Len(s) /\ Len(s) \in Nat
      /\ \A i \in 1..Len(s) : Append(s, x)[i] = s[i]
      /\ Append(s, x)[Len(s) + 1] = x
  <2>1. Append(s, x) \in Seq(S)
    BY SendAppends
  <2> QED
    BY <2>1, LenProperties, AppendProperties
<1> QED
  BY <1>1 DEF InSeq

LEMMA InSeqReceive ==
  ASSUME NEW S, NEW s \in Seq(S), s # <<>>, NEW y
  PROVE  InSeq(y, s) <=> y = Head(s) \/ InSeq(y, Tail(s))
<1>1. /\ DOMAIN s = 1..Len(s) /\ Len(s) \in Nat \ {0} /\ Head(s) = s[1]
      /\ DOMAIN Tail(s) = 1..(Len(s) - 1)
      /\ \A i \in 1..(Len(s) - 1) : Tail(s)[i] = s[i + 1]
  <2>1. Tail(s) \in Seq(S) /\ Len(Tail(s)) = Len(s) - 1
    BY HeadTailProperties
  <2> QED
    BY <2>1, LenProperties, EmptySeq, HeadTailProperties
<1>2. ASSUME InSeq(y, s), y # Head(s)
      PROVE  InSeq(y, Tail(s))
  <2>1. PICK i \in 1..Len(s) : s[i] = y
    BY <1>1, <1>2 DEF InSeq
  <2>2. i - 1 \in 1..(Len(s) - 1) /\ Tail(s)[i - 1] = y
    BY <1>1, <1>2, <2>1
  <2> QED
    BY <1>1, <2>2 DEF InSeq
<1>3. ASSUME InSeq(y, Tail(s))
      PROVE  InSeq(y, s)
  <2>1. PICK i \in 1..(Len(s) - 1) : Tail(s)[i] = y
    BY <1>1, <1>3 DEF InSeq
  <2>2. i + 1 \in 1..Len(s) /\ s[i + 1] = y
    BY <1>1, <2>1
  <2> QED
    BY <1>1, <2>2 DEF InSeq
<1>4. ASSUME y = Head(s)
      PROVE  InSeq(y, s)
  BY <1>1, <1>4 DEF InSeq
<1> QED
  BY <1>2, <1>3, <1>4

LEMMA InSeqEmpty == \A y : ~ InSeq(y, <<>>)
  BY DEF InSeq

(* The end of a flush leaves nothing behind. *)
LEMMA FlushedPending ==
  ASSUME TSTypeOK, tsBatch = <<>>, TSFlushed, UNCHANGED tsBatch
  PROVE  PendingInv'
<1>1. /\ tsKept' = <<>> /\ tsBatch' = <<>> /\ tsPending' = {}
      /\ tsPc' \in {"idle", "act"}
      /\ tsPc' = "act" => tsTask' = tsTask /\ tsTask.op \in {"content", "stamp", "delete"}
  BY DEF TSFlushed
<1>2. \A c \in Coord : ~ Unflushed(c)'
  BY <1>1, InSeqEmpty DEF Unflushed
<1> QED
  BY <1>1, <1>2 DEF PendingInv

LEMMA PendingRun ==
  ASSUME BatchInv, TSRun
  PROVE  PendingInv'
<1> USE DEF BatchInv
<1>1. CASE TSTake
  <2> DEFINE t == Head(tsCh)
  <2>1. t \in Task /\ tsKept = <<>> /\ tsKept' = <<>> /\ tsBatch \in Seq(AmbEvent)
    BY <1>1, ReceiveTakesHead DEF TSTake, PendingInv, TSTypeOK
  <2>2. tsPc' \in {"idle", "filter", "act"}
    BY <1>1 DEF TSTake
  <2>3. CASE t.op \in {"event", "content"}
    <3>1. t.ev \in AmbEvent /\ t.ev \in Event /\ coordOf[t.ev] \in Coord
      BY <2>1, <2>3, TaskKinds, AmbEventCoord
    <3>2. tsBatch' = Append(tsBatch, t.ev) /\ tsPending' = tsPending \cup {coordOf[t.ev]}
      BY <1>1, <2>3 DEF TSTake
    <3>3. \A e : InSeq(e, tsBatch') <=> e = t.ev \/ InSeq(e, tsBatch)
      BY <2>1, <3>1, <3>2, InSeqSend
    <3>4. \A c \in Coord : Unflushed(c)' <=> c = coordOf[t.ev] \/ Unflushed(c)
      BY <2>1, <3>1, <3>3, InSeqEmpty DEF Unflushed
    <3>5. \A c \in Coord : c \in tsPending <=> Unflushed(c)
      BY <1>1 DEF TSTake, PendingInv, TSTypeOK
    <3>6. tsPc' # "act"
      BY <1>1, <2>3 DEF TSTake, FlushesFirst
    <3>7. tsPending \in SUBSET Coord
      BY DEF TSTypeOK
    <3> QED
      BY <2>1, <2>2, <3>1, <3>2, <3>4, <3>5, <3>6, <3>7 DEF PendingInv
  <2>4. CASE t.op \in {"stamp", "delete"}
    <3>1. UNCHANGED <<tsBatch, tsKept, tsPending>>
      BY <1>1, <2>4 DEF TSTake
    <3>2. \A c \in Coord : Unflushed(c)' <=> Unflushed(c)
      BY <3>1 DEF Unflushed
    <3>3. tsPc' = "act" => tsTask'.op = "stamp" /\ tsTask'.doc \notin tsPending
      BY <1>1, <2>4 DEF TSTake, FlushesFirst
    <3>4. tsPending \in SUBSET Coord /\ \A c \in Coord : c \in tsPending <=> Unflushed(c)
      BY <1>1 DEF TSTake, PendingInv, TSTypeOK
    <3> QED
      BY <2>1, <2>2, <3>1, <3>2, <3>3, <3>4 DEF PendingInv
  <2> QED
    BY <2>1, <2>3, <2>4, TaskKinds
<1>2. CASE TSTick \/ TSFinalFlush
  <2>1. UNCHANGED <<tsBatch, tsKept, tsPending>> /\ tsPc' = "filter"
    BY <1>2 DEF TSTick, TSFinalFlush
  <2> QED
    BY <2>1 DEF PendingInv, Unflushed
<1>3. CASE TSFilter
  <2>1. /\ tsBatch \in Seq(AmbEvent) /\ tsBatch # <<>> /\ tsKept \in Seq(AmbEvent)
        /\ Head(tsBatch) \in AmbEvent
        /\ tsBatch' = Tail(tsBatch) /\ UNCHANGED tsPending /\ tsPc' = "filter"
    BY <1>3, ReceiveTakesHead DEF TSFilter, TSTypeOK
  <2>2. tsKept' = tsKept \/ tsKept' = Append(tsKept, Head(tsBatch))
    BY <1>3 DEF TSFilter
  <2>3. \A e : InSeq(e, tsBatch') => InSeq(e, tsBatch)
    BY <2>1, InSeqReceive
  <2>4. \A e : InSeq(e, tsKept') => InSeq(e, tsKept) \/ InSeq(e, tsBatch)
    <3>1. \A e : InSeq(e, Append(tsKept, Head(tsBatch))) <=> e = Head(tsBatch) \/ InSeq(e, tsKept)
      BY <2>1, InSeqSend
    <3>2. InSeq(Head(tsBatch), tsBatch)
      BY <2>1, InSeqReceive
    <3> QED
      BY <2>2, <3>1, <3>2
  <2>5. \A c \in Coord : Unflushed(c)' => Unflushed(c)
    BY <2>3, <2>4 DEF Unflushed
  <2> QED
    BY <2>1, <2>5 DEF PendingInv
<1>4. CASE TSFiltered
  <2>1. tsBatch = <<>> /\ UNCHANGED tsBatch
    BY <1>4 DEF TSFiltered
  <2>2. CASE tsKept = <<>>
    BY <1>4, <2>1, <2>2, FlushedPending DEF TSFiltered
  <2>3. CASE tsKept # <<>>
    <3>1. tsPc' = "upsert" /\ UNCHANGED <<tsKept, tsPending>>
      BY <1>4, <2>3 DEF TSFiltered
    <3> QED
      BY <2>1, <3>1 DEF PendingInv, Unflushed
  <2> QED
    BY <2>2, <2>3
<1>5. CASE TSUpsert
  BY <1>5, FlushedPending DEF TSUpsert, PendingInv
<1>6. CASE TSDelete \/ TSStamp \/ TSPatch \/ TSRecheck
  <2>1. /\ UNCHANGED <<tsBatch, tsKept, tsPending>> /\ tsPc \in {"act", "patch"}
        /\ tsPc' = "idle" \/ (tsPc' = "patch" /\ tsPc = "act" /\ tsTask.op = "content")
    BY <1>6 DEF TSDelete, TSStamp, TSPatch, TSRecheck, TSReturn
  <2> QED
    BY <2>1 DEF PendingInv, Unflushed
<1>7. CASE TSDrain \/ TSAbandon \/ TSExpire
  BY <1>7 DEF TSDrain, TSAbandon, TSExpire, tsWorkerVars, PendingInv, Unflushed
<1> QED
  BY <1>1, <1>2, <1>3, <1>4, <1>5, <1>6, <1>7 DEF TSRun, TSProcess, TSShutdown

LEMMA BatchInvHolds == TSSafeSpec => []BatchInv
<1>1. GateInit /\ TSInit => BatchInv
  <2> SUFFICES ASSUME TSInit PROVE BatchInv
    OBVIOUS
  <2>1. tsPc = "idle" /\ tsBatch = <<>> /\ tsKept = <<>> /\ tsPending = {}
    BY DEF TSInit, TSFresh
  <2> QED
    BY <2>1, TSInitType, InSeqEmpty DEF BatchInv, PendingInv, Unflushed
<1>2. BatchInv /\ [TSNext]_TSBufferVars => BatchInv'
  <2> SUFFICES ASSUME BatchInv, [TSNext]_TSBufferVars PROVE BatchInv'
    OBVIOUS
  <2>1. TSTypeOK'
    BY TSStepType DEF BatchInv
  <2>2. CASE TSRun
    BY <2>1, <2>2, PendingRun DEF BatchInv
  <2>3. CASE ~ TSRun
    <3>1. UNCHANGED tsWorkerVars
      BY <2>3 DEF TSNext, TSEnv, TSQueue, TSSend, TSCloseFlag, TSCloseDone, TSPurge,
        TSBufferVars, tsVars
    <3> QED
      BY <2>1, <3>1 DEF tsWorkerVars, BatchInv, PendingInv, Unflushed
  <2> QED
    BY <2>2, <2>3
<1> QED
  BY <1>1, <1>2, PTL DEF TSSafeSpec, TSBufferInit

(* pendingDocIDs names exactly the documents waiting in the batch. *)
THEOREM PendingIsExact == TSSafeSpec => []PendingExact
<1>1. BatchInv => PendingExact
  BY DEF BatchInv, PendingInv, PendingExact
<1> QED
  BY <1>1, BatchInvHolds, PTL

(* No patch is sent that a projection waiting in the worker overwrites. *)
THEOREM PatchesStay == TSSafeSpec => []PatchNotClobbered
<1>1. BatchInv => PatchNotClobbered
  <2> SUFFICES ASSUME BatchInv PROVE PatchNotClobbered
    OBVIOUS
  <2>1. ASSUME tsPc = "act", tsTask.op = "stamp"
        PROVE  ~ Unflushed(tsTask.doc)
    <3>1. tsTask \in Task
      BY <2>1, NoTaskNotTask DEF BatchInv, TSTypeOK
    <3>2. tsTask.doc \in Coord
      BY <2>1, <3>1, TaskKinds DEF AmbDoc
    <3> QED
      BY <2>1, <3>2 DEF BatchInv, PendingInv
  <2>2. ASSUME tsPc = "patch"
        PROVE  ~ Unflushed(coordOf[tsTask.ev])
    BY <2>2, InSeqEmpty DEF BatchInv, PendingInv, Unflushed
  <2> QED
    BY <2>1, <2>2 DEF PatchNotClobbered
<1> QED
  BY <1>1, BatchInvHolds, PTL

-----------------------------------------------------------------------------
(* Induction over numbers, without an operator for a parameter.            *)

LEMMA LeastNat ==
  ASSUME NEW T \in SUBSET Nat, T # {}
  PROVE  \E n \in T : \A m \in T : n <= m
<1> DEFINE Lower == {ss \in Nat \X Nat : ss[1] < ss[2]}
<1>1. OpToRel(<, Nat) = Lower
  BY Zenon DEF OpToRel
<1>2. IsWellFoundedOn(Lower, Nat)
  BY <1>1, NatLessThanWellFounded, Zenon
<1> HIDE DEF Lower
<1>3. PICK n \in T : \A m \in T : ~ (<<m, n>> \in Lower)
  BY <1>2, WFMin
<1>4. ASSUME NEW m \in T PROVE n <= m
  <2>1. m \in Nat /\ n \in Nat /\ <<m, n>> \in Nat \X Nat
    OBVIOUS
  <2>2. ~ (m < n)
    BY <1>3, <2>1 DEF Lower
  <2> QED
    BY <2>1, <2>2
<1> QED
  BY <1>4

(* Induction, over a set of numbers.                                       *)
LEMMA InductionOnNat ==
  ASSUME NEW T, 0 \in T, \A n \in Nat : n \in T => n + 1 \in T
  PROVE  \A n \in Nat : n \in T
<1> SUFFICES ASSUME NEW k \in Nat, k \notin T PROVE FALSE
  OBVIOUS
<1>1. PICK n \in Nat \ T : \A m \in Nat \ T : n <= m
  BY LeastNat
<1>2. n - 1 \in Nat /\ n - 1 \notin T
  BY <1>1
<1> QED
  BY <1>1, <1>2

(* Asked is defined by a recursive function: it exists and is unique.      *)
IsAsked(f, s, c, m) == f = [n \in 0 .. m |-> IF n = 0 THEN <<>> ELSE f[n - 1] \o Writes(s[n], c)]

LEMMA AskedValues ==
  ASSUME NEW s, NEW c, NEW m \in Nat, NEW f, IsAsked(f, s, c, m)
  PROVE  /\ f[0] = <<>>
         /\ \A n \in 0 .. m : n # 0 => f[n] = f[n - 1] \o Writes(s[n], c)
<1>1. \A n \in 0 .. m : f[n] = IF n = 0 THEN <<>> ELSE f[n - 1] \o Writes(s[n], c)
  BY Zenon DEF IsAsked
<1>2. 0 \in 0 .. m
  OBVIOUS
<1> QED
  BY <1>1, <1>2, Zenon

LEMMA AskedFcnExists ==
  ASSUME NEW s, NEW c
  PROVE  \A m \in Nat : \E f : IsAsked(f, s, c, m)
<1> DEFINE T == {m \in Nat : \E f : IsAsked(f, s, c, m)}
<1>1. 0 \in T
  <2>1. IsAsked([n \in 0 .. 0 |-> <<>>], s, c, 0)
    BY DEF IsAsked
  <2> QED
    BY <2>1
<1>2. ASSUME NEW m \in Nat, m \in T PROVE m + 1 \in T
  <2>1. PICK f : IsAsked(f, s, c, m)
    BY <1>2
  <2> DEFINE g == [n \in 0 .. (m + 1) |-> IF n = 0 THEN <<>> ELSE f[n - 1] \o Writes(s[n], c)]
  <2>2. \A n \in 0 .. m : g[n] = f[n]
    <3> SUFFICES ASSUME NEW n \in 0 .. m PROVE g[n] = f[n]
      OBVIOUS
    <3>1. n \in 0 .. (m + 1)
      OBVIOUS
    <3>2. g[n] = IF n = 0 THEN <<>> ELSE f[n - 1] \o Writes(s[n], c)
      BY <3>1, Zenon
    <3> HIDE DEF g
    <3>3. f[0] = <<>> /\ (n # 0 => f[n] = f[n - 1] \o Writes(s[n], c))
      BY <2>1, AskedValues, Zenon
    <3> QED
      BY <3>2, <3>3, Zenon
  <2>3. ASSUME NEW n \in 0 .. (m + 1), n # 0 PROVE g[n] = g[n - 1] \o Writes(s[n], c)
    <3>1. g[n] = f[n - 1] \o Writes(s[n], c)
      BY <2>3, Zenon
    <3>2. n - 1 \in 0 .. m
      BY <2>3
    <3> HIDE DEF g
    <3> QED
      BY <2>2, <3>1, <3>2
  <2>4. g = [n \in 0 .. (m + 1) |-> g[n]] /\ g[0] = <<>>
    OBVIOUS
  <2> HIDE DEF g
  <2>5. IsAsked(g, s, c, m + 1)
    BY <2>3, <2>4 DEF IsAsked
  <2>6. \E h : IsAsked(h, s, c, m + 1)
    BY <2>5, Zenon
  <2> QED
    BY <2>6
<1> HIDE DEF T
<1>3. \A m \in Nat : m \in T
  BY <1>1, <1>2, InductionOnNat
<1> QED
  BY <1>3 DEF T

LEMMA AskedIs ==
  ASSUME NEW s, NEW c, Len(s) \in Nat
  PROVE  \E f : IsAsked(f, s, c, Len(s)) /\ Asked(s, c) = f[Len(s)]
<1> DEFINE h == CHOOSE f : IsAsked(f, s, c, Len(s))
<1>1. \E f : IsAsked(f, s, c, Len(s))
  BY AskedFcnExists, Zenon
<1>2. IsAsked(h, s, c, Len(s))
  BY <1>1, Zenon
<1>3. Asked(s, c) = h[Len(s)]
  BY Zenon DEF Asked, IsAsked
<1> QED
  BY <1>2, <1>3

LEMMA AskedEmpty == \A c : Asked(<<>>, c) = <<>>
<1> SUFFICES ASSUME NEW c PROVE Asked(<<>>, c) = <<>>
  OBVIOUS
<1>1. Len(<<>>) = 0
  OBVIOUS
<1>2. PICK f : IsAsked(f, <<>>, c, 0) /\ Asked(<<>>, c) = f[0]
  BY <1>1, AskedIs
<1>3. 0 \in Nat /\ IsAsked(f, <<>>, c, 0)
  BY <1>2
<1>4. f[0] = <<>>
  BY <1>3, AskedValues, Zenon
<1> QED
  BY <1>2, <1>4

(* What is queued last is asked for last.                                  *)
LEMMA AskedAppend ==
  ASSUME NEW S, NEW s \in Seq(S), NEW t \in S, NEW c
  PROVE  Asked(Append(s, t), c) = Asked(s, c) \o Writes(t, c)
<1> DEFINE r == Append(s, t)
           N == Len(s)
<1>1. /\ N \in Nat /\ Len(r) = N + 1 /\ r[N + 1] = t
      /\ \A i \in 1 .. N : r[i] = s[i]
  OBVIOUS
<1> HIDE DEF r
<1>2. PICK f : IsAsked(f, s, c, N) /\ Asked(s, c) = f[N]
  BY <1>1, AskedIs
<1>3. PICK M \in Nat : M = N + 1 /\ M # 0 /\ M - 1 = N /\ M = Len(r)
  BY <1>1
<1>4. PICK g : IsAsked(g, r, c, M) /\ Asked(r, c) = g[M]
  BY <1>3, AskedIs
<1> HIDE DEF N
<1>5. f[0] = <<>> /\ \A n \in 0 .. N : n # 0 => f[n] = f[n - 1] \o Writes(s[n], c)
  <2>1. N \in Nat /\ IsAsked(f, s, c, N)
    BY <1>1, <1>2
  <2> QED
    BY <2>1, AskedValues, Zenon
<1>6. g[0] = <<>> /\ \A n \in 0 .. M : n # 0 => g[n] = g[n - 1] \o Writes(r[n], c)
  <2>1. M \in Nat /\ IsAsked(g, r, c, M)
    BY <1>3, <1>4
  <2> HIDE DEF r
  <2> QED
    BY <2>1, AskedValues, Zenon
<1> DEFINE T == {n \in Nat : n <= N => f[n] = g[n]}
<1>7. 0 \in T
  BY <1>5, <1>6
<1>8. ASSUME NEW n \in Nat, n \in T PROVE n + 1 \in T
  <2> SUFFICES ASSUME n + 1 <= N PROVE f[n + 1] = g[n + 1]
    OBVIOUS
  <2>1. PICK k \in 1 .. N : k = n + 1 /\ k - 1 = n /\ k # 0
    BY <1>1
  <2>2. f[n] = g[n]
    BY <1>1, <1>8
  <2>3. k \in 0 .. N /\ k \in 0 .. M /\ r[k] = s[k]
    BY <1>1, <1>3, <2>1
  <2>4. f[k] = f[k - 1] \o Writes(s[k], c) /\ g[k] = g[k - 1] \o Writes(r[k], c)
    BY <1>5, <1>6, <2>1, <2>3, Zenon
  <2> QED
    BY <2>1, <2>2, <2>3, <2>4, Zenon
<1> HIDE DEF T
<1>9. f[N] = g[N]
  <2>1. N \in T
    BY <1>1, <1>7, <1>8, InductionOnNat
  <2> QED
    BY <1>1, <2>1 DEF T
<1>10. g[M] = g[N] \o Writes(t, c)
  <2>1. M \in 0 .. M /\ r[M] = t
    BY <1>1, <1>3
  <2>2. g[M] = g[M - 1] \o Writes(r[M], c)
    BY <1>3, <1>6, <2>1, Zenon
  <2> QED
    BY <1>3, <2>1, <2>2, Zenon
<1> QED
  BY <1>2, <1>4, <1>9, <1>10, Zenon DEF r

LEMMA FrontAndLast ==
  ASSUME NEW S, NEW s \in Seq(S), s # <<>>
  PROVE  \E r \in Seq(S), x \in S : s = Append(r, x) /\ Len(r) = Len(s) - 1
<1> DEFINE r == SubSeq(s, 1, Len(s) - 1)
<1>1. Len(s) \in Nat /\ Len(s) # 0 /\ s[Len(s)] \in S /\ \A i \in 1 .. Len(s) : s[i] \in S
  OBVIOUS
<1>2. r \in Seq(S) /\ Len(r) = Len(s) - 1 /\ \A i \in 1 .. Len(s) - 1 : r[i] = s[i]
  <2>1. PICK n \in Nat : n = Len(s) - 1
    BY <1>1
  <2>2. \A i \in 1 .. n : s[i] \in S
    BY <1>1, <2>1
  <2>3. /\ SubSeq(s, 1, n) \in Seq(S)
        /\ Len(SubSeq(s, 1, n)) = IF 1 <= n THEN n - 1 + 1 ELSE 0
        /\ \A i \in 1 .. n - 1 + 1 : SubSeq(s, 1, n)[i] = s[1 + i - 1]
    BY <2>2, SubSeqProperties
  <2>4. \A i \in 1 .. n : i \in 1 .. n - 1 + 1 /\ 1 + i - 1 = i
    OBVIOUS
  <2>5. r = SubSeq(s, 1, n)
    BY <2>1
  <2> HIDE DEF r
  <2> QED
    BY <2>1, <2>3, <2>4, <2>5
<1> HIDE DEF r
<1>3. s = Append(r, s[Len(s)])
  BY <1>1, <1>2
<1> QED
  BY <1>1, <1>2, <1>3

LEMMA WritesType ==
  ASSUME NEW t \in Task, NEW c
  PROVE  Writes(t, c) \in Seq(Task)
<1>1. t.op = "content" => EventTask(t.ev) \in Task
  BY TaskKinds DEF Task
<1> QED
  BY <1>1 DEF Writes

LEMMA TasksRegroup == \A a, b, d \in Seq(Task) : (a \o b) \o d = a \o (b \o d)
  BY ConcatAssociative

LEMMA TasksConcat ==
  \A p, q \in Seq(Task) :
    /\ p \o q \in Seq(Task) /\ Len(p \o q) = Len(p) + Len(q)
    /\ \A i \in 1 .. Len(p) + Len(q) : (p \o q)[i] = IF i <= Len(p) THEN p[i] ELSE q[i - Len(p)]
  BY ConcatProperties

LEMMA TasksClosed == \A a, b \in Seq(Task) : a \o b \in Seq(Task)
  BY ConcatProperties

(* The provers do better with concatenation under a name of its own.       *)
Then(a, b) == a \o b

LEMMA ThenRegroup ==
  \A a, b, d \in Seq(Task) : Then(a, b) \in Seq(Task) /\ Then(Then(a, b), d) = Then(a, Then(b, d))
  BY TasksRegroup, TasksClosed DEF Then

(* What is asked of c by two lists of tasks, one after the other.          *)
LEMMA AskedConcat ==
  ASSUME NEW s \in Seq(Task), NEW t \in Seq(Task), NEW c
  PROVE  /\ Asked(s, c) \in Seq(Task)
         /\ Asked(s \o t, c) = Asked(s, c) \o Asked(t, c)
<1> DEFINE T == {n \in Nat : \A u \in Seq(Task) : Len(u) = n =>
                   Asked(u, c) \in Seq(Task) /\ \A q \in Seq(Task) : Asked(q, c) \in Seq(Task) => Asked(q \o u, c) = Asked(q, c) \o Asked(u, c)}
<1>1. 0 \in T
  <2> SUFFICES ASSUME NEW u \in Seq(Task), Len(u) = 0
               PROVE  /\ Asked(u, c) \in Seq(Task)
                      /\ \A q \in Seq(Task) : Asked(q, c) \in Seq(Task) => Asked(q \o u, c) = Asked(q, c) \o Asked(u, c)
    OBVIOUS
  <2>1. u = <<>>
    OBVIOUS
  <2> QED
    BY <2>1, AskedEmpty, ConcatEmptySeq
<1>2. ASSUME NEW n \in Nat, n \in T PROVE n + 1 \in T
  <2> SUFFICES ASSUME NEW u \in Seq(Task), Len(u) = n + 1
               PROVE  /\ Asked(u, c) \in Seq(Task)
                      /\ \A q \in Seq(Task) : Asked(q, c) \in Seq(Task) => Asked(q \o u, c) = Asked(q, c) \o Asked(u, c)
    OBVIOUS
  <2>1. PICK r \in Seq(Task), x \in Task : u = Append(r, x) /\ Len(r) = n
    <3>1. u # <<>> /\ Len(u) - 1 = n
      OBVIOUS
    <3> QED
      BY <3>1, FrontAndLast
  <2>2. Asked(r, c) \in Seq(Task) /\ Asked(u, c) = Asked(r, c) \o Writes(x, c)
    BY <1>2, <2>1, AskedAppend
  <2>3. Writes(x, c) \in Seq(Task)
    BY WritesType
  <2>4. ASSUME NEW q \in Seq(Task), Asked(q, c) \in Seq(Task)
        PROVE  Asked(q \o u, c) = Asked(q, c) \o Asked(u, c)
    <3>1. q \o u = Append(q \o r, x) /\ q \o r \in Seq(Task)
      BY <2>1
    <3>2. Asked(q \o u, c) = Asked(q \o r, c) \o Writes(x, c)
      <4>1. PICK qr \in Seq(Task) : qr = q \o r
        BY <3>1
      <4>2. Asked(Append(qr, x), c) = Asked(qr, c) \o Writes(x, c)
        BY AskedAppend
      <4> QED
        BY <3>1, <4>1, <4>2
    <3>3. Asked(q \o r, c) = Asked(q, c) \o Asked(r, c)
      <4>1. \A v \in Seq(Task) : Len(v) = n => \A z \in Seq(Task) : Asked(z, c) \in Seq(Task) => Asked(z \o v, c) = Asked(z, c) \o Asked(v, c)
        BY <1>2
      <4> QED
        BY <2>1, <2>4, <4>1, Zenon
    <3>4. (Asked(q, c) \o Asked(r, c)) \o Writes(x, c) = Asked(q, c) \o (Asked(r, c) \o Writes(x, c))
      <4>1. PICK a1, a2, a3 \in Seq(Task) : a1 = Asked(q, c) /\ a2 = Asked(r, c) /\ a3 = Writes(x, c)
        BY <2>2, <2>3, <2>4
      <4>2. Then(Then(a1, a2), a3) = Then(a1, Then(a2, a3))
        BY ThenRegroup
      <4> QED
        BY <4>1, <4>2 DEF Then
    <3> QED
      BY <2>2, <3>2, <3>3, <3>4
  <2>5. Asked(u, c) \in Seq(Task)
    BY <2>2, <2>3, ConcatProperties
  <2> QED
    BY <2>4, <2>5
<1> HIDE DEF T
<1>3. \A n \in Nat : n \in T
  BY <1>1, <1>2, InductionOnNat
<1>4. Len(s) \in T /\ Len(t) \in T
  BY <1>3
<1> QED
  BY <1>4 DEF T

LEMMA AskedOne == ASSUME NEW t \in Task, NEW c PROVE Asked(<<t>>, c) = Writes(t, c)
<1>1. Append(<<>>, t) = <<t>> /\ <<>> \in Seq(Task)
  OBVIOUS
<1>2. Asked(Append(<<>>, t), c) = Asked(<<>>, c) \o Writes(t, c)
  BY <1>1, AskedAppend
<1> QED
  BY <1>1, <1>2, AskedEmpty, WritesType, ConcatEmptySeq

-----------------------------------------------------------------------------
(* Steps of a document's log.                                              *)

LEMMA StepSame ==
  ASSUME NEW l \in Seq(Task), NEW d
  PROVE  PerDocument!Step(l, l, d, d)
<1>1. Len(l) <= Len(l) /\ SubSeq(l, 1, Len(l)) = l
  BY SubSeqFull, LenProperties
<1> QED
  BY <1>1 DEF PerDocument!Step, PerDocument!Ask

LEMMA StepAsk ==
  ASSUME NEW l \in Seq(Task), NEW u \in Seq(Task), NEW d
  PROVE  PerDocument!Step(l, l \o u, d, d)
<1>1. Len(l) <= Len(l \o u) /\ SubSeq(l \o u, 1, Len(l)) = l
  OBVIOUS
<1> QED
  BY <1>1 DEF PerDocument!Step, PerDocument!Ask

LEMMA StepDrop ==
  ASSUME NEW l \in Seq(Task), NEW u \in Seq(Task), NEW d
  PROVE  PerDocument!Step(l \o u, l, d, d)
<1>1. Len(l) \in 0 .. Len(l \o u) /\ l = SubSeq(l \o u, 1, Len(l))
  OBVIOUS
<1> QED
  BY <1>1 DEF PerDocument!Step, PerDocument!Lose

LEMMA StepRemove ==
  ASSUME NEW l \in Seq(Task), NEW x \in Task, NEW u \in Seq(Task), NEW d
  PROVE  PerDocument!Step(l \o <<x>> \o u, l \o u, d, d)
<1> DEFINE m == l \o <<x>> \o u
           i == Len(l) + 1
<1>1. i \in 1 .. Len(m) /\ i \in Int /\ i - 1 = Len(l) /\ Len(m) = Len(l) + 1 + Len(u) /\ Len(u) \in Nat
  OBVIOUS
<1>2. SubSeq(m, 1, i - 1) = l
  OBVIOUS
<1>3. SubSeq(m, i + 1, Len(m)) = u
  OBVIOUS
<1>4. PerDocument!RemoveAt(m, i) = l \o u
  BY <1>2, <1>3 DEF PerDocument!RemoveAt
<1> HIDE DEF m, i
<1>5. PerDocument!Lose(m, l \o u, d, d)
  BY <1>1, <1>4 DEF PerDocument!Lose
<1> QED
  BY <1>5 DEF PerDocument!Step, m

(* A projection lost from a batch, whatever is due behind it.              *)
LEMMA StepRemoveMiddle ==
  ASSUME NEW k \in Seq(Task), NEW x \in Task, NEW b \in Seq(Task), NEW o \in Seq(Task), NEW r \in Seq(Task), NEW d
  PROVE  PerDocument!Step(((k \o (<<x>> \o b)) \o o) \o r, ((k \o b) \o o) \o r, d, d)
<1>1. PICK y \in Seq(Task) : y = <<x>>
  <2>1. <<x>> \in Seq(Task)
    OBVIOUS
  <2> QED
    BY <2>1, Zenon
<1>2. PICK v \in Seq(Task) : v = Then(b, Then(o, r))
  BY ThenRegroup
<1>3. Then(Then(Then(k, b), o), r) = Then(k, v)
  BY <1>2, ThenRegroup
<1>4. Then(Then(Then(k, Then(y, b)), o), r) = Then(Then(k, y), v)
  BY <1>2, ThenRegroup
<1>5. PerDocument!Step(Then(Then(k, y), v), Then(k, v), d, d)
  BY <1>1, StepRemove DEF Then
<1> QED
  BY <1>1, <1>3, <1>4, <1>5 DEF Then

LEMMA StepFirst ==
  ASSUME NEW x \in Task, NEW u \in Seq(Task), NEW d, NEW e, e = d \/ e = PerDocument!Effect(d, x)
  PROVE  PerDocument!Step(<<x>> \o u, u, d, e)
<1> DEFINE l == <<x>> \o u
<1>1. 1 \in 1 .. Len(l) /\ l[1] = x /\ u = SubSeq(l, 1 + 1, Len(l))
  OBVIOUS
<1> HIDE DEF l
<1>2. PerDocument!Perform(l, u, d, e)
  BY <1>1 DEF PerDocument!Perform
<1> QED
  BY <1>2 DEF PerDocument!Step, l

(* A batch of projections, of which any may be the last to get through.    *)
LEMMA StepBatch ==
  ASSUME NEW l \in Seq(Task), NEW u \in Seq(Task), NEW d, NEW e,
         \A i \in 1 .. Len(l) : l[i].op = "event",
         e = d \/ \E i \in 1 .. Len(l) : e = PerDocument!Effect(d, l[i])
  PROVE  PerDocument!Step(l \o u, u, d, e)
<1> DEFINE m == l \o u
           n == Len(l)
<1>1. CASE l = <<>>
  BY <1>1, StepSame, ConcatEmptySeq
<1>2. CASE l # <<>>
  <2>1. n \in 1 .. Len(m) /\ u = SubSeq(m, n + 1, Len(m)) /\ \A i \in 1 .. n : m[i] = l[i]
    BY <1>2
  <2> HIDE DEF m, n
  <2>2. e = d \/ ((\A i \in 1 .. n : m[i].op = "event") /\ \E i \in 1 .. n : e = PerDocument!Effect(d, m[i]))
    BY <2>1 DEF n
  <2>3. PerDocument!Perform(m, u, d, e)
    BY <2>1, <2>2 DEF PerDocument!Perform
  <2> QED
    BY <2>3 DEF PerDocument!Step, m
<1> QED
  BY <1>1, <1>2

LEMMA StepDeletion == \A l, d : PerDocument!Step(l, l, d, NoDoc)
  BY DEF PerDocument!Step, PerDocument!Deletion, PerDocument!NoDoc, NoDoc

-----------------------------------------------------------------------------
(* What the worker holds for a document.                                   *)

Due(es, c) == Asked(Projections(es), c)

LEMMA ProjectionsAre ==
  ASSUME NEW gs \in Seq(AmbEvent)
  PROVE  /\ Projections(gs) \in Seq(Task) /\ Len(Projections(gs)) = Len(gs)
         /\ \A i \in 1 .. Len(gs) : Projections(gs)[i] = EventTask(gs[i])
<1>1. \A f \in AmbEvent : EventTask(f) \in Task
  BY DEF Task
<1>2. \A i \in 1 .. Len(gs) : gs[i] \in AmbEvent
  OBVIOUS
<1>3. Len(gs) \in Nat /\ DOMAIN gs = 1 .. Len(gs)
  OBVIOUS
<1> QED
  BY <1>1, <1>2, <1>3 DEF Projections

LEMMA ProjectionsType ==
  ASSUME NEW es \in Seq(AmbEvent), NEW fs \in Seq(AmbEvent)
  PROVE  /\ Projections(es) \in Seq(Task)
         /\ Projections(es \o fs) = Projections(es) \o Projections(fs)
         /\ Projections(<<>>) = <<>>
<1>2. \A gs \in Seq(AmbEvent) :
        /\ Projections(gs) \in Seq(Task) /\ Len(Projections(gs)) = Len(gs)
        /\ \A i \in 1 .. Len(gs) : Projections(gs)[i] = EventTask(gs[i])
  BY ProjectionsAre
<1>3. Projections(es \o fs) = Projections(es) \o Projections(fs)
  <2>1. es \o fs \in Seq(AmbEvent) /\ Len(es \o fs) = Len(es) + Len(fs) /\ Len(es) \in Nat /\ Len(fs) \in Nat
        /\ \A i \in 1 .. Len(es) + Len(fs) : (es \o fs)[i] = IF i <= Len(es) THEN es[i] ELSE fs[i - Len(es)]
    BY ConcatProperties, LenProperties
  <2> DEFINE p == Projections(es)
             q == Projections(fs)
             r == Projections(es \o fs)
  <2>2. p \in Seq(Task) /\ q \in Seq(Task) /\ r \in Seq(Task) /\ Len(p) = Len(es) /\ Len(q) = Len(fs)
        /\ Len(r) = Len(es) + Len(fs)
    BY <1>2, <2>1
  <2>3. \A i \in 1 .. Len(r) : r[i] = IF i <= Len(p) THEN p[i] ELSE q[i - Len(p)]
    <3> SUFFICES ASSUME NEW i \in 1 .. Len(es) + Len(fs)
                 PROVE  r[i] = IF i <= Len(es) THEN p[i] ELSE q[i - Len(es)]
      BY <2>2
    <3>1. r[i] = EventTask((es \o fs)[i])
      BY <1>2, <2>1
    <3>2. CASE i <= Len(es)
      <4>1. i \in 1 .. Len(es)
        BY <2>1, <3>2
      <4>2. p[i] = EventTask(es[i])
        BY <1>2, <4>1
      <4> QED
        BY <2>1, <3>1, <3>2, <4>2
    <3>3. CASE ~ (i <= Len(es))
      <4>1. i - Len(es) \in 1 .. Len(fs)
        BY <2>1, <3>3
      <4>2. q[i - Len(es)] = EventTask(fs[i - Len(es)])
        BY <1>2, <4>1
      <4> QED
        BY <2>1, <3>1, <3>3, <4>2
    <3> QED
      BY <3>2, <3>3
  <2> HIDE DEF p, q, r
  <2>4. p \o q \in Seq(Task) /\ Len(p \o q) = Len(r) /\ \A i \in 1 .. Len(r) : (p \o q)[i] = r[i]
    <3>1. /\ p \o q \in Seq(Task) /\ Len(p \o q) = Len(p) + Len(q)
          /\ \A i \in 1 .. Len(p) + Len(q) : (p \o q)[i] = IF i <= Len(p) THEN p[i] ELSE q[i - Len(p)]
      BY <2>2, TasksConcat
    <3>2. Len(r) = Len(p) + Len(q)
      BY <2>2
    <3> QED
      BY <2>3, <3>1, <3>2, Zenon
  <2>5. r = p \o q
    BY <2>2, <2>4, SeqEqual
  <2> QED
    BY <2>5 DEF p, q, r
<1>5. Projections(<<>>) = <<>>
  <2>1. <<>> \in Seq(AmbEvent) /\ Len(<<>>) = 0
    OBVIOUS
  <2>2. Projections(<<>>) \in Seq(Task) /\ Len(Projections(<<>>)) = 0
    BY <1>2, <2>1, Zenon
  <2> QED
    BY <2>2
<1> QED
  BY <1>2, <1>3, <1>5

LEMMA ProjectionsAppend ==
  ASSUME NEW es \in Seq(AmbEvent), NEW e \in AmbEvent
  PROVE  /\ EventTask(e) \in Task
         /\ Projections(Append(es, e)) = Append(Projections(es), EventTask(e))
<1>1. EventTask(e) \in Task
  BY DEF Task
<1>2. \A gs \in Seq(AmbEvent) :
        /\ Projections(gs) \in Seq(Task) /\ Len(Projections(gs)) = Len(gs)
        /\ \A i \in 1 .. Len(gs) : Projections(gs)[i] = EventTask(gs[i])
  BY ProjectionsAre
<1>4. Projections(Append(es, e)) = Append(Projections(es), EventTask(e))
  <2> DEFINE p == Projections(es)
             r == Projections(Append(es, e))
  <2>1. Append(es, e) \in Seq(AmbEvent) /\ Len(Append(es, e)) = Len(es) + 1 /\ Len(es) \in Nat
        /\ \A i \in 1 .. Len(es) + 1 : Append(es, e)[i] = IF i <= Len(es) THEN es[i] ELSE e
    OBVIOUS
  <2>2. p \in Seq(Task) /\ r \in Seq(Task) /\ Len(p) = Len(es) /\ Len(r) = Len(es) + 1 /\ EventTask(e) \in Task
    BY <1>1, <1>2, <2>1
  <2>3. \A i \in 1 .. Len(r) : r[i] = IF i <= Len(p) THEN p[i] ELSE EventTask(e)
    <3> SUFFICES ASSUME NEW i \in 1 .. Len(es) + 1
                 PROVE  r[i] = IF i <= Len(es) THEN p[i] ELSE EventTask(e)
      BY <2>2
    <3>1. r[i] = EventTask(Append(es, e)[i])
      BY <1>2, <2>1
    <3>2. i <= Len(es) => p[i] = EventTask(es[i])
      BY <1>2, <2>1
    <3> QED
      BY <2>1, <3>1, <3>2
  <2> HIDE DEF p, r
  <2>4. r = Append(p, EventTask(e))
    BY <2>1, <2>2, <2>3
  <2> QED
    BY <2>4 DEF p, r
<1> QED
  BY <1>1, <1>4

LEMMA DueType ==
  ASSUME NEW es \in Seq(AmbEvent), NEW fs \in Seq(AmbEvent), NEW c
  PROVE  /\ Due(<<>>, c) = <<>> /\ Due(es, c) \in Seq(Task)
         /\ Due(es \o fs, c) = Due(es, c) \o Due(fs, c)
<1>1. Projections(es) \in Seq(Task) /\ Projections(fs) \in Seq(Task)
  BY ProjectionsType
<1>2. Projections(es \o fs) = Projections(es) \o Projections(fs) /\ Projections(<<>>) = <<>>
  BY ProjectionsType
<1>3. /\ Asked(Projections(es), c) \in Seq(Task)
      /\ Asked(Projections(es) \o Projections(fs), c) = Asked(Projections(es), c) \o Asked(Projections(fs), c)
  BY <1>1, AskedConcat
<1> QED
  BY <1>2, <1>3, AskedEmpty DEF Due

LEMMA DueAppend ==
  ASSUME NEW es \in Seq(AmbEvent), NEW e \in AmbEvent, NEW c
  PROVE  Due(Append(es, e), c) = Due(es, c) \o Writes(EventTask(e), c)
<1>1. EventTask(e) \in Task /\ Projections(es) \in Seq(Task)
      /\ Projections(Append(es, e)) = Append(Projections(es), EventTask(e))
  BY ProjectionsAppend, ProjectionsType
<1> QED
  BY <1>1, AskedAppend DEF Due

LEMMA EventWrites ==
  ASSUME NEW e \in AmbEvent, NEW c
  PROVE  Writes(EventTask(e), c) = IF coordOf[e] = c THEN <<EventTask(e)>> ELSE <<>>
<1>1. EventTask(e).op = "event" /\ EventTask(e).ev = e /\ collection[coordOf[e]] = "amb"
  BY DEF EventTask, AmbEvent, IsAmb
<1> QED
  BY <1>1 DEF Writes, OnDoc

(* What is due for c is one projection per version of c.                   *)
DueIs(es, c) ==
  /\ \A j \in 1 .. Len(Due(es, c)) :
       \E i \in 1 .. Len(es) : coordOf[es[i]] = c /\ Due(es, c)[j] = EventTask(es[i])
  /\ \A i \in 1 .. Len(es) : coordOf[es[i]] = c =>
       \E j \in 1 .. Len(Due(es, c)) : Due(es, c)[j] = EventTask(es[i])

LEMMA DueByVersion == \A c : \A es \in Seq(AmbEvent) : DueIs(es, c)
<1> SUFFICES ASSUME NEW c PROVE \A es \in Seq(AmbEvent) : DueIs(es, c)
  OBVIOUS
<1> DEFINE T == {n \in Nat : \A es \in Seq(AmbEvent) : Len(es) = n => DueIs(es, c)}
<1>1. 0 \in T
  <2> SUFFICES ASSUME NEW es \in Seq(AmbEvent), Len(es) = 0 PROVE DueIs(es, c)
    OBVIOUS
  <2>1. es = <<>> /\ Projections(<<>>) = <<>>
    BY DEF Projections
  <2>2. Due(es, c) = <<>>
    BY <2>1, AskedEmpty DEF Due
  <2> QED
    BY <2>2 DEF DueIs
<1>2. ASSUME NEW n \in Nat, n \in T PROVE n + 1 \in T
  <2> SUFFICES ASSUME NEW es \in Seq(AmbEvent), Len(es) = n + 1 PROVE DueIs(es, c)
    OBVIOUS
  <2>1. PICK r \in Seq(AmbEvent), e \in AmbEvent : es = Append(r, e) /\ Len(r) = n
    <3>1. es # <<>> /\ Len(es) - 1 = n
      OBVIOUS
    <3> QED
      BY <3>1, FrontAndLast
  <2>2. DueIs(r, c)
    BY <1>2, <2>1
  <2> DEFINE d == Due(r, c)
             w == Due(es, c)
  <2>3. d \in Seq(Task) /\ w = d \o (IF coordOf[e] = c THEN <<EventTask(e)>> ELSE <<>>) /\ EventTask(e) \in Task
    <3>1. Due(r, c) \in Seq(Task) /\ EventTask(e) \in Task
      BY DueType, ProjectionsAppend
    <3>2. Due(Append(r, e), c) = Due(r, c) \o Writes(EventTask(e), c)
      BY DueAppend
    <3> QED
      BY <2>1, <3>1, <3>2, EventWrites
  <2>4. \A i \in 1 .. n : es[i] = r[i] /\ i \in 1 .. (n + 1)
    BY <2>1
  <2>5. es[n + 1] = e /\ n + 1 \in 1 .. (n + 1)
    BY <2>1
  <2>6. /\ \A j \in 1 .. Len(d) : \E i \in 1 .. n : coordOf[r[i]] = c /\ d[j] = EventTask(r[i])
        /\ \A i \in 1 .. n : coordOf[r[i]] = c => \E j \in 1 .. Len(d) : d[j] = EventTask(r[i])
    BY <2>1, <2>2 DEF DueIs
  <2> HIDE DEF d, w
  <2>7. CASE coordOf[e] = c
    <3>1. Len(d) \in Nat /\ Len(w) = Len(d) + 1 /\ w[Len(d) + 1] = EventTask(e) /\ \A j \in 1 .. Len(d) : w[j] = d[j]
      BY <2>3, <2>7
    <3>2. ASSUME NEW j \in 1 .. Len(w)
          PROVE  \E i \in 1 .. (n + 1) : coordOf[es[i]] = c /\ w[j] = EventTask(es[i])
      <4>1. CASE j = Len(d) + 1
        BY <2>5, <2>7, <3>1, <4>1
      <4>2. CASE j # Len(d) + 1
        <5>1. j \in 1 .. Len(d)
          BY <3>1, <4>2
        <5>2. PICK i \in 1 .. n : coordOf[r[i]] = c /\ d[j] = EventTask(r[i])
          BY <2>6, <5>1
        <5> QED
          BY <2>4, <3>1, <5>1, <5>2
      <4> QED
        BY <4>1, <4>2
    <3>3. ASSUME NEW i \in 1 .. (n + 1), coordOf[es[i]] = c
          PROVE  \E j \in 1 .. Len(w) : w[j] = EventTask(es[i])
      <4>1. CASE i = n + 1
        <5>1. Len(d) + 1 \in 1 .. Len(w)
          BY <3>1
        <5> QED
          BY <2>5, <3>1, <4>1, <5>1
      <4>2. CASE i # n + 1
        <5>1. i \in 1 .. n
          BY <4>2
        <5>2. PICK j \in 1 .. Len(d) : d[j] = EventTask(r[i])
          BY <2>4, <2>6, <3>3, <5>1
        <5>3. j \in 1 .. Len(w)
          BY <3>1
        <5> QED
          BY <2>4, <3>1, <5>1, <5>2, <5>3
      <4> QED
        BY <4>1, <4>2
    <3> QED
      BY <3>2, <3>3 DEF DueIs, w
  <2>8. CASE coordOf[e] # c
    <3>1. w = d
      BY <2>3, <2>8, ConcatEmptySeq
    <3>2. ASSUME NEW j \in 1 .. Len(w)
          PROVE  \E i \in 1 .. (n + 1) : coordOf[es[i]] = c /\ w[j] = EventTask(es[i])
      <4>1. PICK i \in 1 .. n : coordOf[r[i]] = c /\ d[j] = EventTask(r[i])
        BY <2>6, <3>1
      <4> QED
        BY <2>4, <3>1, <4>1
    <3>3. ASSUME NEW i \in 1 .. (n + 1), coordOf[es[i]] = c
          PROVE  \E j \in 1 .. Len(w) : w[j] = EventTask(es[i])
      <4>1. i \in 1 .. n
        BY <2>5, <2>8, <3>3
      <4> QED
        BY <2>4, <2>6, <3>1, <3>3, <4>1
    <3> QED
      BY <3>2, <3>3 DEF DueIs, w
  <2> QED
    BY <2>7, <2>8
<1> HIDE DEF T
<1>3. \A n \in Nat : n \in T
  BY <1>1, <1>2, InductionOnNat
<1>4. ASSUME NEW es \in Seq(AmbEvent) PROVE DueIs(es, c)
  <2>1. Len(es) \in T
    BY <1>3
  <2> QED
    BY <2>1 DEF T
<1> QED
  BY <1>4

LEMMA NothingDue ==
  ASSUME NEW es \in Seq(AmbEvent), NEW c, \A i \in 1 .. Len(es) : coordOf[es[i]] # c
  PROVE  Due(es, c) = <<>>
<1>1. Due(es, c) \in Seq(Task)
  BY DueType
<1>2. Len(Due(es, c)) \notin Nat \ {0}
  <2>1. DueIs(es, c)
    BY DueByVersion
  <2> QED
    BY <2>1 DEF DueIs
<1> QED
  BY <1>1, <1>2

-----------------------------------------------------------------------------
(* The projection buffer implements ProjectionLog.                         *)

(* What the refinement needs besides BatchInv: which task is at hand where, *)
(* and that every document is a version of its own coordinate.             *)
TaskFits ==
  /\ tsPc = "idle" <=> tsTask = NoTask
  /\ tsPc = "patch" => tsTask.op = "content"
  /\ tsTask.op = "final" => tsPhase # "run"

OwnVersions == \A c \in Coord : docs[c].ev # NoEvent => coordOf[docs[c].ev] = c

OrderInv == BatchInv /\ TaskFits /\ OwnVersions

LEMMA NoTaskOp == NoTask.op = "none" /\ Tick.op = "tick" /\ Final.op = "final"
  BY DEF NoTask, Tick, Final

LEMMA TaskFitsRun ==
  ASSUME OrderInv, TSRun
  PROVE  TaskFits'
<1> USE DEF OrderInv, TaskFits
<1>1. CASE TSTake
  <2>1. Head(tsCh) \in Task
    BY <1>1, ReceiveTakesHead DEF TSTake, BatchInv, TSTypeOK
  <2>2. Head(tsCh) # NoTask /\ Head(tsCh).op # "final"
    BY <2>1, TaskKinds, NoTaskNotTask
  <2>3. \/ tsPc' \in {"filter", "act"} /\ tsTask' = Head(tsCh)
        \/ UNCHANGED <<tsPc, tsTask>>
    BY <1>1 DEF TSTake
  <2> QED
    BY <1>1, <2>2, <2>3, NoTaskOp DEF TSTake
<1>2. CASE TSTick \/ TSFinalFlush
  BY <1>2, NoTaskOp DEF TSTick, TSFinalFlush
<1>3. CASE TSFilter
  BY <1>3 DEF TSFilter
<1>4. CASE TSFlushed /\ tsPc \in {"filter", "upsert"}
  BY <1>4, NoTaskOp DEF TSFlushed
<1>5. CASE TSFiltered /\ ~ TSFlushed
  BY <1>5 DEF TSFiltered
<1>6. CASE TSDelete \/ TSStamp \/ TSPatch \/ TSRecheck
  BY <1>6, NoTaskOp DEF TSDelete, TSStamp, TSPatch, TSRecheck, TSReturn
<1>7. CASE TSDrain \/ TSAbandon \/ TSExpire
  BY <1>7, NoTaskOp DEF TSDrain, TSAbandon, TSExpire, tsWorkerVars
<1> QED
  BY <1>1, <1>2, <1>3, <1>4, <1>5, <1>6, <1>7
     DEF TSRun, TSProcess, TSShutdown, TSFiltered, TSUpsert

LEMMA UpsertedAt ==
  ASSUME TSTypeOK, NEW landed \in SUBSET DOMAIN tsKept, NEW c \in Coord
  PROVE  \/ Upserted(docs, tsKept, landed)[c] = docs[c]
         \/ \E i \in DOMAIN tsKept : coordOf[tsKept[i]] = c /\ Upserted(docs, tsKept, landed)[c] = Projected(tsKept[i])
<1> DEFINE last == {i \in landed : /\ coordOf[tsKept[i]] = c
                                   /\ \A j \in landed : coordOf[tsKept[j]] = c => j <= i}
           i == CHOOSE i \in last : TRUE
<1>1. Upserted(docs, tsKept, landed)[c] = IF last = {} THEN docs[c] ELSE Projected(tsKept[i])
  BY DEF Upserted
<1>2. last # {} => i \in last
  OBVIOUS
<1>3. last # {} => i \in DOMAIN tsKept /\ coordOf[tsKept[i]] = c
  BY <1>2
<1> HIDE DEF last, i
<1> QED
  BY <1>1, <1>3

LEMMA OwnVersionsStep ==
  ASSUME OrderInv, [TSNext]_TSBufferVars
  PROVE  OwnVersions'
<1> SUFFICES ASSUME NEW c \in Coord, docs'[c].ev # NoEvent PROVE coordOf[docs'[c].ev] = c
  BY DEF OwnVersions
<1>0. TSTypeOK /\ docs \in [Coord -> Doc] /\ NoDoc.ev = NoEvent
  BY DEF OrderInv, BatchInv, TSTypeOK, NoDoc
<1>1. docs'[c].ev = docs[c].ev \/ docs'[c].ev = NoEvent
        \/ \E i \in DOMAIN tsKept : coordOf[tsKept[i]] = c /\ docs'[c].ev = tsKept[i]
  <2>1. ASSUME NEW e, NEW cs, docs' = Deleted(docs, e, cs) PROVE docs'[c].ev = docs[c].ev \/ docs'[c].ev = NoEvent
    BY <1>0, <2>1 DEF Deleted
  <2>2. ASSUME NEW k, NEW cs, docs' = Stamped(docs, k, cs) PROVE docs'[c].ev = docs[c].ev
    BY <1>0, <2>2 DEF Stamped, Doc
  <2>3. ASSUME NEW k, docs' = ContentPatched(docs, k) PROVE docs'[c].ev = docs[c].ev
    BY <1>0, <2>3 DEF ContentPatched, Doc
  <2>4. ASSUME NEW landed \in SUBSET DOMAIN tsKept, docs' = Upserted(docs, tsKept, landed)
        PROVE  docs'[c] = docs[c] \/ \E i \in DOMAIN tsKept : coordOf[tsKept[i]] = c /\ docs'[c].ev = tsKept[i]
    <3>1. \/ docs'[c] = docs[c]
          \/ \E i \in DOMAIN tsKept : coordOf[tsKept[i]] = c /\ docs'[c] = Projected(tsKept[i])
      BY <1>0, <2>4, UpsertedAt
    <3>2. \A e : Projected(e).ev = e
      BY DEF Projected
    <3> QED
      BY <3>1, <3>2
  <2>5. CASE TSUpsert
    BY <2>4, <2>5 DEF TSUpsert
  <2>6. CASE TSDelete \/ TSStamp \/ TSPatch \/ \E e \in Event : TSPurge(e)
    BY <2>1, <2>2, <2>3, <2>6 DEF TSDelete, TSStamp, TSPatch, TSPurge
  <2>7. CASE UNCHANGED docs
    BY <2>7
  <2> QED
    BY <2>5, <2>6, <2>7
       DEF TSNext, TSRun, TSEnv, TSProcess, TSShutdown, TSTake, TSTick, TSFilter, TSFiltered, TSRecheck, TSDrain,
           TSFinalFlush, TSAbandon, TSExpire, TSQueue, TSSend, TSCloseFlag, TSCloseDone, TSBufferVars, tsVars
<1> QED
  BY <1>1 DEF OrderInv, OwnVersions

LEMMA OrderInvHolds == TSSafeSpec => []OrderInv
<1>1. GateInit /\ TSInit => TaskFits /\ OwnVersions
  BY NoTaskOp DEF TSInit, TSFresh, TaskFits, OwnVersions, NoDoc
<1>2. OrderInv /\ [TSNext]_TSBufferVars => (TaskFits /\ OwnVersions)'
  <2> SUFFICES ASSUME OrderInv, [TSNext]_TSBufferVars PROVE TaskFits'
    BY OwnVersionsStep
  <2>1. CASE TSRun
    BY <2>1, TaskFitsRun
  <2>2. CASE ~ TSRun
    <3>1. UNCHANGED <<tsWorkerVars, tsPhase>>
      BY <2>2 DEF TSNext, TSEnv, TSQueue, TSSend, TSCloseFlag, TSCloseDone, TSPurge, TSBufferVars, tsVars
    <3> QED
      BY <3>1 DEF tsWorkerVars, OrderInv, TaskFits
  <2> QED
    BY <2>1, <2>2
<1> QED
  BY <1>1, <1>2, BatchInvHolds, PTL DEF TSSafeSpec, TSBufferInit, OrderInv

Reading == tsPhase # "stopped" /\ tsTask.op # "final"

Rest(c) == IF Reading THEN Asked(tsCh, c) ELSE <<>>

LEMMA OutstandingIs ==
  ASSUME NEW c, TSTypeOK
  PROVE  /\ Due(tsKept, c) \in Seq(Task) /\ Due(tsBatch, c) \in Seq(Task)
         /\ Due(tsKept \o tsBatch, c) = Due(tsKept, c) \o Due(tsBatch, c)
         /\ OwnWrite(c) \in Seq(Task) /\ InWorker(c) \in Seq(Task)
         /\ Rest(c) \in Seq(Task) /\ Outstanding(c) \in Seq(Task)
         /\ InWorker(c) = (Due(tsKept, c) \o Due(tsBatch, c)) \o OwnWrite(c)
         /\ Reading \/ tsPc # "idle" => Outstanding(c) = InWorker(c) \o Rest(c)
         /\ ~ Reading /\ tsPc = "idle" => Outstanding(c) = <<>>
<1>1. tsKept \in Seq(AmbEvent) /\ tsBatch \in Seq(AmbEvent) /\ tsCh \in Seq(Task)
  BY DEF TSTypeOK
<1>2. /\ Due(tsKept, c) \in Seq(Task) /\ Due(tsBatch, c) \in Seq(Task)
      /\ Due(tsKept \o tsBatch, c) = Due(tsKept, c) \o Due(tsBatch, c)
  BY <1>1, DueType
<1>3. OwnWrite(c) \in Seq(Task)
  <2>1. tsTask.op \in {"content", "stamp", "delete"} => tsTask \in Task
    BY NoTaskOp DEF TSTypeOK
  <2> QED
    BY <2>1 DEF OwnWrite
<1>4. InWorker(c) = (Due(tsKept, c) \o Due(tsBatch, c)) \o OwnWrite(c)
  BY <1>2 DEF InWorker, Due
<1>5. InWorker(c) \in Seq(Task)
  BY <1>2, <1>3, <1>4, TasksConcat
<1>6. Rest(c) \in Seq(Task)
  <2>1. Asked(tsCh, c) \in Seq(Task)
    BY <1>1, AskedConcat
  <2> QED
    BY <2>1 DEF Rest
<1>7. /\ Reading \/ tsPc # "idle" => Outstanding(c) = InWorker(c) \o Rest(c)
      /\ ~ Reading /\ tsPc = "idle" => Outstanding(c) = <<>>
  BY <1>5, ConcatEmptySeq DEF Outstanding, Rest, Reading
<1>8. Outstanding(c) \in Seq(Task)
  <2>1. InWorker(c) \o Rest(c) \in Seq(Task)
    BY <1>5, <1>6, TasksConcat
  <2>2. <<>> \in Seq(Task)
    OBVIOUS
  <2> QED
    BY <1>7, <2>1, <2>2
<1> QED
  BY <1>2, <1>3, <1>4, <1>5, <1>6, <1>7, <1>8

LEMMA LogSame ==
  ASSUME OrderInv, NEW c, Outstanding(c)' = Outstanding(c), NEW d
  PROVE  PerDocument!Step(Outstanding(c), Outstanding(c)', d, d)
<1>1. Outstanding(c) \in Seq(Task)
  BY OutstandingIs DEF OrderInv, BatchInv
<1> QED
  BY <1>1, StepSame

(* What the log is made of is what the worker and the channel hold.        *)
LEMMA LogDependsOn ==
  ASSUME NEW c, UNCHANGED <<tsCh, tsTask, tsBatch, tsKept>>, Reading' = Reading, (tsPc = "idle") = (tsPc' = "idle")
  PROVE  Outstanding(c)' = Outstanding(c)
<1>1. InWorker(c)' = InWorker(c)
  BY DEF InWorker, OwnWrite
<1> QED
  BY <1>1 DEF Outstanding, Reading

(* A send puts the writes of its task at the end of the log.               *)
LEMMA SendStep ==
  ASSUME OrderInv, NEW p \in Caller, TSSend(p), NEW c \in Coord
  PROVE  PerDocument!Step(Outstanding(c), Outstanding(c)', docs[c], docs[c])
<1>0. TSTypeOK
  BY DEF OrderInv, BatchInv
<1>1. tsCall[p] \in Task /\ tsCh \in Seq(Task) /\ tsCh' = Append(tsCh, tsCall[p])
  BY <1>0 DEF TSSend, TSTypeOK
<1>2. UNCHANGED <<tsPhase, tsPc, tsTask, tsBatch, tsKept>>
  BY DEF TSSend, tsWorkerVars
<1>3. InWorker(c)' = InWorker(c) /\ Reading' = Reading
  BY <1>2 DEF InWorker, OwnWrite, Reading
<1>4. CASE Reading
  <2> DEFINE w == Writes(tsCall[p], c)
             i == InWorker(c)
             a == Asked(tsCh, c)
  <2>1. w \in Seq(Task) /\ Asked(tsCh', c) = a \o w
    BY <1>1, WritesType, AskedAppend
  <2>2. i \in Seq(Task) /\ a \in Seq(Task) /\ Outstanding(c) = i \o a /\ Outstanding(c) \in Seq(Task)
    BY <1>0, <1>4, OutstandingIs DEF Rest
  <2>3. Outstanding(c)' = i \o Asked(tsCh', c)
    BY <1>3, <1>4 DEF Outstanding, Reading
  <2> HIDE DEF w, i, a
  <2>4. Outstanding(c)' = Outstanding(c) \o w
    <3>1. Then(Then(i, a), w) = Then(i, Then(a, w))
      BY <2>1, <2>2, ThenRegroup
    <3> QED
      BY <2>1, <2>2, <2>3, <3>1 DEF Then
  <2> QED
    BY <2>1, <2>2, <2>4, StepAsk
<1>5. CASE ~ Reading
  <2>1. Outstanding(c)' = Outstanding(c)
    BY <1>2, <1>3, <1>5 DEF Outstanding, Reading
  <2> QED
    BY <2>1, LogSame
<1> QED
  BY <1>4, <1>5

(* Whatever else is due for the document of a task's own write is flushed. *)
LEMMA OwnAlone ==
  ASSUME OrderInv, tsPc \in {"act", "patch"}, NEW c \in Coord
  PROVE  /\ tsTask.op \in {"content", "stamp", "delete"} /\ tsTask \in Task
         /\ OnDoc(tsTask, c) => InWorker(c) = <<tsTask>>
         /\ ~ OnDoc(tsTask, c) => OwnWrite(c) = <<>>
<1>0. TSTypeOK /\ PendingInv /\ TaskFits
  BY DEF OrderInv, BatchInv
<1>1. tsTask.op \in {"content", "stamp", "delete"}
  BY <1>0 DEF PendingInv, TaskFits
<1>2. tsTask \in Task
  BY <1>0, <1>1, NoTaskOp DEF TSTypeOK
<1>3. ASSUME OnDoc(tsTask, c) PROVE InWorker(c) = <<tsTask>>
  <2>1. OwnWrite(c) = <<tsTask>>
    BY <1>1, <1>3 DEF OwnWrite
  <2>2. tsKept = <<>> /\ tsBatch \in Seq(AmbEvent)
    BY <1>0 DEF PendingInv, TSTypeOK
  <2>3. Due(tsBatch, c) = <<>>
    <3>1. CASE tsBatch = <<>>
      BY <2>2, <3>1, DueType
    <3>2. CASE tsBatch # <<>>
      <4>1. tsPc = "act" /\ tsTask.op = "stamp"
        BY <1>0, <1>1, <3>2 DEF PendingInv
      <4>2. tsTask.doc = c
        BY <1>3, <4>1 DEF OnDoc
      <4>3. ~ Unflushed(c)
        BY <1>0, <4>1, <4>2 DEF PendingInv
      <4>4. \A i \in 1 .. Len(tsBatch) : coordOf[tsBatch[i]] # c
        <5> SUFFICES ASSUME NEW i \in 1 .. Len(tsBatch), coordOf[tsBatch[i]] = c PROVE Unflushed(c)
          BY <4>3
        <5>1. tsBatch[i] \in Event /\ i \in DOMAIN tsBatch
          BY <2>2 DEF AmbEvent
        <5> QED
          BY <5>1 DEF Unflushed, InSeq
      <4> QED
        BY <2>2, <4>4, NothingDue
    <3> QED
      BY <3>1, <3>2
  <2>4. Due(tsKept, c) = <<>>
    BY <2>2, DueType
  <2>5. InWorker(c) = (<<>> \o <<>>) \o <<tsTask>>
    BY <1>0, <2>1, <2>3, <2>4, OutstandingIs
  <2>6. <<>> \o <<>> = <<>> /\ <<>> \o <<tsTask>> = <<tsTask>>
    OBVIOUS
  <2> QED
    BY <2>5, <2>6
<1> QED
  BY <1>1, <1>2, <1>3 DEF OwnWrite

(* A task's own write, done or not, is the first of its document's log.    *)
LEMMA OwnStep ==
  ASSUME OrderInv, tsPc \in {"act", "patch"}, TSReturn, UNCHANGED <<tsCh, tsPhase, tsBatch, tsKept>>,
         NEW c \in Coord, NEW e,
         e = docs[c] \/ (OnDoc(tsTask, c) /\ e = PerDocument!Effect(docs[c], tsTask))
  PROVE  PerDocument!Step(Outstanding(c), Outstanding(c)', docs[c], e)
<1>0. TSTypeOK /\ tsTask.op \in {"content", "stamp", "delete"} /\ tsTask \in Task
  BY OwnAlone DEF OrderInv, BatchInv
<1>1. tsTask' = NoTask /\ tsPc' = "idle" /\ OwnWrite(c)' = <<>>
  BY NoTaskOp DEF TSReturn, OwnWrite
<1>2. Reading' = Reading
  BY <1>0, <1>1, NoTaskOp DEF Reading
<1>3. Rest(c) \in Seq(Task) /\ InWorker(c) \in Seq(Task) /\ Outstanding(c) = InWorker(c) \o Rest(c)
  BY <1>0, OutstandingIs
<1>4. CASE OnDoc(tsTask, c)
  <2>1. InWorker(c) = <<tsTask>> /\ OwnWrite(c) = <<tsTask>>
    BY <1>0, <1>4, OwnAlone DEF OwnWrite
  <2>2. InWorker(c) = (Due(tsKept, c) \o Due(tsBatch, c)) \o OwnWrite(c)
        /\ Due(tsKept, c) \in Seq(Task) /\ Due(tsBatch, c) \in Seq(Task)
        /\ Due(tsKept \o tsBatch, c) = Due(tsKept, c) \o Due(tsBatch, c)
    BY <1>0, OutstandingIs
  <2>3. Due(tsKept \o tsBatch, c) = <<>>
    <3> DEFINE a == Due(tsKept \o tsBatch, c)
    <3>1. a \in Seq(Task) /\ a \o <<tsTask>> = <<tsTask>>
      BY <2>1, <2>2, TasksConcat
    <3> HIDE DEF a
    <3>2. <<tsTask>> \in Seq(Task) /\ Len(<<tsTask>>) = 1
      BY <1>0
    <3>3. Len(a) + 1 = 1 /\ Len(a) \in Nat
      BY <3>1, <3>2, TasksConcat
    <3>4. a = <<>>
      BY <3>1, <3>3
    <3> QED
      BY <3>4 DEF a
  <2>4. InWorker(c)' = <<>>
    BY <1>1, <2>3 DEF InWorker, Due
  <2>5. Outstanding(c)' = Rest(c)
    <3>1. Asked(tsCh, c) \in Seq(Task)
      BY <1>0, AskedConcat DEF TSTypeOK
    <3> QED
      BY <1>1, <1>2, <2>4, <3>1, ConcatEmptySeq DEF Outstanding, Reading, Rest
  <2> QED
    BY <1>0, <1>3, <2>1, <2>5, StepFirst
<1>5. CASE ~ OnDoc(tsTask, c)
  <2>1. InWorker(c)' = InWorker(c)
    BY <1>1, <1>5, OwnAlone DEF InWorker
  <2>2. CASE Reading
    <3>1. Outstanding(c)' = Outstanding(c)
      BY <1>2, <2>1, <2>2 DEF Outstanding, Reading
    <3> QED
      BY <1>5, <3>1, LogSame
  <2>3. CASE ~ Reading
    <3>1. Outstanding(c)' = <<>> /\ Outstanding(c) = InWorker(c)
      BY <1>1, <1>2, <2>3 DEF Outstanding, Reading
    <3>2. <<>> \in Seq(Task) /\ Outstanding(c) = <<>> \o InWorker(c)
      BY <1>3, <3>1
    <3> QED
      BY <1>3, <1>5, <3>1, <3>2, StepDrop
  <2> QED
    BY <2>2, <2>3
<1> QED
  BY <1>4, <1>5

LEMMA DeleteStep ==
  ASSUME OrderInv, TSDelete, NEW c \in Coord
  PROVE  PerDocument!Step(Outstanding(c), Outstanding(c)', docs[c], docs'[c])
<1>1. tsTask.op = "delete" /\ tsTask.ev \in Event /\ docs \in [Coord -> Doc]
  <2>1. tsTask \in Task
    BY OwnAlone DEF TSDelete
  <2> QED
    BY <2>1, TaskKinds DEF TSDelete, OrderInv, BatchInv, TSTypeOK
<1>2. docs'[c] = docs[c] \/ (collection[c] = "amb" /\ docs[c].ev = tsTask.ev /\ docs'[c] = NoDoc)
  <2>1. CASE docs' = docs
    BY <2>1
  <2>2. CASE docs' = Deleted(docs, tsTask.ev, {"amb"})
    <3>1. docs'[c] = IF docs[c].ev = tsTask.ev /\ collection[c] \in {"amb"} THEN NoDoc ELSE docs[c]
      BY <2>2 DEF Deleted
    <3> QED
      BY <3>1
  <2> QED
    BY <2>1, <2>2 DEF TSDelete
<1>3. docs[c].ev = tsTask.ev => coordOf[tsTask.ev] = c
  BY <1>1, EventAssumption DEF OrderInv, OwnVersions
<1>4. docs'[c] = docs[c] \/ (OnDoc(tsTask, c) /\ docs'[c] = PerDocument!Effect(docs[c], tsTask))
  BY <1>1, <1>2, <1>3 DEF OnDoc, PerDocument!Effect, PerDocument!NoDoc, NoDoc
<1> QED
  BY <1>4, OwnStep DEF TSDelete

LEMMA PatchStep ==
  ASSUME OrderInv, TSStamp \/ TSPatch, NEW c \in Coord
  PROVE  PerDocument!Step(Outstanding(c), Outstanding(c)', docs[c], docs'[c])
<1>1. docs \in [Coord -> Doc] /\ tsPc \in {"act", "patch"} /\ tsTask \in Task
  BY OwnAlone DEF OrderInv, BatchInv, TSTypeOK, TSStamp, TSPatch
<1>2. CASE TSStamp
  <2>1. tsTask.op = "stamp" /\ tsTask.doc \in AmbDoc
    BY <1>1, <1>2, TaskKinds DEF TSStamp
  <2>2. docs'[c] = docs[c]
        \/ /\ c = tsTask.doc
           /\ docs'[c] = IF docs[c] = NoDoc THEN docs[c] ELSE [docs[c] EXCEPT !.community = tsTask.set]
    BY <1>1, <1>2 DEF TSStamp, Stamped
  <2>3. c = tsTask.doc => OnDoc(tsTask, c)
    BY <2>1 DEF OnDoc, AmbDoc
  <2>4. PerDocument!Effect(docs[c], tsTask) = IF docs[c] = NoDoc THEN docs[c] ELSE [docs[c] EXCEPT !.community = tsTask.set]
    BY <2>1 DEF PerDocument!Effect, PerDocument!NoDoc, NoDoc
  <2>5. docs'[c] = docs[c] \/ (OnDoc(tsTask, c) /\ docs'[c] = PerDocument!Effect(docs[c], tsTask))
    BY <2>2, <2>3, <2>4
  <2> QED
    BY <1>2, <2>5, OwnStep DEF TSStamp
<1>3. CASE TSPatch
  <2>1. tsTask.op = "content" /\ tsTask.ev \in AmbEvent
    BY <1>1, <1>3, TaskKinds DEF TSPatch, OrderInv, TaskFits
  <2>2. docs'[c] = docs[c]
        \/ /\ c = coordOf[tsTask.ev]
           /\ docs'[c] = IF docs[c] = NoDoc THEN docs[c] ELSE [docs[c] EXCEPT !.content = TRUE]
    BY <1>1, <1>3 DEF TSPatch, ContentPatched
  <2>3. c = coordOf[tsTask.ev] => OnDoc(tsTask, c)
    BY <2>1 DEF OnDoc, AmbEvent, IsAmb
  <2>4. PerDocument!Effect(docs[c], tsTask) = IF docs[c] = NoDoc THEN docs[c] ELSE [docs[c] EXCEPT !.content = TRUE]
    BY <2>1 DEF PerDocument!Effect, PerDocument!NoDoc, NoDoc
  <2>5. docs'[c] = docs[c] \/ (OnDoc(tsTask, c) /\ docs'[c] = PerDocument!Effect(docs[c], tsTask))
    BY <2>2, <2>3, <2>4
  <2> QED
    BY <1>3, <2>5, OwnStep DEF TSPatch
<1> QED
  BY <1>2, <1>3

LEMMA RecheckStep ==
  ASSUME OrderInv, TSRecheck, NEW c \in Coord
  PROVE  PerDocument!Step(Outstanding(c), Outstanding(c)', docs[c], docs'[c])
<1>1. docs' = docs
  BY DEF TSRecheck
<1>2. CASE TSReturn
  BY <1>1, <1>2, OwnStep DEF TSRecheck
<1>3. CASE tsPc' = "patch" /\ UNCHANGED tsTask
  <2>1. Reading' = Reading
    BY <1>3 DEF TSRecheck, Reading
  <2>2. Outstanding(c)' = Outstanding(c)
    BY <1>3, <2>1, LogDependsOn DEF TSRecheck
  <2> QED
    BY <1>1, <2>2, LogSame
<1> QED
  BY <1>2, <1>3 DEF TSRecheck

LEMMA EventEffect ==
  \A d, x : EventTask(x).op = "event" /\ PerDocument!Effect(d, EventTask(x)) = Projected(x)
BY DEF EventTask, PerDocument!Effect, PerDocument!Projected, Projected

(* The end of a flush takes the batch's projections off the log.           *)
LEMMA FlushStep ==
  ASSUME OrderInv, tsPc \in {"filter", "upsert"}, tsBatch = <<>>, TSFlushed, UNCHANGED <<tsCh, tsBatch>>,
         NEW c \in Coord, NEW e,
         e = docs[c] \/ \E i \in DOMAIN tsKept : coordOf[tsKept[i]] = c /\ e = Projected(tsKept[i])
  PROVE  PerDocument!Step(Outstanding(c), Outstanding(c)', docs[c], e)
<1> DEFINE k == Due(tsKept, c)
           o == OwnWrite(c)
           r == Rest(c)
<1>0. TSTypeOK /\ tsKept \in Seq(AmbEvent)
  BY DEF OrderInv, BatchInv, TSTypeOK
<1>1. k \in Seq(Task) /\ o \in Seq(Task) /\ r \in Seq(Task)
  BY <1>0, OutstandingIs
<1>2. Due(tsBatch, c) = <<>>
  BY <1>0, DueType
<1>3. InWorker(c) = k \o o
  <2>1. InWorker(c) = (k \o <<>>) \o o
    BY <1>0, <1>2, OutstandingIs
  <2> QED
    BY <1>1, <2>1, ConcatEmptySeq
<1>4. Outstanding(c) = k \o (o \o r)
  <2>1. Outstanding(c) = (k \o o) \o r
    BY <1>0, <1>3, OutstandingIs
  <2> HIDE DEF k, o, r
  <2> QED
    BY <1>1, <2>1, TasksRegroup
<1>5. tsKept' = <<>> /\ tsBatch' = <<>>
  BY DEF TSFlushed
<1>6. InWorker(c)' = OwnWrite(c)'
  <2>1. tsKept' \o tsBatch' = <<>>
    BY <1>5
  <2>2. Due(<<>>, c) = <<>>
    BY <1>0, DueType
  <2>3. OwnWrite(c)' \in Seq(Task)
    <3>1. tsTask' = tsTask \/ tsTask' = NoTask
      BY DEF TSFlushed
    <3>2. tsTask.op \in {"content", "stamp", "delete"} => tsTask \in Task
      BY <1>0, NoTaskOp DEF TSTypeOK
    <3> QED
      BY <3>1, <3>2, NoTaskOp DEF OwnWrite
  <2> QED
    BY <2>1, <2>2, <2>3, ConcatEmptySeq DEF InWorker, Due
<1>7. Outstanding(c)' = o \o r
  <2>1. Asked(tsCh, c) \in Seq(Task) /\ tsCh' = tsCh
    BY <1>0, AskedConcat DEF TSTypeOK
  <2>2. CASE tsTask.op \in {"content", "stamp", "delete"}
    <3>1. tsPc' = "act" /\ tsTask' = tsTask /\ tsPhase' = tsPhase
      BY <2>2 DEF TSFlushed
    <3>2. OwnWrite(c)' = o
      BY <3>1 DEF OwnWrite
    <3>3. CASE Reading
      <4>1. Outstanding(c)' = InWorker(c)' \o Asked(tsCh', c)
        BY <3>1, <3>3 DEF Outstanding, Reading
      <4> QED
        BY <1>6, <2>1, <3>2, <3>3, <4>1 DEF Rest
    <3>4. CASE ~ Reading
      <4>1. Outstanding(c)' = InWorker(c)' /\ r = <<>>
        BY <3>1, <3>4 DEF Outstanding, Reading, Rest
      <4> QED
        BY <1>1, <1>6, <3>2, <4>1, ConcatEmptySeq
    <3> QED
      BY <3>3, <3>4
  <2>3. CASE tsTask.op \notin {"content", "stamp", "delete"}
    <3>1. tsPc' = "idle" /\ tsTask' = NoTask /\ tsPhase' = IF tsTask.op = "final" THEN "stopped" ELSE tsPhase
      BY <2>3 DEF TSFlushed
    <3>2. o = <<>> /\ OwnWrite(c)' = <<>>
      BY <2>3, <3>1, NoTaskOp DEF OwnWrite
    <3>3. Reading' = Reading
      BY <3>1, NoTaskOp DEF Reading
    <3>4. CASE Reading
      <4>1. Outstanding(c)' = InWorker(c)' \o Asked(tsCh', c)
        BY <3>3, <3>4 DEF Outstanding, Reading
      <4> QED
        BY <1>6, <2>1, <3>2, <3>4, <4>1 DEF Rest
    <3>5. CASE ~ Reading
      <4>1. Outstanding(c)' = <<>> /\ r = <<>>
        BY <3>1, <3>3, <3>5 DEF Outstanding, Reading, Rest
      <4> QED
        BY <3>2, <4>1
    <3> QED
      BY <3>4, <3>5
  <2> QED
    BY <2>2, <2>3
<1>8. DueIs(tsKept, c)
  BY <1>0, DueByVersion
<1>9. \A i \in 1 .. Len(k) : k[i].op = "event"
  BY <1>8, EventEffect DEF DueIs
<1>10. e = docs[c] \/ \E j \in 1 .. Len(k) : e = PerDocument!Effect(docs[c], k[j])
  <2> SUFFICES ASSUME e # docs[c] PROVE \E j \in 1 .. Len(k) : e = PerDocument!Effect(docs[c], k[j])
    OBVIOUS
  <2>1. PICK i \in DOMAIN tsKept : coordOf[tsKept[i]] = c /\ e = Projected(tsKept[i])
    OBVIOUS
  <2>2. i \in 1 .. Len(tsKept)
    BY <1>0, LenProperties
  <2>3. PICK j \in 1 .. Len(k) : k[j] = EventTask(tsKept[i])
    BY <1>8, <2>1, <2>2 DEF DueIs
  <2> QED
    BY <2>1, <2>3, EventEffect
<1> HIDE DEF k, o, r
<1>11. o \o r \in Seq(Task)
  BY <1>1, TasksConcat
<1> QED
  BY <1>1, <1>4, <1>7, <1>9, <1>10, <1>11, StepBatch

LEMMA FilteredStep ==
  ASSUME OrderInv, TSFiltered, NEW c \in Coord
  PROVE  PerDocument!Step(Outstanding(c), Outstanding(c)', docs[c], docs'[c])
<1>1. docs' = docs
  BY DEF TSFiltered
<1>2. CASE tsKept = <<>>
  BY <1>1, <1>2, FlushStep DEF TSFiltered
<1>3. CASE tsKept # <<>>
  <2>1. Reading' = Reading
    BY <1>3 DEF TSFiltered, Reading
  <2>2. Outstanding(c)' = Outstanding(c)
    BY <1>3, <2>1, LogDependsOn DEF TSFiltered
  <2> QED
    BY <1>1, <2>2, LogSame
<1> QED
  BY <1>2, <1>3

LEMMA UpsertStep ==
  ASSUME OrderInv, TSUpsert, NEW c \in Coord
  PROVE  PerDocument!Step(Outstanding(c), Outstanding(c)', docs[c], docs'[c])
<1>0. TSTypeOK /\ PendingInv
  BY DEF OrderInv, BatchInv
<1>1. tsBatch = <<>>
  BY <1>0 DEF TSUpsert, PendingInv
<1>2. PICK landed \in SUBSET DOMAIN tsKept : docs' = Upserted(docs, tsKept, landed)
  BY DEF TSUpsert
<1>3. docs'[c] = docs[c] \/ \E i \in DOMAIN tsKept : coordOf[tsKept[i]] = c /\ docs'[c] = Projected(tsKept[i])
  BY <1>0, <1>2, UpsertedAt
<1> QED
  BY <1>1, <1>3, FlushStep DEF TSUpsert

LEMMA HeadFirst ==
  ASSUME NEW S, NEW s \in Seq(S), s # <<>>
  PROVE  /\ Head(s) \in S /\ Tail(s) \in Seq(S) /\ <<Head(s)>> \in Seq(S)
         /\ s = <<Head(s)>> \o Tail(s)
<1>1. Head(s) \in S /\ Tail(s) \in Seq(S) /\ Len(Tail(s)) = Len(s) - 1 /\ Len(s) \in Nat \ {0}
      /\ Head(s) = s[1] /\ \A i \in 1 .. Len(s) - 1 : Tail(s)[i] = s[i + 1]
  OBVIOUS
<1>2. <<Head(s)>> \in Seq(S) /\ Len(<<Head(s)>>) = 1 /\ <<Head(s)>>[1] = Head(s)
  BY <1>1
<1> DEFINE h == <<Head(s)>>
           u == Tail(s)
<1>3. h \o u \in Seq(S) /\ Len(h \o u) = 1 + Len(u)
      /\ \A i \in 1 .. 1 + Len(u) : (h \o u)[i] = IF i <= 1 THEN h[i] ELSE u[i - 1]
  BY <1>1, <1>2, ConcatProperties
<1>4. Len(h \o u) = Len(s) /\ \A i \in 1 .. Len(s) : (h \o u)[i] = s[i]
  <2>1. Len(h \o u) = Len(s)
    BY <1>1, <1>3
  <2>2. ASSUME NEW i \in 1 .. Len(s) PROVE (h \o u)[i] = s[i]
    <3>1. CASE i = 1
      BY <1>1, <1>2, <1>3, <3>1
    <3>2. CASE i # 1
      <4>1. i - 1 \in 1 .. Len(s) - 1 /\ i \in 1 .. 1 + Len(u) /\ ~ (i <= 1) /\ (i - 1) + 1 = i
        BY <1>1, <3>2
      <4>2. u[i - 1] = s[(i - 1) + 1]
        BY <1>1, <4>1
      <4> QED
        BY <1>3, <4>1, <4>2
    <3> QED
      BY <3>1, <3>2
  <2> QED
    BY <2>1, <2>2
<1>5. s = h \o u
  BY <1>3, <1>4, SeqEqual
<1> QED
  BY <1>1, <1>2, <1>5

LEMMA EventsConcat == \A a, b, d \in Seq(AmbEvent) : a \o b \in Seq(AmbEvent) /\ (a \o b) \o d = a \o (b \o d)
  BY ConcatProperties, ConcatAssociative

(* A projection the gate has blocked is lost.                              *)
LEMMA FilterStep ==
  ASSUME OrderInv, TSFilter, NEW c \in Coord
  PROVE  PerDocument!Step(Outstanding(c), Outstanding(c)', docs[c], docs'[c])
<1> DEFINE h == Head(tsBatch)
           u == Tail(tsBatch)
<1>0. TSTypeOK /\ docs' = docs /\ tsKept \in Seq(AmbEvent)
  BY DEF OrderInv, BatchInv, TSTypeOK, TSFilter
<1>1. h \in AmbEvent /\ u \in Seq(AmbEvent) /\ <<h>> \in Seq(AmbEvent) /\ tsBatch = <<h>> \o u
  <2>1. tsBatch \in Seq(AmbEvent) /\ tsBatch # <<>>
    BY <1>0 DEF TSFilter, TSTypeOK
  <2> QED
    BY <2>1, HeadFirst
<1>2. tsBatch' = u /\ UNCHANGED <<tsCh, tsPhase, tsPc, tsTask>> /\ tsPc = "filter"
      /\ tsKept' = IF Blocked(h) THEN tsKept ELSE Append(tsKept, h)
  BY DEF TSFilter
<1>3. Reading' = Reading /\ OwnWrite(c)' = OwnWrite(c)
  BY <1>2 DEF Reading, OwnWrite
<1> HIDE DEF h, u
<1>4. CASE ~ Blocked(h)
  <2>1. tsKept' = tsKept \o <<h>>
    BY <1>0, <1>1, <1>2, <1>4, AppendIsConcat
  <2>2. tsKept' \o tsBatch' = tsKept \o tsBatch
    <3>1. (tsKept \o <<h>>) \o u = tsKept \o (<<h>> \o u)
      BY <1>0, <1>1, EventsConcat
    <3> QED
      BY <1>1, <1>2, <2>1, <3>1
  <2>3. InWorker(c)' = InWorker(c)
    BY <1>3, <2>2 DEF InWorker
  <2>4. Outstanding(c)' = Outstanding(c)
    BY <1>2, <1>3, <2>3 DEF Outstanding, Reading
  <2> QED
    BY <1>0, <2>4, LogSame
<1>5. CASE Blocked(h)
  <2> DEFINE k == Due(tsKept, c)
             w == Writes(EventTask(h), c)
             b == Due(u, c)
             o == OwnWrite(c)
             r == Rest(c)
  <2>1. k \in Seq(Task) /\ o \in Seq(Task) /\ r \in Seq(Task) /\ b \in Seq(Task) /\ w \in Seq(Task)
    <3>1. EventTask(h) \in Task
      BY <1>1, ProjectionsAppend
    <3> QED
      BY <1>0, <1>1, <3>1, OutstandingIs, DueType, WritesType
  <2>2. Due(tsBatch, c) = w \o b
    <3>1. EventTask(h) \in Task /\ Due(<<h>>, c) = w
      <4>1. EventTask(h) \in Task /\ <<>> \in Seq(AmbEvent) /\ Append(<<>>, h) = <<h>>
        BY <1>1, ProjectionsAppend
      <4>2. Due(Append(<<>>, h), c) = Due(<<>>, c) \o w
        BY <1>1, <4>1, DueAppend
      <4>3. Due(<<>>, c) = <<>>
        BY <4>1, DueType
      <4> QED
        BY <2>1, <4>1, <4>2, <4>3, ConcatEmptySeq
    <3>2. Due(<<h>> \o u, c) = Due(<<h>>, c) \o b
      BY <1>1, DueType
    <3> QED
      BY <1>1, <3>1, <3>2
  <2>3. Outstanding(c) = ((k \o (w \o b)) \o o) \o r
    BY <1>0, <1>2, <2>2, OutstandingIs
  <2>4. Outstanding(c)' = ((k \o b) \o o) \o r
    <3>1. tsKept' \o tsBatch' = tsKept \o u
      BY <1>2, <1>5
    <3>2. Due(tsKept \o u, c) = k \o b
      BY <1>0, <1>1, DueType
    <3>3. InWorker(c)' = (k \o b) \o o
      BY <1>3, <3>1, <3>2 DEF InWorker, Due
    <3>4. (k \o b) \o o \in Seq(Task) /\ Asked(tsCh, c)' = Asked(tsCh, c) /\ tsPc' # "idle"
      BY <1>2, <2>1, TasksClosed
    <3>5. CASE Reading
      BY <1>3, <3>3, <3>4, <3>5 DEF Outstanding, Reading, Rest
    <3>6. CASE ~ Reading
      BY <1>3, <3>3, <3>4, <3>6, ConcatEmptySeq DEF Outstanding, Reading, Rest
    <3> QED
      BY <3>5, <3>6
  <2>5. w = <<>> \/ (w = <<EventTask(h)>> /\ EventTask(h) \in Task)
    BY <1>1, EventWrites, ProjectionsAppend
  <2> HIDE DEF k, w, b, o, r
  <2>6. CASE w = <<>>
    <3>1. w \o b = b
      BY <2>1, <2>6, ConcatEmptySeq
    <3>2. Outstanding(c)' = Outstanding(c)
      BY <2>3, <2>4, <3>1
    <3> QED
      BY <1>0, <3>2, LogSame
  <2>7. CASE w = <<EventTask(h)>> /\ EventTask(h) \in Task
    BY <1>0, <2>1, <2>3, <2>4, <2>7, StepRemoveMiddle
  <2> QED
    BY <2>5, <2>6, <2>7
<1> QED
  BY <1>4, <1>5

LEMMA OneThenOne == \A x, t \in Task : <<x>> \in Seq(Task) /\ <<t>> \in Seq(Task) /\ <<x>> \o <<t>> = <<x, t>>
<1> SUFFICES ASSUME NEW x \in Task, NEW t \in Task
             PROVE  <<x>> \in Seq(Task) /\ <<t>> \in Seq(Task) /\ <<x>> \o <<t>> = <<x, t>>
  OBVIOUS
<1>1. <<x>> \in Seq(Task) /\ <<t>> \in Seq(Task) /\ <<x, t>> \in Seq(Task)
  OBVIOUS
<1>2. Append(<<x>>, t) = <<x>> \o <<t>>
  BY <1>1, AppendIsConcat
<1>3. Append(<<x>>, t) \in Seq(Task) /\ Len(Append(<<x>>, t)) = 2 /\ Append(<<x>>, t)[1] = x /\ Append(<<x>>, t)[2] = t
  OBVIOUS
<1>4. \A i \in 1 .. 2 : Append(<<x>>, t)[i] = <<x, t>>[i]
  BY <1>3
<1>5. Append(<<x>>, t) = <<x, t>>
  BY <1>1, <1>3, <1>4, SeqEqual
<1> QED
  BY <1>1, <1>2, <1>5

LEMMA TaskOf ==
  ASSUME NEW t \in Task
  PROVE  /\ t.op = "event" => t = EventTask(t.ev)
         /\ t.op \in {"event", "content"} => t.ev \in AmbEvent
  BY DEF Task, EventTask, ContentTask, StampTask, DeleteTask

(* A task the worker takes leaves the channel's part of the log and joins  *)
(* the worker's, which it then ends.                                       *)
LEMMA TakeSame ==
  ASSUME OrderInv, TSTake, NEW c \in Coord
  PROVE  Outstanding(c)' = Outstanding(c)
<1> DEFINE t == Head(tsCh)
           b == Due(tsBatch, c)
           w == Writes(t, c)
           a == Asked(Tail(tsCh), c)
<1>0. TSTypeOK /\ tsBatch \in Seq(AmbEvent) /\ tsCh \in Seq(Task) /\ tsCh # <<>> /\ tsTask = NoTask /\ tsKept = <<>>
  BY DEF TSTake, OrderInv, BatchInv, PendingInv, TaskFits, TSTypeOK
<1>1. t \in Task /\ Tail(tsCh) \in Seq(Task) /\ <<t>> \in Seq(Task) /\ tsCh = <<t>> \o Tail(tsCh)
  BY <1>0, HeadFirst
<1>2. Asked(tsCh, c) = w \o a
  <2>1. Asked(<<t>>, c) = w
    BY <1>1, AskedOne
  <2>2. Asked(<<t>> \o Tail(tsCh), c) = Asked(<<t>>, c) \o a
    BY <1>1, AskedConcat
  <2> QED
    BY <1>1, <2>1, <2>2
<1>3. b \in Seq(Task) /\ w \in Seq(Task) /\ a \in Seq(Task)
  BY <1>0, <1>1, DueType, WritesType, AskedConcat
<1>4. Reading
  BY <1>0, NoTaskOp DEF TSTake, Reading
<1>5. Outstanding(c) = b \o (w \o a)
  <2>1. tsKept \o tsBatch = tsBatch /\ OwnWrite(c) = <<>>
    BY <1>0, NoTaskOp, ConcatEmptySeq DEF OwnWrite
  <2>2. InWorker(c) = b
    BY <1>3, <2>1, ConcatEmptySeq DEF InWorker, Due
  <2> QED
    BY <1>2, <1>4, <2>2 DEF Outstanding, Reading
<1>6. tsCh' = Tail(tsCh) /\ tsKept' = <<>> /\ tsPhase' = tsPhase
  BY <1>0 DEF TSTake
<1>7. t.op \in {"event", "content", "stamp", "delete"}
  BY <1>1, TaskKinds
<1>8. tsTask' \in {t, NoTask} /\ (t.op # "event" => tsTask' = t)
  BY <1>7, <1>0 DEF TSTake, FlushesFirst
<1>9. Reading'
  BY <1>4, <1>6, <1>7, <1>8, NoTaskOp DEF Reading
<1>10. tsBatch' = IF t.op \in {"event", "content"} THEN Append(tsBatch, t.ev) ELSE tsBatch
  BY DEF TSTake
<1>11. tsKept' \o tsBatch' = tsBatch' /\ tsBatch' \in Seq(AmbEvent)
  <2>1. tsBatch' \in Seq(AmbEvent)
    BY <1>0, <1>1, <1>10, TaskOf, AppendProperties
  <2> QED
    BY <1>6, <2>1, ConcatEmptySeq
<1>12. InWorker(c)' = b \o w
  <2>1. InWorker(c)' = Due(tsBatch', c) \o OwnWrite(c)'
    BY <1>11 DEF InWorker, Due
  <2>2. CASE t.op = "event"
    <3>1. t = EventTask(t.ev) /\ t.ev \in AmbEvent
      BY <1>1, <2>2, TaskOf
    <3>2. Due(tsBatch', c) = b \o w
      BY <1>0, <1>10, <2>2, <3>1, DueAppend
    <3>3. OwnWrite(c)' = <<>>
      BY <1>8, <2>2, NoTaskOp DEF OwnWrite
    <3>4. b \o w \in Seq(Task)
      BY <1>3, TasksConcat
    <3> QED
      BY <2>1, <3>2, <3>3, <3>4, ConcatEmptySeq
  <2>3. CASE t.op = "content"
    <3>1. t.ev \in AmbEvent
      BY <1>1, <2>3, TaskOf
    <3>2. Due(tsBatch', c) = b \o Writes(EventTask(t.ev), c)
      BY <1>0, <1>10, <2>3, <3>1, DueAppend
    <3>3. OnDoc(t, c) <=> coordOf[t.ev] = c
      BY <2>3, <3>1 DEF OnDoc, AmbEvent, IsAmb
    <3>4. OwnWrite(c)' = IF OnDoc(t, c) THEN <<t>> ELSE <<>>
      BY <1>8, <2>3 DEF OwnWrite
    <3>5. CASE OnDoc(t, c)
      <4> DEFINE x == EventTask(t.ev)
      <4>1. x \in Task /\ w = <<x, t>> /\ Due(tsBatch', c) = b \o <<x>> /\ OwnWrite(c)' = <<t>>
        <5>1. x \in Task /\ Writes(x, c) = <<x>>
          <6>1. x \in Task
            BY <1>0, <3>1, ProjectionsAppend
          <6>2. Writes(x, c) = <<x>>
            BY <3>1, <3>3, <3>5, EventWrites
          <6> QED
            BY <6>1, <6>2
        <5>2. w = <<x, t>>
          BY <2>3, <3>5 DEF Writes
        <5> QED
          BY <3>2, <3>4, <3>5, <5>1, <5>2
      <4> HIDE DEF x, b, w, t
      <4>2. <<x>> \in Seq(Task) /\ <<t>> \in Seq(Task) /\ <<x>> \o <<t>> = <<x, t>>
        BY <1>1, <4>1, OneThenOne
      <4>3. (b \o <<x>>) \o <<t>> = b \o (<<x>> \o <<t>>)
        BY <1>3, <4>2, TasksRegroup
      <4> QED
        BY <2>1, <4>1, <4>2, <4>3
    <3>6. CASE ~ OnDoc(t, c)
      <4>1. w = <<>> /\ Due(tsBatch', c) = b \o <<>> /\ OwnWrite(c)' = <<>>
        BY <3>1, <3>2, <3>3, <3>4, <3>6, EventWrites DEF Writes
      <4> QED
        BY <1>3, <2>1, <4>1, ConcatEmptySeq
    <3> QED
      BY <3>5, <3>6
  <2>4. CASE t.op \in {"stamp", "delete"}
    <3>1. tsBatch' = tsBatch /\ tsTask' = t
      BY <1>8, <1>10, <2>4
    <3>2. OwnWrite(c)' = w
      BY <2>4, <3>1 DEF OwnWrite, Writes
    <3> QED
      BY <2>1, <3>1, <3>2
  <2> QED
    BY <1>7, <2>2, <2>3, <2>4
<1> HIDE DEF b, w, a
<1>13. Outstanding(c)' = (b \o w) \o a
  BY <1>6, <1>9, <1>12 DEF Outstanding, Reading, a
<1> QED
  BY <1>3, <1>5, <1>13, TasksRegroup

(* The worker's side of a flush without a task, and of the shutdown.       *)
LEMMA FinalSame ==
  ASSUME OrderInv, TSTick \/ TSFinalFlush \/ TSDrain, NEW c \in Coord
  PROVE  Outstanding(c)' = Outstanding(c)
<1>0. tsTask = NoTask /\ UNCHANGED <<tsCh, tsBatch, tsKept>>
  BY DEF TSTick, TSFinalFlush, TSDrain, tsWorkerVars, OrderInv, TaskFits
<1>1. tsTask' \in {NoTask, Tick, Final} /\ OwnWrite(c) = <<>> /\ OwnWrite(c)' = <<>>
  BY <1>0, NoTaskOp DEF TSTick, TSFinalFlush, TSDrain, tsWorkerVars, OwnWrite
<1>2. InWorker(c)' = InWorker(c) /\ InWorker(c) \in Seq(Task)
  BY <1>0, <1>1, OutstandingIs DEF InWorker, OrderInv, BatchInv
<1>3. CASE TSTick \/ TSDrain
  <2>1. Reading /\ Reading'
    BY <1>0, <1>3, NoTaskOp DEF TSTick, TSDrain, tsWorkerVars, Reading
  <2> QED
    BY <1>0, <1>2, <2>1 DEF Outstanding, Reading
<1>4. CASE TSFinalFlush
  <2>1. Reading /\ ~ Reading' /\ tsPc' # "idle" /\ tsCh = <<>>
    BY <1>0, <1>4, NoTaskOp DEF TSFinalFlush, Reading
  <2>2. Outstanding(c) = InWorker(c) \o <<>> /\ Outstanding(c)' = InWorker(c)'
    BY <2>1, AskedEmpty DEF Outstanding, Reading
  <2> QED
    BY <1>2, <2>2, ConcatEmptySeq
<1> QED
  BY <1>3, <1>4

(* Past the deadline, what the worker has not begun is lost.               *)
LEMMA LateStep ==
  ASSUME OrderInv, TSAbandon \/ TSExpire, NEW c \in Coord
  PROVE  PerDocument!Step(Outstanding(c), Outstanding(c)', docs[c], docs'[c])
<1>0. TSTypeOK /\ UNCHANGED <<docs, tsPc, tsTask, tsBatch, tsKept>> /\ ~ Reading'
  BY DEF OrderInv, BatchInv, TSAbandon, TSExpire, tsWorkerVars, Reading
<1>1. InWorker(c)' = InWorker(c)
  BY <1>0 DEF InWorker, OwnWrite
<1>2. InWorker(c) \in Seq(Task) /\ Rest(c) \in Seq(Task) /\ Outstanding(c) \in Seq(Task)
  BY <1>0, OutstandingIs
<1>3. CASE TSAbandon
  <2>1. Outstanding(c) = InWorker(c) \o Rest(c)
    BY <1>0, <1>3, OutstandingIs DEF TSAbandon
  <2>2. Outstanding(c)' = InWorker(c)
    BY <1>0, <1>1, <1>3 DEF Outstanding, Reading, TSAbandon
  <2> QED
    BY <1>0, <1>2, <2>1, <2>2, StepDrop
<1>4. CASE TSExpire
  <2>1. Outstanding(c)' = <<>>
    BY <1>0, <1>4 DEF Outstanding, Reading, TSExpire
  <2>2. <<>> \in Seq(Task) /\ Outstanding(c) = <<>> \o Outstanding(c)
    BY <1>2, ConcatEmptySeq
  <2> QED
    BY <1>0, <1>2, <2>1, <2>2, StepDrop
<1> QED
  BY <1>3, <1>4

LEMMA RunStep ==
  ASSUME OrderInv, TSRun, NEW c \in Coord
  PROVE  PerDocument!Step(Outstanding(c), Outstanding(c)', docs[c], docs'[c])
<1>1. CASE TSTake \/ TSTick \/ TSDrain \/ TSFinalFlush
  <2>1. Outstanding(c)' = Outstanding(c)
    BY <1>1, TakeSame, FinalSame
  <2>2. docs' = docs
    BY <1>1 DEF TSTake, TSTick, TSDrain, TSFinalFlush
  <2> QED
    BY <2>1, <2>2, LogSame
<1>2. CASE TSProcess
  BY <1>2, FilterStep, FilteredStep, UpsertStep, DeleteStep, PatchStep, RecheckStep DEF TSProcess
<1>3. CASE TSAbandon \/ TSExpire
  BY <1>3, LateStep
<1> QED
  BY <1>1, <1>2, <1>3 DEF TSRun, TSShutdown

LEMMA EnvStep ==
  ASSUME OrderInv, TSEnv, NEW c \in Coord
  PROVE  PerDocument!Step(Outstanding(c), Outstanding(c)', docs[c], docs'[c])
<1>1. CASE (\E p \in Caller, t \in Task : TSQueue(p, t)) \/ TSCloseFlag \/ TSCloseDone
  <2>1. UNCHANGED <<docs, tsCh, tsPhase, tsWorkerVars>>
    BY <1>1 DEF TSQueue, TSCloseFlag, TSCloseDone
  <2>2. Outstanding(c)' = Outstanding(c)
    BY <2>1, LogDependsOn DEF tsWorkerVars, Reading
  <2> QED
    BY <2>1, <2>2, LogSame
<1>2. ASSUME NEW p \in Caller, TSSend(p)
      PROVE  PerDocument!Step(Outstanding(c), Outstanding(c)', docs[c], docs'[c])
  BY <1>2, SendStep DEF TSSend
<1>3. ASSUME NEW e \in Event, TSPurge(e)
      PROVE  PerDocument!Step(Outstanding(c), Outstanding(c)', docs[c], docs'[c])
  <2>1. Outstanding(c)' = Outstanding(c)
    BY <1>3, LogDependsOn DEF TSPurge, tsWorkerVars, Reading
  <2>2. docs'[c] = docs[c] \/ docs'[c] = NoDoc
    BY <1>3 DEF TSPurge, Deleted
  <2> QED
    BY <2>1, <2>2, LogSame, StepDeletion
<1> QED
  BY <1>1, <1>2, <1>3 DEF TSEnv

(* Each AMB document sees the writes queued for it in the order of their   *)
(* queuing: what happens to it is, at every step, a write joining its log, *)
(* the first write of the log or the projections at its head taking effect *)
(* or failing, one lost to the gate, the rest lost to the deadline, or a   *)
(* purge.  The buffer implements ProjectionLog.                            *)
THEOREM WritesReachDocumentsInOrder == TSSafeSpec => WritesInOrderPerDocument
<1>1. TSBufferInit => PerDocument!Init
  <2> SUFFICES ASSUME TSInit PROVE PerDocument!Init
    BY DEF TSBufferInit
  <2>1. docs = [c \in Coord |-> NoDoc] /\ tsCh = <<>> /\ tsTask = NoTask /\ tsBatch = <<>> /\ tsKept = <<>>
    BY DEF TSInit, TSFresh
  <2>2. ASSUME NEW c \in Coord PROVE Outstanding(c) = <<>>
    <3>1. OwnWrite(c) = <<>>
      BY <2>1, NoTaskOp DEF OwnWrite
    <3>2. <<>> \in Seq(AmbEvent) /\ tsKept \o tsBatch = <<>>
      BY <2>1
    <3>3. Due(<<>>, c) = <<>>
      BY <3>2, DueType
    <3>4. InWorker(c) = <<>> /\ Asked(tsCh, c) = <<>>
      BY <2>1, <3>1, <3>2, <3>3, AskedEmpty DEF InWorker, Due
    <3> QED
      BY <3>4 DEF Outstanding
  <2> QED
    BY <2>1, <2>2 DEF PerDocument!Init, PerDocument!NoDoc, NoDoc
<1>2. OrderInv /\ OrderInv' /\ [TSNext]_TSBufferVars => [PerDocument!Next]_<<[c \in Coord |-> Outstanding(c)], docs>>
  <2> SUFFICES ASSUME OrderInv, OrderInv', [TSNext]_TSBufferVars PROVE PerDocument!Next
    OBVIOUS
  <2>1. DOMAIN docs' = Coord
    BY DEF OrderInv, BatchInv, TSTypeOK
  <2>2. ASSUME NEW c \in Coord
        PROVE  PerDocument!Step(Outstanding(c), Outstanding(c)', docs[c], docs'[c])
    <3>1. CASE TSRun
      BY <3>1, RunStep
    <3>2. CASE TSEnv
      BY <3>2, EnvStep
    <3>3. CASE UNCHANGED tsVars
      <4>1. Outstanding(c)' = Outstanding(c) /\ docs' = docs
        BY <3>3, LogDependsOn DEF tsVars, tsWorkerVars, Reading
      <4> QED
        BY <4>1, LogSame
    <3> QED
      BY <3>1, <3>2, <3>3 DEF TSNext, TSBufferVars
  <2> QED
    BY <2>1, <2>2 DEF PerDocument!Next
<1> QED
  BY <1>1, <1>2, OrderInvHolds, PTL DEF TSSafeSpec, WritesInOrderPerDocument, PerDocument!Spec, PerDocument!vars
=============================================================================
