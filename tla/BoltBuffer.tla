------------------------------ MODULE BoltBuffer ------------------------------
(***************************************************************************)
(* BoltWriteBuffer (bolt_buffer.go): event handlers hand their writes to a *)
(* bounded channel; one worker goroutine applies them to the raw store,    *)
(* asking the gate before every attempt and once more after the write.     *)
(* Close stops intake, then waits for a drain bounded by a deadline.       *)
(***************************************************************************)
EXTENDS Gate, RawStore, Sequences

CONSTANTS
  BoltBufSize,    \* capacity of the channel
  BoltMaxRetries  \* write attempts per operation

ASSUME BoltAssumption ==
  /\ BoltBufSize \in Nat \ {0}
  /\ BoltMaxRetries \in Nat \ {0}

VARIABLES
  bolt,         \* events in the raw store
  boltCall,     \* Caller -> the operation it is sending, NoOp outside Queue
  boltCh,       \* the channel
  boltClosed,   \* the closed flag Queue reads
  boltDone,     \* TRUE once the done channel is closed
  boltPhase,    \* the worker goroutine: live loop, drain, or returned
  boltExpired,  \* TRUE once the drain was abandoned at its deadline
  boltWorker,   \* the operation in process(), and where it stands
  boltRacers,   \* history: operations inside Queue when closed was stored
  boltOrphans   \* history: events whose last removal failed or was lost

boltVars == <<bolt, boltCall, boltCh, boltClosed, boltDone, boltPhase,
              boltExpired, boltWorker, boltRacers, boltOrphans>>

NoOp == [ev |-> NoEvent, replace |-> FALSE]

BoltPc == {"idle", "check", "write", "backoff", "heal", "healDelete"}

BoltIdle == [pc |-> "idle", op |-> NoOp, attempt |-> 0]

BoltTypeOK ==
  /\ bolt \in SUBSET Event
  /\ boltCall \in [Caller -> BoltOp \cup {NoOp}]
  /\ boltCh \in Seq(BoltOp) /\ Len(boltCh) <= BoltBufSize
  /\ boltClosed \in BOOLEAN /\ boltDone \in BOOLEAN /\ boltExpired \in BOOLEAN
  /\ boltPhase \in {"run", "drain", "stopped"}
  /\ boltWorker \in [pc : BoltPc, op : BoltOp \cup {NoOp}, attempt : 0..BoltMaxRetries]
  /\ boltWorker.pc # "idle" => boltWorker.op \in BoltOp
  /\ boltRacers \in SUBSET BoltOp
  /\ boltOrphans \in SUBSET Event

(* Everything but the raw store and the histories, as a start of the       *)
(* process leaves it.                                                      *)
BoltFresh ==
  /\ boltCall = [p \in Caller |-> NoOp]
  /\ boltCh = <<>>
  /\ boltClosed = FALSE /\ boltDone = FALSE /\ boltExpired = FALSE
  /\ boltPhase = "run"
  /\ boltWorker = BoltIdle

BoltInit ==
  /\ bolt = {}
  /\ BoltFresh
  /\ boltRacers = {} /\ boltOrphans = {}

-----------------------------------------------------------------------------
(* Producers. *)

(* Queue reads closed as FALSE and is about to send.  (When it reads TRUE  *)
(* it returns false and changes nothing.)                                  *)
BoltQueue(p, op) ==
  /\ ~ boltClosed
  /\ boltCall[p] = NoOp
  /\ boltCall' = [boltCall EXCEPT ![p] = op]
  /\ UNCHANGED <<bolt, boltCh, boltClosed, boltDone, boltPhase, boltExpired,
                 boltWorker, boltRacers, boltOrphans>>

(* The send goes through when the channel has room; it never panics, since *)
(* the channel is never closed, and does not look at closed again.         *)
BoltSend(p) ==
  /\ boltCall[p] # NoOp
  /\ Len(boltCh) < BoltBufSize
  /\ boltCh' = Append(boltCh, boltCall[p])
  /\ boltCall' = [boltCall EXCEPT ![p] = NoOp]
  /\ UNCHANGED <<bolt, boltClosed, boltDone, boltPhase, boltExpired,
                 boltWorker, boltRacers, boltOrphans>>

(* Close, first half: closed.Store(true). *)
BoltCloseFlag ==
  /\ ~ boltClosed
  /\ boltClosed' = TRUE
  /\ boltRacers' = {boltCall[p] : p \in Caller} \ {NoOp}
  /\ UNCHANGED <<bolt, boltCall, boltCh, boltDone, boltPhase, boltExpired,
                 boltWorker, boltOrphans>>

(* Close, second half: close(done). *)
BoltCloseDone ==
  /\ boltClosed /\ ~ boltDone
  /\ boltDone' = TRUE
  /\ UNCHANGED <<bolt, boltCall, boltCh, boltClosed, boltPhase, boltExpired,
                 boltWorker, boltRacers, boltOrphans>>

-----------------------------------------------------------------------------
(* The worker. *)

BoltMove(pc) == boltWorker' = [boltWorker EXCEPT !.pc = pc]

BoltReturn == boltWorker' = BoltIdle

boltCallerVars == <<boltCall, boltClosed, boltDone, boltRacers>>

(* An operation leaves the channel; the live select may still pick one     *)
(* after done is closed.                                                   *)
BoltTake ==
  /\ boltWorker.pc = "idle" /\ boltPhase # "stopped"
  /\ boltCh # <<>>
  /\ boltCh' = Tail(boltCh)
  /\ boltWorker' = [pc |-> "check", op |-> Head(boltCh), attempt |-> 1]
  /\ UNCHANGED <<bolt, boltPhase, boltExpired, boltOrphans, boltCallerVars>>

(* The gate is asked before every attempt; a blocked event is dropped. *)
BoltCheck ==
  /\ boltWorker.pc = "check"
  /\ \/ Blocked(boltWorker.op.ev) /\ BoltReturn
     \/ ~ Blocked(boltWorker.op.ev) /\ BoltMove("write")
  /\ UNCHANGED <<bolt, boltCh, boltPhase, boltExpired, boltOrphans, boltCallerVars>>

BoltWriteOK ==
  /\ boltWorker.pc = "write"
  /\ bolt' = Written(bolt, boltWorker.op)
  /\ BoltMove("heal")
  /\ UNCHANGED <<boltCh, boltPhase, boltExpired, boltOrphans, boltCallerVars>>

(* A permanent rejection drops the event, anything else backs off. *)
BoltWriteFail ==
  /\ boltWorker.pc = "write"
  /\ BoltReturn \/ BoltMove("backoff")
  /\ UNCHANGED <<bolt, boltCh, boltPhase, boltExpired, boltOrphans, boltCallerVars>>

(* Mutants of BoltRetry: one attempt too many, no end of attempts, and a   *)
(* retry that queues up again behind the others.                           *)
BoltRetryOnceMore ==
  /\ boltWorker.pc = "backoff"
  /\ IF boltWorker.attempt <= BoltMaxRetries
       THEN boltWorker' = [boltWorker EXCEPT !.pc = "check", !.attempt = @ + 1]
       ELSE BoltReturn
  /\ UNCHANGED <<bolt, boltCh, boltPhase, boltExpired, boltOrphans, boltCallerVars>>

BoltRetryForever ==
  /\ boltWorker.pc = "backoff"
  /\ BoltMove("check")
  /\ UNCHANGED <<bolt, boltCh, boltPhase, boltExpired, boltOrphans, boltCallerVars>>

BoltRetryAtTail ==
  /\ boltWorker.pc = "backoff"
  /\ boltCh' = Append(boltCh, boltWorker.op)
  /\ BoltReturn
  /\ UNCHANGED <<bolt, boltPhase, boltExpired, boltOrphans, boltCallerVars>>

(* After the sleep: the next attempt, from the gate on, or give up. *)
BoltRetry ==
  /\ boltWorker.pc = "backoff"
  /\ IF boltWorker.attempt < BoltMaxRetries
       THEN boltWorker' = [boltWorker EXCEPT !.pc = "check", !.attempt = @ + 1]
       ELSE BoltReturn
  /\ UNCHANGED <<bolt, boltCh, boltPhase, boltExpired, boltOrphans, boltCallerVars>>

(* Mutant of BoltHeal: no second look at the gate. *)
BoltHealSkipped ==
  /\ boltWorker.pc = "heal"
  /\ BoltReturn
  /\ UNCHANGED <<bolt, boltCh, boltPhase, boltExpired, boltOrphans, boltCallerVars>>

(* selfHealIfBanned: the gate again, after the write. *)
BoltHeal ==
  /\ boltWorker.pc = "heal"
  /\ \/ Blocked(boltWorker.op.ev) /\ BoltMove("healDelete")
     \/ ~ Blocked(boltWorker.op.ev) /\ BoltReturn
  /\ UNCHANGED <<bolt, boltCh, boltPhase, boltExpired, boltOrphans, boltCallerVars>>

(* A delete of the raw store, which may fail (the error is only logged). *)
BoltDelete(e) ==
  \/ bolt' = bolt \ {e} /\ boltOrphans' = boltOrphans \ {e}
  \/ boltOrphans' = boltOrphans \cup {e} /\ UNCHANGED bolt

BoltHealDelete ==
  /\ boltWorker.pc = "healDelete"
  /\ BoltDelete(boltWorker.op.ev)
  /\ BoltReturn
  /\ UNCHANGED <<boltCh, boltPhase, boltExpired, boltCallerVars>>

BoltProcess ==
  BoltCheck \/ BoltWriteOK \/ BoltWriteFail \/ BoltRetry \/ BoltHeal \/ BoltHealDelete

(* Mutants of BoltDrain: the loop returns without draining, and it looks   *)
(* at done only when an operation arrives.                                 *)
BoltDrainSkipped ==
  /\ boltWorker.pc = "idle" /\ boltPhase = "run"
  /\ boltDone
  /\ boltPhase' = "stopped"
  /\ UNCHANGED <<bolt, boltCh, boltExpired, boltWorker, boltOrphans, boltCallerVars>>

BoltDrainOnTraffic ==
  /\ boltWorker.pc = "idle" /\ boltPhase = "run"
  /\ boltDone /\ boltCh # <<>>
  /\ boltPhase' = "drain"
  /\ UNCHANGED <<bolt, boltCh, boltExpired, boltWorker, boltOrphans, boltCallerVars>>

(* The live loop sees done and starts the drain. *)
BoltDrain ==
  /\ boltWorker.pc = "idle" /\ boltPhase = "run"
  /\ boltDone
  /\ boltPhase' = "drain"
  /\ UNCHANGED <<bolt, boltCh, boltExpired, boltWorker, boltOrphans, boltCallerVars>>

(* The drain finds the channel empty and the goroutine returns. *)
BoltDrained ==
  /\ boltWorker.pc = "idle" /\ boltPhase = "drain"
  /\ boltCh = <<>>
  /\ boltPhase' = "stopped"
  /\ UNCHANGED <<bolt, boltCh, boltExpired, boltWorker, boltOrphans, boltCallerVars>>

(* The deadline passes while an operation is in process(): the drain       *)
(* returns and the operation's goroutine is left to finish on its own.     *)
BoltAbandon ==
  /\ boltWorker.pc # "idle" /\ boltPhase = "drain"
  /\ boltPhase' = "stopped" /\ boltExpired' = TRUE
  /\ UNCHANGED <<bolt, boltCh, boltWorker, boltOrphans, boltCallerVars>>

(* The deadline has passed when the next operation is taken: it is dropped *)
(* before it starts.                                                       *)
BoltTakeExpired ==
  /\ boltWorker.pc = "idle" /\ boltPhase = "drain"
  /\ boltCh # <<>>
  /\ boltCh' = Tail(boltCh)
  /\ boltPhase' = "stopped" /\ boltExpired' = TRUE
  /\ UNCHANGED <<bolt, boltWorker, boltOrphans, boltCallerVars>>

BoltShutdown == BoltDrain \/ BoltDrained \/ BoltAbandon \/ BoltTakeExpired

BoltRun == BoltTake \/ BoltProcess \/ BoltShutdown

-----------------------------------------------------------------------------
(* The buffer among arbitrary producers and purges.  All it learns of the  *)
(* gate is whether an event is blocked, so bans and allows stand for every *)
(* change of the gate.                                                     *)

BoltPurge(e) ==
  /\ BoltDelete(e)
  /\ UNCHANGED <<boltCall, boltCh, boltClosed, boltDone, boltPhase, boltExpired,
                 boltWorker, boltRacers>>

BoltEnv ==
  \/ \E p \in Caller, op \in BoltOp : BoltQueue(p, op)
  \/ \E p \in Caller : BoltSend(p)
  \/ BoltCloseFlag
  \/ BoltCloseDone
  \/ \E e \in Event : BoltPurge(e)

BoltNext ==
  \/ (BoltRun \/ BoltEnv) /\ UNCHANGED gateVars
  \/ \E e \in Event : (RecordBan(e) \/ AllowEvent(e)) /\ UNCHANGED boltVars

BoltBufferVars == <<gateVars, boltVars>>

(* The goroutines are scheduled: the live loop takes what is there, the    *)
(* drain's deadline passes, a blocked send is woken when there is room     *)
(* (the runtime serves senders in order), Close gets to its second half.   *)
BoltScheduling ==
  /\ WF_BoltBufferVars(BoltTake /\ UNCHANGED gateVars)
  /\ WF_BoltBufferVars(BoltShutdown /\ UNCHANGED gateVars)
  /\ WF_BoltBufferVars(BoltCloseDone /\ UNCHANGED gateVars)
  /\ \A p \in Caller : SF_BoltBufferVars(BoltSend(p) /\ UNCHANGED gateVars)

(* Every call into the store returns, so process() comes to an end. *)
BoltCallsReturn == WF_BoltBufferVars(BoltProcess /\ UNCHANGED gateVars)

BoltBufferInit == GateInit /\ BoltInit

BoltSafeSpec == BoltBufferInit /\ [][BoltNext]_BoltBufferVars

BoltSpec == BoltSafeSpec /\ BoltScheduling /\ BoltCallsReturn

-----------------------------------------------------------------------------
(* Properties. *)

(* Shutdown loses no accepted write except one whose Queue call had read   *)
(* the closed flag before Close stored it: unless the deadline cut the     *)
(* drain short, whatever is left in the channel once the worker has        *)
(* returned was inside Queue at that moment (the argument on drain and     *)
(* Close).                                                                 *)
OnlyRacersLost ==
  boltPhase = "stopped" /\ ~ boltExpired =>
    \A i \in DOMAIN boltCh : boltCh[i] \in boltRacers

(* The worker writes in the order of acceptance, each operation at most    *)
(* once, whatever fails, is retried or is healed in between.               *)
Sequential == INSTANCE FifoStore WITH
  queue <- (IF boltWorker.pc \in {"check", "write", "backoff"}
              THEN <<boltWorker.op>> ELSE <<>>) \o boltCh,
  store <- bolt

WritesInOrder == Sequential!Spec

(* Close returns. *)
CloseReturns == boltClosed ~> boltPhase = "stopped"

(* A handler blocked on a full channel gets its write in, unless the       *)
(* worker has returned for shutdown.                                       *)
SenderReleased ==
  \A p \in Caller : boltCall[p] # NoOp ~> boltCall[p] = NoOp \/ boltPhase = "stopped"
=============================================================================
