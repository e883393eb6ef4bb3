---------------------------- MODULE ProfileManager ----------------------------
(***************************************************************************)
(* ProfileManager (profile_manager.go): pubkeys whose kind-0 profile is    *)
(* wanted sit in a durable queue.  Whoever enqueues one kicks the single   *)
(* drain worker, which walks the queue in batches, fetches the profiles    *)
(* from other relays, stores and dequeues what it got, and after a drain   *)
(* that left something arms one delayed retry.  The NIP-05 directories     *)
(* seed the queue too: their poller enqueues new members, and the refresh  *)
(* loop takes in the members known at its tick.                            *)
(***************************************************************************)
EXTENDS Integers, NIP05Directory

CONSTANTS
  keyRank,      \* Author -> its place in the key order of the queue
  Handler,      \* goroutines that enqueue single authors
  seeder,       \* main in Init and the refresh loop after it
  poller,       \* the directory's goroutine
  Known,        \* authors a backfill scan finds
  BatchSize,    \* authors asked for at once
  HasFallback,  \* whether PROFILE_FALLBACK_RELAYS are configured
  MaxEnqueues,  \* bound: Enqueue calls of handlers
  Apart,        \* bound: whether a behaviour has either directories or other feeders
  MaxRestarts   \* bound: times the process stops and starts again

ASSUME ProfileAssumption ==
  /\ IsFiniteSet(Author)
  /\ keyRank \in [Author -> Nat]
  /\ \A a, b \in Author : keyRank[a] = keyRank[b] => a = b
  /\ seeder \notin Handler /\ poller \notin Handler /\ poller # seeder
  /\ Known \subseteq Author
  /\ BatchSize \in Nat \ {0}
  /\ HasFallback \in BOOLEAN /\ Apart \in BOOLEAN

VARIABLES
  queue,      \* bucket profile_queue
  profiles,   \* authors with a document in the profiles collection
  kicked,     \* kickCh holds its one signal
  caller,     \* goroutine -> where it is in Enqueue, and what it still has to enqueue
  worker,     \* the drain worker
  armed,      \* the retry timer is armed
  untried,    \* history: authors enqueued and not asked for since
  passedOver, \* history: authors a drain gave up without arming a retry
  ample,      \* whether profileDrainTimeout covers a walk of the whole queue
  enqueues, restarts

vars == <<queue, profiles, kicked, caller, worker, armed, untried, passedOver,
          ample, enqueues, restarts, directoryVars>>

Goroutine == Handler \cup {seeder, poller}

CallerPc == {"idle", "put", "kick", "last"}

(* left: listed, not asked for yet.  open: listed, not resolved.  batch:   *)
(* being asked for.  found: fetched and parsed, not stored yet.            *)
WorkerPc == {"wait", "debounce", "list", "batch", "fetch", "store", "stopped"}

WorkerState ==
  [pc : WorkerPc, isRetry : BOOLEAN, fallback : BOOLEAN, left : SUBSET Author,
   open : SUBSET Author, batch : SUBSET Author, found : SUBSET Author]

Resting == [pc |-> "wait", isRetry |-> FALSE, fallback |-> FALSE,
            left |-> {}, open |-> {}, batch |-> {}, found |-> {}]

ProfileTypeOK ==
  /\ queue \in SUBSET Author /\ profiles \in SUBSET Author
  /\ kicked \in BOOLEAN /\ armed \in BOOLEAN
  /\ caller \in [Goroutine -> [pc : CallerPc, todo : SUBSET Author]]
  /\ worker \in WorkerState
  /\ worker.found \subseteq worker.batch /\ worker.batch \subseteq worker.open
  /\ worker.left \cap worker.batch = {}
  /\ untried \in SUBSET Author /\ passedOver \in SUBSET Author
  /\ ample \in BOOLEAN /\ enqueues \in Nat /\ restarts \in Nat
  /\ DirectoryTypeOK

(* Where feeders are kept apart, nobody but the directories has authors to *)
(* enqueue once there are directories.                                     *)
DirectoriesAlone == Apart /\ urls # <<>>

(* The authors a scan of the raw store finds. *)
Scanned == IF DirectoriesAlone THEN {} ELSE Known

(* A backfill: what the scan finds and the members known now are enqueued, *)
(* pubkey by pubkey, and one more kick given.                              *)
SeedingWith(known) == [pc |-> IF known = {} THEN "last" ELSE "put", todo |-> known]

Seeding == SeedingWith(Scanned \cup Members)

(* Init: the worker is started and the first backfill begun, while no      *)
(* directory has been polled yet.                                          *)
Started == [g \in Goroutine |-> IF g = seeder THEN SeedingWith(Scanned) ELSE [pc |-> "idle", todo |-> {}]]

Init ==
  /\ DirectoryInit
  /\ queue = {} /\ profiles = {}
  /\ kicked = FALSE /\ armed = FALSE
  /\ caller = Started
  /\ worker = Resting
  /\ untried = {} /\ passedOver = {}
  /\ ample \in BOOLEAN
  /\ enqueues = 0 /\ restarts = 0

bounds == <<ample, enqueues, restarts, directoryVars>>

managerVars == <<queue, profiles, kicked, worker, armed, untried, passedOver, ample, enqueues, restarts>>

-----------------------------------------------------------------------------
(* Enqueue, and the backfill loops around it. *)

Enqueue(h, a) ==
  /\ caller[h].pc = "idle"
  /\ enqueues < MaxEnqueues /\ ~ DirectoriesAlone
  /\ enqueues' = enqueues + 1
  /\ caller' = [caller EXCEPT ![h] = [pc |-> "put", todo |-> {a}]]
  /\ UNCHANGED <<queue, profiles, kicked, worker, armed, untried, passedOver,
                 ample, restarts, directoryVars>>

(* A tick of the refresh loop; once Stop was called it may still win.      *)
Refresh ==
  /\ caller[seeder].pc = "idle"
  /\ caller' = [caller EXCEPT ![seeder] = Seeding]
  /\ UNCHANGED <<queue, profiles, kicked, worker, armed, untried, passedOver, bounds>>

(* Into the queue; an error is only logged. *)
Put(g) ==
  /\ caller[g].pc = "put"
  /\ \E a \in caller[g].todo :
       /\ caller' = [caller EXCEPT ![g] = [pc |-> "kick", todo |-> @.todo \ {a}]]
       /\ \/ queue' = queue \cup {a} /\ untried' = untried \cup {a}
          \/ UNCHANGED <<queue, untried>>
       /\ announced' = IF g = poller THEN announced \cup {a} ELSE announced
  /\ UNCHANGED <<profiles, kicked, worker, armed, passedOver, ample, enqueues, restarts,
                 urls, names, members, poll, changes>>

(* The kick that follows every put, and the seeder's last. *)
Kick(g) ==
  /\ caller[g].pc \in {"kick", "last"}
  /\ kicked' = TRUE
  /\ caller' = [caller EXCEPT ![g].pc = IF caller[g].todo # {} THEN "put"
                                        ELSE IF g = seeder /\ @ = "kick" THEN "last"
                                        ELSE "idle"]
  /\ UNCHANGED <<queue, profiles, worker, armed, untried, passedOver, bounds>>

(* The poller enqueues what a poll has found before it polls again. *)
Poll ==
  /\ caller[poller].pc = "idle"
  /\ \/ (PollBegins \/ DirectoryAnswers \/ DirectoryFails) /\ UNCHANGED caller
     \/ /\ PollEnds
        /\ caller' = [caller EXCEPT ![poller] = [pc |-> IF Added = {} THEN "idle" ELSE "put", todo |-> Added]]
  /\ UNCHANGED managerVars

-----------------------------------------------------------------------------
(* The drain worker. *)

TakeKick ==
  /\ worker.pc = "wait" /\ kicked
  /\ kicked' = FALSE
  /\ worker' = [worker EXCEPT !.pc = "debounce"]
  /\ UNCHANGED <<queue, profiles, caller, armed, untried, passedOver, bounds>>

(* A pending retry is forgotten: the drain to come arms its own. *)
Debounced ==
  /\ worker.pc = "debounce"
  /\ armed' = FALSE
  /\ worker' = [worker EXCEPT !.pc = "list"]
  /\ UNCHANGED <<queue, profiles, kicked, caller, untried, passedOver, bounds>>

Retry ==
  /\ worker.pc = "wait" /\ armed
  /\ armed' = FALSE
  /\ worker' = [worker EXCEPT !.pc = "list", !.isRetry = TRUE]
  /\ UNCHANGED <<queue, profiles, kicked, caller, untried, passedOver, bounds>>

(* Mutant of DrainEnds: a retry arms the next. *)
DrainEndsRearms(open, given) ==
  /\ armed' = (open # {})
  /\ worker' = Resting
  /\ passedOver' = passedOver

(* The drain's end: a drain that left authors open arms the retry, unless  *)
(* it is the retry itself.  given: the authors it did not ask for.         *)
DrainEnds(open, given) ==
  LET arms == open # {} /\ ~ worker.isRetry
  IN /\ armed' = arms
     /\ worker' = Resting
     /\ passedOver' = IF arms THEN passedOver ELSE passedOver \cup given

List ==
  /\ worker.pc = "list"
  /\ worker' = [worker EXCEPT !.pc = "batch", !.left = queue, !.open = queue]
  /\ passedOver' = {}
  /\ UNCHANGED <<queue, profiles, kicked, caller, armed, untried, bounds>>

(* The listing fails: drainOnce reports nothing unresolved. *)
ListFails ==
  /\ worker.pc = "list"
  /\ DrainEnds({}, queue)
  /\ UNCHANGED <<queue, profiles, kicked, caller, untried, bounds>>

(* The first authors of what is left, in key order. *)
FirstOf(left) == {a \in left : Cardinality({b \in left : keyRank[b] < keyRank[a]}) < BatchSize}

AskPrimary ==
  /\ worker.pc = "batch" /\ worker.left # {}
  /\ LET b == FirstOf(worker.left)
     IN /\ worker' = [worker EXCEPT !.pc = "fetch", !.batch = b, !.left = @ \ b,
                                    !.fallback = FALSE]
        /\ untried' = untried \ b
  /\ UNCHANGED <<queue, profiles, kicked, caller, armed, passedOver, bounds>>

(* Whatever the relays answered in time and ParseMetadata understood. *)
Fetch ==
  /\ worker.pc = "fetch"
  /\ \E found \in SUBSET worker.batch :
       worker' = [worker EXCEPT !.pc = "store", !.found = found]
  /\ UNCHANGED <<queue, profiles, kicked, caller, armed, untried, passedOver, bounds>>

(* Store and dequeue one: the store tells nobody of a failure, and that of *)
(* the dequeueing is ignored.                                              *)
StoreProfile ==
  /\ worker.pc = "store"
  /\ \E a \in worker.found :
       /\ profiles' \in {profiles, profiles \cup {a}}
       /\ queue' \in {queue, queue \ {a}}
       /\ worker' = [worker EXCEPT !.found = @ \ {a}, !.open = @ \ {a}, !.batch = @ \ {a}]
  /\ UNCHANGED <<kicked, caller, armed, untried, passedOver, bounds>>

(* Those the first relays did not have are asked for at the fallback. *)
AskFallback ==
  /\ worker.pc = "store" /\ worker.found = {}
  /\ HasFallback /\ ~ worker.fallback /\ worker.batch # {}
  /\ worker' = [worker EXCEPT !.pc = "fetch", !.fallback = TRUE]
  /\ UNCHANGED <<queue, profiles, kicked, caller, armed, untried, passedOver, bounds>>

BatchDone ==
  /\ worker.pc = "store" /\ worker.found = {}
  /\ ~ HasFallback \/ worker.fallback \/ worker.batch = {}

(* Mutant of NextBatch: a drain asks for one batch only. *)
NextBatchNever ==
  /\ BatchDone
  /\ worker' = [worker EXCEPT !.pc = "batch", !.batch = {}, !.left = {}]
  /\ UNCHANGED <<queue, profiles, kicked, caller, armed, untried, passedOver, bounds>>

NextBatch ==
  /\ BatchDone
  /\ worker' = [worker EXCEPT !.pc = "batch", !.batch = {}]
  /\ UNCHANGED <<queue, profiles, kicked, caller, armed, untried, passedOver, bounds>>

(* The drain's context has expired: the rest stays queued. *)
OutOfBudget ==
  /\ BatchDone
  /\ ~ ample
  /\ DrainEnds(worker.open, worker.left)
  /\ UNCHANGED <<queue, profiles, kicked, caller, untried, bounds>>

(* Mutant of QueueWalked: the kicks given during the drain are taken as    *)
(* served by it.                                                           *)
QueueWalkedSwallowsKick ==
  /\ worker.pc = "batch" /\ worker.left = {}
  /\ DrainEnds(worker.open, {})
  /\ kicked' = FALSE
  /\ UNCHANGED <<queue, profiles, caller, untried, bounds>>

QueueWalked ==
  /\ worker.pc = "batch" /\ worker.left = {}
  /\ DrainEnds(worker.open, {})
  /\ UNCHANGED <<queue, profiles, kicked, caller, untried, bounds>>

(* Stop, seen by the worker between drains or in the debounce. *)
Stop ==
  /\ worker.pc \in {"wait", "debounce"}
  /\ worker' = [worker EXCEPT !.pc = "stopped"]
  /\ UNCHANGED <<queue, profiles, kicked, caller, armed, untried, passedOver, bounds>>

Drain ==
  \/ TakeKick \/ Debounced \/ Retry \/ List \/ AskPrimary \/ Fetch \/ StoreProfile
  \/ AskFallback \/ NextBatch \/ OutOfBudget \/ QueueWalked

(* The process stops at any moment and starts again. *)
Restart ==
  /\ restarts < MaxRestarts
  /\ restarts' = restarts + 1
  /\ kicked' = FALSE /\ armed' = FALSE
  /\ caller' = Started
  /\ worker' = Resting
  /\ DirectoryRestarts
  /\ UNCHANGED <<queue, profiles, untried, passedOver, ample, enqueues>>

Enqueuing == \E g \in Goroutine : Put(g) \/ Kick(g)

Running ==
  \/ \E h \in Handler, a \in Author : Enqueue(h, a)
  \/ Refresh
  \/ Poll
  \/ DirectoryChanges /\ UNCHANGED <<managerVars, caller>>
  \/ Enqueuing
  \/ Drain
  \/ ListFails

Next == Running \/ Stop \/ Restart

(* The goroutines run, timers fire, calls return, and the listing of the   *)
(* queue does not fail every time.  Nothing is said of requests, of the    *)
(* refresh loop's ticks or of the ends of the process.                     *)
Fairness ==
  /\ WF_vars(Drain) /\ SF_vars(List)
  /\ \A g \in Goroutine : WF_vars(Put(g) \/ Kick(g))

Spec == Init /\ [][Next]_vars /\ Fairness

-----------------------------------------------------------------------------
(* Properties. *)

(* Someone is on the way who will ask for an author in the queue: a drain  *)
(* that has yet to list or to reach him, a kick, or a goroutine about to   *)
(* give one.                                                               *)
Coming(a) ==
  \/ kicked \/ armed
  \/ worker.pc \in {"debounce", "list", "stopped"}
  \/ a \in worker.left
  \/ caller[seeder].pc # "idle"
  \/ \E g \in Handler \cup {poller} : caller[g].pc = "kick"

(* No wakeup is lost: an enqueued author nobody has asked for since is     *)
(* never left to wait in the queue while the worker rests, whether he was  *)
(* enqueued during the debounce, the listing, the walk or the retry; the   *)
(* exceptions are the ones the code knows, a failed listing and a retry    *)
(* that ran out of its budget.                                             *)
NoLostWakeup == \A a \in queue \cap untried : Coming(a) \/ a \in passedOver

(* No member of a directory slips through: between polls everyone who is a *)
(* member has been handed to the queue, whichever directories answered,    *)
(* failed or changed in a poll (Poll, Start).                              *)
MembersHandedOn == poll.pc = "idle" /\ caller[poller].pc = "idle" => Members \subseteq announced

Stopped == worker.pc = "stopped"

(* Authors without a profile anywhere cause no poll loop: when the seeder  *)
(* and the handlers enqueue no more, the worker comes to rest with no      *)
(* retry armed (the comment on profileRetryDelay).                         *)
PollLoopEnds ==
  <>[](caller[seeder].pc = "idle") => <>[](Stopped \/ (worker.pc = "wait" /\ ~ armed))

(* While the refresh loop ticks and the drain's budget covers the queue,   *)
(* every enqueued author is asked for in the end, whatever fails on the    *)
(* way, or is dequeued by an answer to an earlier request for him.         *)
AuthorAskedFor ==
  ample /\ []<>(caller[seeder].pc # "idle") =>
    \A a \in Author : a \in queue \cap untried ~> a \notin queue \cap untried \/ Stopped
=============================================================================
