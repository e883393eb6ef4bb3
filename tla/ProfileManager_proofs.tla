------------------------- MODULE ProfileManager_proofs -------------------------
(***************************************************************************)
(* Theorems about the profile manager and the directories that feed it,    *)
(* for every set of authors, goroutines and directories, every batch size, *)
(* with and without fallback relays and with any budget.                   *)
(***************************************************************************)
EXTENDS ProfileManager, SequenceTheorems, TLAPS

-----------------------------------------------------------------------------
(* Type correctness. *)

LEMMA MembersType ==
  ASSUME DirectoryTypeOK
  PROVE  Members \in SUBSET Author
  BY DEF DirectoryTypeOK, Members, Range

LEMMA DirectoryInitType == DirectoryInit => DirectoryTypeOK
  BY DirectoryAssumption DEF DirectoryInit, DirectoryTypeOK, NoPoll

LEMMA DirectoryStepType ==
  ASSUME DirectoryTypeOK,
         \/ PollBegins \/ DirectoryAnswers \/ DirectoryFails \/ PollEnds
         \/ DirectoryChanges \/ DirectoryRestarts
  PROVE  DirectoryTypeOK'
<1> USE DEF DirectoryTypeOK
<1>1. CASE PollBegins
  <2>1. urls = Urls
    BY <1>1 DEF PollBegins
  <2>2. urls \in Seq(ToSet(urls))
    BY <2>1, DirectoryAssumption
  <2> QED
    BY <1>1, <2>2, MembersType DEF PollBegins
<1>2. CASE DirectoryAnswers
  <2>1. Head(poll.left) \in ToSet(urls) /\ Tail(poll.left) \in Seq(ToSet(urls))
    BY <1>2 DEF DirectoryAnswers
  <2> QED
    BY <1>2, <2>1 DEF DirectoryAnswers
<1>3. CASE DirectoryFails
  <2>1. Tail(poll.left) \in Seq(ToSet(urls))
    BY <1>3 DEF DirectoryFails
  <2> QED
    BY <1>3, <2>1 DEF DirectoryFails
<1>4. CASE PollEnds
  BY <1>4 DEF PollEnds, NoPoll
<1>5. CASE DirectoryChanges
  BY <1>5, DirectoryAssumption DEF DirectoryChanges
<1>6. CASE DirectoryRestarts
  BY <1>6 DEF DirectoryRestarts, NoPoll
<1> QED
  BY <1>1, <1>2, <1>3, <1>4, <1>5, <1>6

(* What the worker has in hand at each point of a drain.                   *)
WorkerOK ==
  /\ worker.left \subseteq worker.open
  /\ worker.pc \notin {"fetch", "store"} => worker.batch = {}
  /\ worker.pc \notin {"wait", "debounce", "stopped"} => ~ armed

CallerOK == \A g \in Goroutine : caller[g].pc = "idle" => caller[g].todo = {}

ManagerInv == ProfileTypeOK /\ WorkerOK /\ CallerOK

CallerType == [Goroutine -> [pc : CallerPc, todo : SUBSET Author]]

(* A step of the goroutines that enqueue. *)
LEMMA CallerStepType ==
  ASSUME ManagerInv, caller' \in CallerType, CallerOK', UNCHANGED <<worker, profiles, armed, passedOver, ample>>,
         queue' \in SUBSET Author, untried' \in SUBSET Author, kicked' \in BOOLEAN,
         enqueues' \in Nat, restarts' \in Nat, DirectoryTypeOK'
  PROVE  ManagerInv'
  BY DEF ManagerInv, ProfileTypeOK, WorkerOK, CallerType

LEMMA SeedingType ==
  ASSUME NEW known \in SUBSET Author
  PROVE  SeedingWith(known) \in [pc : CallerPc, todo : SUBSET Author] /\ SeedingWith(known).pc # "idle"
  BY DEF SeedingWith, CallerPc

LEMMA EnqueueType ==
  ASSUME ManagerInv,
         \/ \E h \in Handler, a \in Author : Enqueue(h, a)
         \/ Refresh \/ Enqueuing
  PROVE  ManagerInv'
<1>0. /\ ProfileTypeOK /\ DirectoryTypeOK /\ CallerOK
      /\ caller \in CallerType /\ enqueues \in Nat /\ restarts \in Nat
  BY DEF ManagerInv, ProfileTypeOK, CallerType
<1>1. ASSUME NEW h \in Handler, NEW a \in Author, Enqueue(h, a) PROVE ManagerInv'
  <2>1. caller' \in CallerType /\ CallerOK'
    BY <1>0, <1>1 DEF Enqueue, CallerType, CallerOK, CallerPc, Goroutine
  <2>2. DirectoryTypeOK'
    BY <1>0, <1>1 DEF Enqueue, directoryVars, DirectoryTypeOK
  <2> QED
    BY <1>0, <1>1, <2>1, <2>2, CallerStepType DEF Enqueue, ProfileTypeOK
<1>2. CASE Refresh
  <2>1. Scanned \cup Members \in SUBSET Author
    BY <1>0, MembersType, ProfileAssumption DEF Scanned
  <2>2. caller' \in CallerType /\ CallerOK'
    BY <1>0, <1>2, <2>1, SeedingType DEF Refresh, Seeding, CallerType, CallerOK
  <2>3. DirectoryTypeOK'
    BY <1>0, <1>2 DEF Refresh, bounds, directoryVars, DirectoryTypeOK
  <2> QED
    BY <1>0, <1>2, <2>2, <2>3, CallerStepType DEF Refresh, bounds, ProfileTypeOK
<1>3. ASSUME NEW g \in Goroutine, Put(g) PROVE ManagerInv'
  <2>1. PICK a \in caller[g].todo :
          /\ caller' = [caller EXCEPT ![g] = [pc |-> "kick", todo |-> @.todo \ {a}]]
          /\ \/ queue' = queue \cup {a} /\ untried' = untried \cup {a}
             \/ UNCHANGED <<queue, untried>>
          /\ announced' = IF g = poller THEN announced \cup {a} ELSE announced
    BY <1>3 DEF Put
  <2>2. a \in Author
    BY <1>0 DEF CallerType
  <2>3. caller' \in CallerType /\ CallerOK'
    BY <1>0, <2>1 DEF CallerType, CallerOK, CallerPc
  <2>4. DirectoryTypeOK'
    BY <1>0, <1>3, <2>1, <2>2 DEF Put, DirectoryTypeOK
  <2> QED
    BY <1>0, <1>3, <2>1, <2>2, <2>3, <2>4, CallerStepType DEF Put, ProfileTypeOK
<1>4. ASSUME NEW g \in Goroutine, Kick(g) PROVE ManagerInv'
  <2> DEFINE pc == IF caller[g].todo # {} THEN "put"
                   ELSE IF g = seeder /\ caller[g].pc = "kick" THEN "last" ELSE "idle"
  <2>1. caller' = [caller EXCEPT ![g] = [caller[g] EXCEPT !.pc = pc]]
    BY <1>4 DEF Kick
  <2>2. caller' \in CallerType /\ CallerOK'
    <3>1. pc \in CallerPc /\ (pc = "idle" => caller[g].todo = {})
      BY DEF CallerPc
    <3> HIDE DEF pc
    <3> QED
      BY <1>0, <2>1, <3>1 DEF CallerType, CallerOK
  <2>3. DirectoryTypeOK'
    BY <1>0, <1>4 DEF Kick, bounds, directoryVars, DirectoryTypeOK
  <2> QED
    BY <1>0, <1>4, <2>2, <2>3, CallerStepType DEF Kick, bounds, ProfileTypeOK
<1> QED
  BY <1>1, <1>2, <1>3, <1>4 DEF Enqueuing

LEMMA PollType ==
  ASSUME ManagerInv, Poll \/ (DirectoryChanges /\ UNCHANGED <<managerVars, caller>>)
  PROVE  ManagerInv'
<1>0. /\ ProfileTypeOK /\ DirectoryTypeOK /\ CallerOK
      /\ caller \in CallerType /\ enqueues \in Nat /\ restarts \in Nat
  BY DEF ManagerInv, ProfileTypeOK, CallerType
<1>1. DirectoryTypeOK' /\ UNCHANGED managerVars
  BY <1>0, DirectoryStepType DEF Poll
<1>2. caller' \in CallerType /\ CallerOK'
  <2>1. Added \in SUBSET Author
    BY <1>0, MembersType DEF Added
  <2>2. CASE caller' = [caller EXCEPT ![poller] = [pc |-> IF Added = {} THEN "idle" ELSE "put", todo |-> Added]]
    BY <1>0, <2>1, <2>2 DEF CallerType, CallerOK, CallerPc
  <2> QED
    BY <1>0, <2>2 DEF Poll, CallerOK
<1> QED
  BY <1>0, <1>1, <1>2, CallerStepType DEF managerVars, ProfileTypeOK

(* A step of the worker. *)
LEMMA WorkerStepType ==
  ASSUME ManagerInv, worker' \in WorkerState,
         worker'.found \subseteq worker'.batch, worker'.batch \subseteq worker'.open,
         worker'.left \subseteq worker'.open, worker'.left \cap worker'.batch = {},
         worker'.pc \notin {"fetch", "store"} => worker'.batch = {},
         worker'.pc \notin {"wait", "debounce", "stopped"} => ~ armed',
         queue' \in SUBSET Author, profiles' \in SUBSET Author, kicked' \in BOOLEAN, armed' \in BOOLEAN,
         untried' \in SUBSET Author, passedOver' \in SUBSET Author, UNCHANGED <<caller, bounds>>
  PROVE  ManagerInv'
  BY DEF ManagerInv, ProfileTypeOK, WorkerOK, CallerOK, bounds, directoryVars, DirectoryTypeOK

LEMMA DrainEndsType ==
  ASSUME ManagerInv, NEW open \in SUBSET Author, NEW given \in SUBSET Author, DrainEnds(open, given),
         UNCHANGED <<queue, profiles, caller, untried, bounds>>, kicked' \in BOOLEAN
  PROVE  ManagerInv'
<1>1. /\ worker' = Resting /\ armed' \in BOOLEAN /\ passedOver' \in SUBSET Author
  BY DEF DrainEnds, ManagerInv, ProfileTypeOK, WorkerState
<1> QED
  BY <1>1, WorkerStepType DEF Resting, WorkerState, WorkerPc, ManagerInv, ProfileTypeOK

LEMMA DrainType ==
  ASSUME ManagerInv, Drain \/ ListFails \/ Stop
  PROVE  ManagerInv'
<1> USE DEF WorkerState, WorkerPc
<1>0. ManagerInv /\ ProfileTypeOK /\ WorkerOK /\ worker \in WorkerState
  BY DEF ManagerInv, ProfileTypeOK
<1>1. CASE TakeKick \/ Debounced \/ Retry \/ Stop
  BY <1>0, <1>1, WorkerStepType DEF TakeKick, Debounced, Retry, Stop, ProfileTypeOK, WorkerOK
<1>2. CASE List
  BY <1>0, <1>2, WorkerStepType DEF List, ProfileTypeOK, WorkerOK
<1>3. CASE AskPrimary
  <2>1. FirstOf(worker.left) \in SUBSET worker.left
    BY DEF FirstOf
  <2> QED
    BY <1>0, <1>3, <2>1, WorkerStepType DEF AskPrimary, ProfileTypeOK, WorkerOK
<1>4. CASE Fetch
  <2>1. PICK found \in SUBSET worker.batch : worker' = [worker EXCEPT !.pc = "store", !.found = found]
    BY <1>4 DEF Fetch
  <2>2. worker' \in WorkerState /\ worker'.found = found /\ worker'.batch = worker.batch /\ worker'.open = worker.open
        /\ worker'.left = worker.left /\ worker'.pc = "store"
    BY <1>0, <2>1
  <2>3. /\ worker.batch \subseteq worker.open /\ worker.left \subseteq worker.open /\ worker.left \cap worker.batch = {}
        /\ ~ armed
    BY <1>0, <1>4 DEF Fetch, ProfileTypeOK, WorkerOK
  <2> QED
    BY <1>0, <1>4, <2>2, <2>3, WorkerStepType DEF Fetch, ProfileTypeOK
<1>5. CASE StoreProfile
  <2>1. PICK a \in worker.found :
          /\ profiles' \in {profiles, profiles \cup {a}} /\ queue' \in {queue, queue \ {a}}
          /\ worker' = [worker EXCEPT !.found = @ \ {a}, !.open = @ \ {a}, !.batch = @ \ {a}]
    BY <1>5 DEF StoreProfile
  <2>2. a \in worker.batch /\ a \in Author /\ a \notin worker.left
    BY <1>0 DEF ProfileTypeOK
  <2>3. profiles' \in SUBSET Author /\ queue' \in SUBSET Author
    BY <1>0, <2>1, <2>2 DEF ProfileTypeOK
  <2>4. /\ worker' \in WorkerState /\ worker'.pc = "store"
        /\ worker'.left = worker.left /\ worker'.found = worker.found \ {a}
        /\ worker'.batch = worker.batch \ {a} /\ worker'.open = worker.open \ {a}
    BY <1>0, <1>5, <2>1 DEF StoreProfile
  <2>5. UNCHANGED <<kicked, caller, armed, untried, passedOver, bounds>>
    BY <1>5 DEF StoreProfile
  <2> QED
    BY <1>0, <1>5, <2>2, <2>3, <2>4, <2>5, WorkerStepType DEF StoreProfile, ProfileTypeOK, WorkerOK
<1>6. CASE AskFallback \/ NextBatch
  <2>1. CASE AskFallback
    BY <1>0, <2>1, WorkerStepType DEF AskFallback, ProfileTypeOK, WorkerOK
  <2>2. CASE NextBatch
    BY <1>0, <2>2, WorkerStepType DEF NextBatch, BatchDone, ProfileTypeOK, WorkerOK
  <2> QED
    BY <1>6, <2>1, <2>2
<1>7. CASE OutOfBudget \/ QueueWalked \/ ListFails
  BY <1>0, <1>7, DrainEndsType DEF OutOfBudget, QueueWalked, ListFails, ProfileTypeOK
<1> QED
  BY <1>1, <1>2, <1>3, <1>4, <1>5, <1>6, <1>7 DEF Drain

LEMMA RestingType ==
  /\ Resting \in WorkerState /\ Resting.pc = "wait"
  /\ Resting.left = {} /\ Resting.open = {} /\ Resting.batch = {} /\ Resting.found = {}
  BY DEF Resting, WorkerState, WorkerPc

LEMMA RestartType ==
  ASSUME ManagerInv, Restart
  PROVE  ManagerInv'
<1>0. ProfileTypeOK /\ DirectoryTypeOK
  BY DEF ManagerInv, ProfileTypeOK
<1>1. DirectoryTypeOK' /\ urls' = urls
  BY <1>0, DirectoryStepType DEF Restart, DirectoryRestarts
<1>2. Scanned \in SUBSET Author
  BY ProfileAssumption DEF Scanned
<1>3. SeedingWith(Scanned) \in [pc : CallerPc, todo : SUBSET Author] /\ SeedingWith(Scanned).pc # "idle"
  BY <1>2, SeedingType
<1>4. caller' \in CallerType /\ CallerOK'
  BY <1>0, <1>3 DEF Restart, Started, CallerType, CallerOK, CallerPc
<1>5. worker' = Resting /\ armed' = FALSE
  BY DEF Restart
<1>6. restarts' = restarts + 1 /\ kicked' = FALSE
  BY DEF Restart
<1>7. UNCHANGED <<queue, profiles, untried, passedOver, ample, enqueues>>
  BY DEF Restart
<1>8. restarts' \in Nat
  BY <1>0, <1>6 DEF ProfileTypeOK
<1> QED
  BY <1>0, <1>1, <1>4, <1>5, <1>6, <1>7, <1>8, RestingType DEF ManagerInv, ProfileTypeOK, WorkerOK, CallerType

LEMMA InitType == Init => ManagerInv
<1> SUFFICES ASSUME Init PROVE ManagerInv
  OBVIOUS
<1>1. DirectoryTypeOK
  BY DirectoryInitType DEF Init
<1>2. Scanned \in SUBSET Author
  BY ProfileAssumption DEF Scanned
<1>3. SeedingWith(Scanned) \in [pc : CallerPc, todo : SUBSET Author] /\ SeedingWith(Scanned).pc # "idle"
  BY <1>2, SeedingType
<1>4. caller \in CallerType /\ CallerOK
  BY <1>3 DEF Init, Started, CallerType, CallerOK, CallerPc
<1>5. worker = Resting /\ armed = FALSE
  BY DEF Init
<1>6. /\ queue = {} /\ profiles = {} /\ untried = {} /\ passedOver = {}
      /\ kicked = FALSE /\ ample \in BOOLEAN /\ enqueues = 0 /\ restarts = 0
  BY DEF Init
<1> QED
  BY <1>1, <1>4, <1>5, <1>6, RestingType DEF ManagerInv, ProfileTypeOK, WorkerOK, CallerType

LEMMA StepType ==
  ASSUME ManagerInv, [Next]_vars
  PROVE  ManagerInv'
<1>1. CASE Running
  BY <1>1, EnqueueType, PollType, DrainType DEF Running
<1>2. CASE Stop
  BY <1>2, DrainType
<1>3. CASE Restart
  BY <1>3, RestartType
<1>4. CASE UNCHANGED vars
  BY <1>4 DEF vars, directoryVars, ManagerInv, ProfileTypeOK, WorkerOK, CallerOK, DirectoryTypeOK
<1> QED
  BY <1>1, <1>2, <1>3, <1>4 DEF Next

(* The queue, the worker's hand, the goroutines and the directories hold   *)
(* what they should; what the worker has found it is storing, what it has  *)
(* yet to ask for is unresolved, and only between drains is a retry armed. *)
THEOREM ProfileTypeCorrect == Spec => []ProfileTypeOK
<1>1. ManagerInv => ProfileTypeOK
  BY DEF ManagerInv
<1> QED
  BY <1>1, InitType, StepType, PTL DEF Spec

-----------------------------------------------------------------------------
(* No wakeup is lost. *)

LEMMA EnqueueWakes ==
  ASSUME ManagerInv, ManagerInv', NoLostWakeup,
         \/ \E h \in Handler, a \in Author : Enqueue(h, a)
         \/ Refresh \/ Enqueuing
  PROVE  NoLostWakeup'
<1>0. /\ caller \in CallerType /\ seeder \in Goroutine /\ poller \in Goroutine
      /\ seeder # poller /\ seeder \notin Handler
      /\ \A g \in Goroutine : g # seeder => g \in Handler \cup {poller}
  BY ProfileAssumption DEF ManagerInv, ProfileTypeOK, CallerType, Goroutine
<1> SUFFICES ASSUME NEW x \in queue', x \in untried'
             PROVE  Coming(x)' \/ x \in passedOver'
  BY DEF NoLostWakeup
<1>1. ASSUME NEW h \in Handler, NEW a \in Author, Enqueue(h, a) PROVE Coming(x)' \/ x \in passedOver'
  <2>1. x \in queue \cap untried
    BY <1>1 DEF Enqueue
  <2>2. Coming(x) \/ x \in passedOver
    BY <2>1 DEF NoLostWakeup
  <2> QED
    BY <1>0, <1>1, <2>2 DEF Enqueue, Coming, CallerType
<1>2. CASE Refresh
  <2>1. caller'[seeder].pc # "idle"
    BY <1>0, <1>2 DEF Refresh, Seeding, SeedingWith, CallerType
  <2> QED
    BY <2>1 DEF Coming
<1>3. ASSUME NEW g \in Goroutine, Put(g) PROVE Coming(x)' \/ x \in passedOver'
  <2>1. caller'[g].pc = "kick"
    BY <1>0, <1>3 DEF Put, CallerType
  <2> QED
    BY <1>0, <2>1 DEF Coming
<1>4. ASSUME NEW g \in Goroutine, Kick(g) PROVE Coming(x)' \/ x \in passedOver'
  BY <1>4 DEF Kick, Coming
<1> QED
  BY <1>1, <1>2, <1>3, <1>4 DEF Enqueuing

LEMMA PollWakes ==
  ASSUME ManagerInv, NoLostWakeup, Poll \/ (DirectoryChanges /\ UNCHANGED <<managerVars, caller>>)
  PROVE  NoLostWakeup'
<1>1. UNCHANGED managerVars /\ \A g \in Goroutine : g # poller => caller'[g] = caller[g]
  BY DEF Poll, ManagerInv, ProfileTypeOK
<1>2. seeder \in Goroutine /\ seeder # poller
  BY ProfileAssumption DEF Goroutine
<1>3. \A g \in Handler \cup {poller} : caller[g].pc = "kick" => caller'[g].pc = "kick"
  <2>1. caller[poller].pc = "kick" => UNCHANGED caller
    BY DEF Poll
  <2> QED
    BY <1>1, <2>1 DEF Goroutine
<1> QED
  BY <1>1, <1>2, <1>3 DEF managerVars, NoLostWakeup, Coming

LEMMA DrainWakes ==
  ASSUME ManagerInv, NoLostWakeup, Drain \/ ListFails \/ Stop
  PROVE  NoLostWakeup'
<1>0. ProfileTypeOK /\ worker \in WorkerState
      /\ (worker.pc \notin {"wait", "debounce", "stopped"} => ~ armed)
  BY DEF ManagerInv, ProfileTypeOK, WorkerOK
<1> SUFFICES ASSUME NEW x \in queue', x \in untried'
             PROVE  Coming(x)' \/ x \in passedOver'
  BY DEF NoLostWakeup
<1>1. x \in queue \cap untried
  BY DEF Drain, TakeKick, Debounced, Retry, List, AskPrimary, Fetch, StoreProfile, AskFallback,
         NextBatch, OutOfBudget, QueueWalked, ListFails, Stop
<1>2. Coming(x) \/ x \in passedOver
  BY <1>1 DEF NoLostWakeup
<1>3. CASE TakeKick \/ Debounced \/ Retry \/ Stop
  BY <1>0, <1>3 DEF TakeKick, Debounced, Retry, Stop, Coming, WorkerState
<1>4. CASE List
  BY <1>0, <1>1, <1>4 DEF List, Coming, WorkerState
<1>5. CASE AskPrimary
  BY <1>0, <1>2, <1>5 DEF AskPrimary, Coming, WorkerState
<1>6. CASE Fetch \/ AskFallback \/ NextBatch
  BY <1>0, <1>2, <1>6 DEF Fetch, AskFallback, NextBatch, BatchDone, Coming, WorkerState
<1>7. CASE StoreProfile
  BY <1>0, <1>2, <1>7 DEF StoreProfile, Coming, WorkerState
<1>8. CASE OutOfBudget
  BY <1>0, <1>2, <1>8 DEF OutOfBudget, BatchDone, DrainEnds, Coming
<1>9. CASE QueueWalked
  BY <1>0, <1>2, <1>9 DEF QueueWalked, DrainEnds, Coming
<1>10. CASE ListFails
  BY <1>0, <1>1, <1>10 DEF ListFails, DrainEnds
<1> QED
  BY <1>3, <1>4, <1>5, <1>6, <1>7, <1>8, <1>9, <1>10 DEF Drain

LEMMA StepWakes ==
  ASSUME ManagerInv, ManagerInv', NoLostWakeup, [Next]_vars
  PROVE  NoLostWakeup'
<1>1. CASE Running
  BY <1>1, EnqueueWakes, PollWakes, DrainWakes DEF Running
<1>2. CASE Stop
  BY <1>2, DrainWakes
<1>3. CASE Restart
  <2>1. caller'[seeder].pc # "idle"
    BY <1>3 DEF Restart, Started, SeedingWith, Goroutine
  <2> QED
    BY <2>1 DEF NoLostWakeup, Coming
<1>4. CASE UNCHANGED vars
  BY <1>4 DEF vars, NoLostWakeup, Coming
<1> QED
  BY <1>1, <1>2, <1>3, <1>4 DEF Next

(* An author enqueued and not asked for since is never left waiting while  *)
(* the worker rests: a drain, a kick, a retry or a goroutine about to kick *)
(* is on its way to him, for any number of goroutines and authors.         *)
THEOREM EnqueuedIsComing == Spec => []NoLostWakeup
<1> DEFINE I == ManagerInv /\ NoLostWakeup
<1>1. Init => I
  BY InitType DEF Init, NoLostWakeup
<1>2. I /\ [Next]_vars => I'
  BY StepType, StepWakes
<1> QED
  BY <1>1, <1>2, PTL DEF Spec

-----------------------------------------------------------------------------
(* No member slips through. *)

(* The poller polls only when it has enqueued all of its last finding; the *)
(* members before a poll were handed on, and those after it were, or are   *)
(* still to be enqueued.                                                   *)
HandInv ==
  /\ poll.pc = "fetch" => caller[poller].pc = "idle" /\ poll.before \subseteq announced
  /\ poll.pc = "idle" => Members \subseteq announced \cup caller[poller].todo

(* Where the directories are left alone, and with them the poller.         *)
LEMMA HandKept ==
  ASSUME HandInv, UNCHANGED <<members, poll, announced>>, caller'[poller] = caller[poller]
  PROVE  HandInv'
  BY DEF HandInv, Members

LEMMA EnqueueHandsOn ==
  ASSUME ManagerInv, HandInv,
         \/ \E h \in Handler, a \in Author : Enqueue(h, a)
         \/ Refresh \/ Enqueuing
  PROVE  HandInv'
<1>0. /\ caller \in CallerType /\ DirectoryTypeOK
      /\ poller \in Goroutine /\ seeder # poller /\ poller \notin Handler
  BY ProfileAssumption DEF ManagerInv, ProfileTypeOK, CallerType, Goroutine
<1>1. ASSUME NEW h \in Handler, NEW a \in Author, Enqueue(h, a) PROVE HandInv'
  <2>1. caller'[poller] = caller[poller] /\ UNCHANGED <<members, poll, announced>>
    BY <1>0, <1>1 DEF Enqueue, directoryVars, CallerType
  <2> QED
    BY <2>1, HandKept
<1>2. CASE Refresh
  <2>1. caller'[poller] = caller[poller] /\ UNCHANGED <<members, poll, announced>>
    BY <1>0, <1>2 DEF Refresh, bounds, directoryVars, CallerType
  <2> QED
    BY <2>1, HandKept
<1>3. ASSUME NEW g \in Goroutine, Put(g) PROVE HandInv'
  <2>1. PICK a \in caller[g].todo :
          /\ caller' = [caller EXCEPT ![g] = [pc |-> "kick", todo |-> @.todo \ {a}]]
          /\ announced' = IF g = poller THEN announced \cup {a} ELSE announced
    BY <1>3 DEF Put
  <2>2. UNCHANGED <<members, poll>> /\ Members' = Members
    BY <1>3 DEF Put, Members
  <2>3. CASE g # poller
    <3>1. caller'[poller] = caller[poller] /\ UNCHANGED <<members, poll, announced>>
      BY <1>0, <2>1, <2>2, <2>3 DEF CallerType
    <3> QED
      BY <3>1, HandKept
  <2>4. CASE g = poller
    <3>1. caller[poller].pc = "put"
      BY <1>3, <2>4 DEF Put
    <3>2. poll.pc # "fetch"
      BY <3>1 DEF HandInv
    <3>3. caller'[poller].todo = caller[poller].todo \ {a} /\ announced' = announced \cup {a}
      BY <1>0, <2>1, <2>4 DEF CallerType
    <3> QED
      BY <2>2, <3>2, <3>3 DEF HandInv
  <2> QED
    BY <2>3, <2>4
<1>4. ASSUME NEW g \in Goroutine, Kick(g) PROVE HandInv'
  <2>1. /\ caller'[poller].todo = caller[poller].todo
        /\ g # poller => caller'[poller] = caller[poller]
        /\ g = poller => caller[poller].pc # "idle"
    BY <1>0, <1>4 DEF Kick, CallerType
  <2>2. UNCHANGED <<members, poll, announced>> /\ Members' = Members
    BY <1>4 DEF Kick, bounds, directoryVars, Members
  <2> QED
    BY <2>1, <2>2 DEF HandInv
<1> QED
  BY <1>1, <1>2, <1>3, <1>4 DEF Enqueuing

LEMMA PollHandsOn ==
  ASSUME ManagerInv, HandInv, Poll
  PROVE  HandInv'
<1>0. /\ caller \in CallerType /\ CallerOK /\ poller \in Goroutine /\ DirectoryTypeOK
      /\ caller[poller].pc = "idle" /\ caller[poller].todo = {}
  BY DEF ManagerInv, ProfileTypeOK, CallerType, CallerOK, Goroutine, Poll
<1>1. CASE PollBegins /\ UNCHANGED caller
  <2>1. poll.pc = "idle" /\ poll'.pc = "fetch" /\ poll'.before = Members /\ announced' = announced
    BY <1>1 DEF PollBegins
  <2> QED
    BY <1>0, <1>1, <2>1 DEF HandInv
<1>2. CASE (DirectoryAnswers \/ DirectoryFails) /\ UNCHANGED caller
  <2>1. /\ poll.pc = "fetch" /\ poll'.pc = "fetch" /\ poll'.before = poll.before
        /\ announced' = announced
    BY <1>0, <1>2 DEF DirectoryAnswers, DirectoryFails, DirectoryTypeOK
  <2> QED
    BY <1>2, <2>1 DEF HandInv
<1>3. CASE PollEnds /\ caller' = [caller EXCEPT ![poller] = [pc |-> IF Added = {} THEN "idle" ELSE "put",
                                                             todo |-> Added]]
  <2>1. poll.pc = "fetch" /\ poll'.pc = "idle" /\ UNCHANGED <<members, announced>>
    BY <1>3 DEF PollEnds, NoPoll
  <2>2. caller'[poller].todo = Members \ poll.before /\ Members' = Members
    BY <1>0, <1>3, <2>1 DEF CallerType, Added, Members
  <2> QED
    BY <2>1, <2>2 DEF HandInv
<1> QED
  BY <1>1, <1>2, <1>3 DEF Poll

LEMMA StepHandsOn ==
  ASSUME ManagerInv, HandInv, [Next]_vars
  PROVE  HandInv'
<1>1. CASE Running
  <2>1. CASE DirectoryChanges /\ UNCHANGED <<managerVars, caller>>
    BY <2>1, HandKept DEF DirectoryChanges
  <2>2. CASE Drain \/ ListFails
    <3>1. UNCHANGED <<caller, members, poll, announced>>
      BY <2>2 DEF Drain, TakeKick, Debounced, Retry, List, AskPrimary, Fetch, StoreProfile, AskFallback,
                  NextBatch, OutOfBudget, QueueWalked, ListFails, bounds, directoryVars
    <3> QED
      BY <3>1, HandKept
  <2> QED
    BY <1>1, <2>1, <2>2, EnqueueHandsOn, PollHandsOn DEF Running
<1>2. CASE Stop
  BY <1>2, HandKept DEF Stop, bounds, directoryVars
<1>3. CASE Restart
  <2>1. poll'.pc = "idle" /\ members' = [u \in ToSet(urls) |-> {}]
    BY <1>3 DEF Restart, DirectoryRestarts, NoPoll
  <2>2. Members' = {}
    BY <2>1 DEF Members, Range
  <2> QED
    BY <2>1, <2>2 DEF HandInv
<1>4. CASE UNCHANGED vars
  BY <1>4, HandKept DEF vars, directoryVars
<1> QED
  BY <1>1, <1>2, <1>3, <1>4 DEF Next

(* No member of a directory slips through: between polls everyone who is a *)
(* member has been enqueued, for any list of directories and any answers.  *)
THEOREM EveryMemberHandedOn == Spec => []MembersHandedOn
<1> DEFINE I == ManagerInv /\ HandInv
<1>1. Init => I
  <2> SUFFICES ASSUME Init PROVE HandInv
    BY InitType
  <2>1. poll.pc = "idle" /\ members = [u \in ToSet(urls) |-> {}]
    BY DEF Init, DirectoryInit, NoPoll
  <2>2. Members = {}
    BY <2>1 DEF Members, Range
  <2> QED
    BY <2>1, <2>2 DEF HandInv
<1>2. I /\ [Next]_vars => I'
  BY StepType, StepHandsOn
<1>3. I => MembersHandedOn
  BY ProfileAssumption DEF ManagerInv, CallerOK, HandInv, MembersHandedOn, Goroutine
<1> QED
  BY <1>1, <1>2, <1>3, PTL DEF Spec
=============================================================================
