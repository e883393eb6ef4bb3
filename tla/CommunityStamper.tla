--------------------------- MODULE CommunityStamper ---------------------------
(***************************************************************************)
(* CommunityStamper (community_stamp.go, wired in main.go): a share of an  *)
(* addressable content by a member of a community puts the community on    *)
(* the search document of the content.  Every trigger starts a goroutine   *)
(* that recomputes the whole field; a sweep does the same, coordinate by   *)
(* coordinate, for whatever the stored shares refer to.                    *)
(*                                                                         *)
(* The raw store is behind its write buffer, taken here as what that       *)
(* promises (FifoStore), and lags behind the search index, which handlers  *)
(* write themselves.  Content is of a kind with its own collection; that   *)
(* of AMB documents goes through TSBuffer.  Membership is what             *)
(* CommunityRegistry has found out, whose refresh runs beside all this.    *)
(***************************************************************************)
EXTENDS SearchIndex, CommunityRegistry

CONSTANTS
  Share,        \* events of kind 16 and 30222 that refer to a stampable coordinate
  refersTo,     \* Share -> the coordinate of its first 'a' tag
  into,         \* Share -> the communities it names
  kindOf,       \* Coord -> its kind
  Recon,        \* goroutines running reconcile
  sweeper,      \* the goroutine of the sweep loop
  MaxFailures,  \* bound: calls to the search backend and to other relays that fail
  QueueSize,    \* capacity of the Bolt buffer
  MaxStarts     \* bound: requests, and changes of member lists

ASSUME StamperAssumption ==
  /\ Share \subseteq Event
  /\ refersTo \in [Share -> Coord]
  /\ into \in [Share -> SUBSET Community]
  /\ sweeper \notin Recon
  /\ kindOf \in [Coord -> Kind]
  /\ MaxFailures \in Nat
  /\ QueueSize \in Nat \ {0}

VARIABLES
  boltQueue,  \* accepted writes of the raw store
  bolt,       \* events in the raw store
  gone,       \* events the gate blocks: banned or deleted
  shares,     \* shares in their search collection
  docs,       \* Coord -> its search document
  job,        \* Caller -> the request its goroutine is serving
  spawned,    \* Coord -> reconcile goroutines not yet running
  recon,      \* Recon and sweeper -> where reconcile is
  todo,       \* coordinates the current sweep still has to visit
  everShared, \* history: shares that were ever in their collection
  vouchedFor, \* history: shares and communities their author was in since then
  failures,
  focus,      \* bound: see Init
  starts

stores == <<boltQueue, bolt, gone, shares, docs>>
noted == <<everShared, vouchedFor>>
history == <<noted, failures, focus>>
vars == <<stores, registryVars, job, spawned, recon, todo, history, starts>>

Raw == INSTANCE RawStore

Content == {e \in Event \ Share : IsAddressable(e)}

NoJob == [pc |-> "idle", ev |-> NoEvent, restamp |-> FALSE]

NoRecon == [pc |-> "idle", coord |-> NoCoord, refs |-> {}, want |-> {}, ev |-> NoEvent]

StamperTypeOK ==
  /\ boltQueue \in Seq(Raw!BoltOp) /\ Len(boltQueue) <= QueueSize
  /\ bolt \in SUBSET Event /\ gone \in SUBSET Share /\ shares \in SUBSET Share
  /\ docs \in [Coord -> Doc]
  /\ job \in [Caller -> [pc : {"idle", "queue", "index", "spawn", "mark", "purgeBolt", "purgeIndex"},
                         ev : Event \cup {NoEvent}, restamp : BOOLEAN]]
  /\ spawned \in [Coord -> Nat]
  /\ recon \in [Recon \cup {sweeper} ->
                  [pc : {"idle", "refs", "gate", "lookup", "fetch", "queue", "index", "patch"},
                   coord : Coord \cup {NoCoord}, refs : SUBSET Share,
                   want : SUBSET Community, ev : Content \cup {NoEvent}]]
  /\ \A r \in Recon \cup {sweeper} : recon[r].pc # "idle" => recon[r].coord \in Coord
  /\ todo \in SUBSET Coord
  /\ everShared \in SUBSET Share /\ vouchedFor \in SUBSET (Share \X Community)
  /\ failures \in Nat /\ starts \in Nat
  /\ RegistryTypeOK

(* Bound: with focus "stamping" the registry knows all communities and     *)
(* nobody joins or leaves; with focus "membership" it does not know them   *)
(* yet and is at work, its calls alone fail, no share is removed, nothing  *)
(* is published twice and no content fetched.                              *)
Init ==
  /\ boltQueue = <<>> /\ bolt = {} /\ gone = {} /\ shares = {}
  /\ docs = [c \in Coord |-> NoDoc]
  /\ job = [h \in Caller |-> NoJob]
  /\ spawned = [c \in Coord |-> 0]
  /\ recon = [r \in Recon \cup {sweeper} |-> NoRecon]
  /\ todo = {}
  /\ everShared = {} /\ vouchedFor = {}
  /\ failures = 0 /\ starts = 0
  /\ RegistryInit
  /\ \/ focus = "stamping" /\ resolved = Truth
     \/ focus = "membership" /\ resolved = [c \in Community |-> Unresolved]

-----------------------------------------------------------------------------
(* Handlers: StoreEvent and ReplaceEvent, as far as the stamper goes, and  *)
(* the deletion or ban of a share.                                         *)

(* A call to the search backend goes well, or fails. *)
CallOK == UNCHANGED <<failures, focus>>

Fails == failures < MaxFailures /\ failures' = failures + 1 /\ UNCHANGED focus

CallFails == focus = "stamping" /\ Fails

UnchangedJobs == UNCHANGED <<registryVars, spawned, recon, todo, starts>>

Begin(h, j) ==
  /\ job[h].pc = "idle"
  /\ starts < MaxStarts
  /\ starts' = starts + 1
  /\ job' = [job EXCEPT ![h] = j]
  /\ UNCHANGED <<stores, registryVars, spawned, recon, todo, history>>

(* Accepted by the Bolt buffer and not written yet. *)
Waiting == {boltQueue[i].ev : i \in DOMAIN boltQueue}

Publish(h, e) ==
  /\ e \in Content \cup Share
  /\ e \notin gone
  /\ focus = "membership" => e \notin bolt \cup Waiting
  /\ Begin(h, [NoJob EXCEPT !.pc = "queue", !.ev = e])

Accept(op) ==
  /\ Len(boltQueue) < QueueSize
  /\ boltQueue' = Append(boltQueue, op)

QueueBolt(h) ==
  /\ job[h].pc = "queue"
  /\ Accept([ev |-> job[h].ev, replace |-> IsAddressable(job[h].ev)])
  /\ job' = [job EXCEPT ![h].pc = "index"]
  /\ UNCHANGED <<bolt, gone, shares, docs, history>> /\ UnchangedJobs

(* reg.store, of a share or of content.  A share of kind 30222 replaces    *)
(* the one with its coordinate.                                            *)
IndexShare(s) ==
  {t \in shares : ~ (IsAddressable(s) /\ coordOf[t] = coordOf[s])} \cup {s}

VouchesFor(s, x, res) == x \in into[s] /\ IsMemberIn(res, x, signer[s], kindOf[refersTo[s]])

NoteVouching(ss, res) ==
  vouchedFor' = vouchedFor \cup {v \in ss \X Community : VouchesFor(v[1], v[2], res)}

StoreIndex(h) ==
  LET e == job[h].ev
  IN /\ job[h].pc = "index"
     /\ \/ e \in Share /\ shares' = IndexShare(e) /\ CallOK /\ UNCHANGED docs
        \/ /\ e \in Content /\ docs' = [docs EXCEPT ![coordOf[e]] = Projected(e)]
           /\ CallOK /\ UNCHANGED shares
        \/ CallFails /\ UNCHANGED <<shares, docs>>
     /\ everShared' = everShared \cup shares'
     /\ NoteVouching(everShared', resolved)
     /\ job' = [job EXCEPT ![h].pc = "spawn"]
     /\ UNCHANGED <<boltQueue, bolt, gone>> /\ UnchangedJobs

(* go stamper.reconcile, for the content or for what the share refers to. *)
Spawn(h) ==
  LET e == job[h].ev
      c == IF e \in Share THEN refersTo[e] ELSE coordOf[e]
  IN /\ job[h].pc = "spawn"
     /\ spawned' = [spawned EXCEPT ![c] = @ + 1]
     /\ job' = [job EXCEPT ![h] = NoJob]
     /\ UNCHANGED <<stores, registryVars, recon, todo, history, starts>>

(* An author's deletion of a share looks it up in the raw store, before    *)
(* anything is removed, to know that there is something to restamp.        *)
DeleteShare(h, s) ==
  /\ focus = "stamping" /\ s \in shares \cup bolt
  /\ Begin(h, [pc |-> "mark", ev |-> s, restamp |-> s \in bolt])

(* A ban does not restamp. *)
BanShare(h, s) == focus = "stamping" /\ Begin(h, [pc |-> "mark", ev |-> s, restamp |-> FALSE])

Mark(h) ==
  /\ job[h].pc = "mark"
  /\ gone' = gone \cup {job[h].ev}
  /\ job' = [job EXCEPT ![h].pc = "purgeBolt"]
  /\ UNCHANGED <<boltQueue, bolt, shares, docs, history>> /\ UnchangedJobs

PurgeBolt(h) ==
  /\ job[h].pc = "purgeBolt"
  /\ bolt' = bolt \ {job[h].ev}
  /\ job' = [job EXCEPT ![h].pc = "purgeIndex"]
  /\ UNCHANGED <<boltQueue, gone, shares, docs, history>> /\ UnchangedJobs

PurgeIndex(h) ==
  /\ job[h].pc = "purgeIndex"
  /\ \/ CallOK /\ shares' = shares \ {job[h].ev}
     \/ CallFails /\ UNCHANGED shares
  /\ job' = [job EXCEPT ![h] = IF job[h].restamp THEN [@ EXCEPT !.pc = "spawn"] ELSE NoJob]
  /\ UNCHANGED <<boltQueue, bolt, gone, docs, noted>> /\ UnchangedJobs

Handling(h) ==
  QueueBolt(h) \/ StoreIndex(h) \/ Spawn(h) \/ Mark(h) \/ PurgeBolt(h) \/ PurgeIndex(h)

(* The Bolt buffer's worker: what is gone by then is dropped. *)
BoltWorker ==
  /\ boltQueue # <<>>
  /\ boltQueue' = Tail(boltQueue)
  /\ bolt' = IF Head(boltQueue).ev \in gone THEN bolt ELSE Raw!Written(bolt, Head(boltQueue))
  /\ UNCHANGED <<gone, shares, docs, job, history>> /\ UnchangedJobs

(* The communities that stored events name: backfillCommunities. *)
Named == UNION {IF e \in Share THEN into[e] ELSE ownTags[e] : e \in bolt}

BesidesRegistry == focus = "membership" /\ UNCHANGED <<stores, job, spawned, recon, todo, everShared, focus>>

Refreshing(g) ==
  /\ RefreshBegins(g, Named) \/ RefreshEnds(g) \/ DefinitionFetched(g) \/ ListFetched(g) \/ Resolved(g)
  /\ NoteVouching(everShared, resolved')
  /\ BesidesRegistry /\ UNCHANGED <<failures, starts>>

RefreshFails(g) ==
  /\ DefinitionFails(g) \/ ListFails(g) \/ RefreshTimesOut(g)
  /\ Fails
  /\ BesidesRegistry /\ UNCHANGED <<vouchedFor, starts>>

CommunityChanges ==
  /\ starts < MaxStarts /\ starts' = starts + 1
  /\ ListChanges
  /\ BesidesRegistry /\ UNCHANGED <<vouchedFor, failures>>

-----------------------------------------------------------------------------
(* reconcile. *)

UnchangedRequests == UNCHANGED <<registryVars, job, starts>>

Start(r) ==
  /\ r \in Recon /\ recon[r].pc = "idle"
  /\ \E c \in Coord :
       /\ spawned[c] > 0
       /\ spawned' = [spawned EXCEPT ![c] = @ - 1]
       /\ recon' = [recon EXCEPT ![r] = [NoRecon EXCEPT !.pc = "refs", !.coord = c]]
  /\ UNCHANGED <<stores, todo, history>> /\ UnchangedRequests

(* The sweep's work list is read from the raw store. *)
SweepTick ==
  /\ recon[sweeper].pc = "idle" /\ todo = {}
  /\ todo' = {refersTo[s] : s \in bolt \cap Share}
  /\ UNCHANGED <<stores, spawned, recon, history>> /\ UnchangedRequests

SweepNext ==
  /\ recon[sweeper].pc = "idle"
  /\ \E c \in todo :
       /\ todo' = todo \ {c}
       /\ recon' = [recon EXCEPT ![sweeper] = [NoRecon EXCEPT !.pc = "refs", !.coord = c]]
  /\ UNCHANGED <<stores, spawned, history>> /\ UnchangedRequests

Goes(r, next) == recon' = [recon EXCEPT ![r] = next]

(* sharesFor asks the search index; after an error it has found none. *)
ReadShares(r) ==
  LET found == {s \in shares : refersTo[s] = recon[r].coord}
  IN /\ recon[r].pc = "refs"
     /\ \/ CallOK /\ Goes(r, [recon[r] EXCEPT !.pc = "gate", !.refs = found])
        \/ CallFails /\ Goes(r, [recon[r] EXCEPT !.pc = "gate"])
     /\ UNCHANGED <<stores, spawned, todo, noted>> /\ UnchangedRequests

(* deriveStamps: what members shared. *)
Vouched(refs, res) == {x \in Community : \E s \in refs : VouchesFor(s, x, res)}

(* Mutant of DeriveStamps: membership is not asked for. *)
DeriveStampsUngated(r) ==
  /\ recon[r].pc = "gate"
  /\ Goes(r, [recon[r] EXCEPT !.pc = "lookup", !.want = UNION {into[s] : s \in recon[r].refs}])
  /\ UNCHANGED <<stores, spawned, todo, history>> /\ UnchangedRequests

DeriveStamps(r) ==
  /\ recon[r].pc = "gate"
  /\ Goes(r, [recon[r] EXCEPT !.pc = "lookup", !.want = Vouched(recon[r].refs, resolved)])
  /\ UNCHANGED <<stores, spawned, todo, history>> /\ UnchangedRequests

(* lookup asks the raw store for the newest version. *)
Newest(c) ==
  CHOOSE e \in bolt \cap Content :
    coordOf[e] = c /\ \A f \in bolt \cap Content : coordOf[f] = c => ~ IsOlder(e, f)

Local(c) == \E e \in bolt \cap Content : coordOf[e] = c

Lookup(r) ==
  LET c == recon[r].coord
  IN /\ recon[r].pc = "lookup"
     /\ \/ Local(c) /\ Goes(r, [recon[r] EXCEPT !.pc = "patch", !.ev = Newest(c)])
        \/ ~ Local(c) /\ recon[r].want = {} /\ Goes(r, NoRecon)
        \/ ~ Local(c) /\ recon[r].want # {} /\ Goes(r, [recon[r] EXCEPT !.pc = "fetch"])
     /\ UNCHANGED <<stores, spawned, todo, history>> /\ UnchangedRequests

(* Other relays have some version of the content, or none they show us.    *)
Fetch(r) ==
  /\ recon[r].pc = "fetch"
  /\ \/ \E e \in Content : /\ focus = "stamping" /\ coordOf[e] = recon[r].coord
                           /\ Goes(r, [recon[r] EXCEPT !.pc = "queue", !.ev = e])
     \/ Goes(r, NoRecon)
  /\ UNCHANGED <<stores, spawned, todo, history>> /\ UnchangedRequests

(* store, of a fetched event: SaveEvent through the Bolt buffer, then the  *)
(* index.                                                                  *)
StoreFetched(r) ==
  /\ recon[r].pc = "queue"
  /\ Accept([ev |-> recon[r].ev, replace |-> FALSE])
  /\ Goes(r, [recon[r] EXCEPT !.pc = "index"])
  /\ UNCHANGED <<bolt, gone, shares, docs, spawned, todo, history>> /\ UnchangedRequests

IndexFetched(r) ==
  /\ recon[r].pc = "index"
  /\ \/ CallOK /\ docs' = [docs EXCEPT ![recon[r].coord] = Projected(recon[r].ev)]
     \/ CallFails /\ UNCHANGED docs
  /\ Goes(r, [recon[r] EXCEPT !.pc = "patch"])
  /\ UNCHANGED <<boltQueue, bolt, gone, shares, spawned, todo, noted>> /\ UnchangedRequests

Patch(r) ==
  /\ recon[r].pc = "patch"
  /\ \/ CallOK /\ docs' = Stamped(docs, recon[r].coord, ownTags[recon[r].ev] \cup recon[r].want)
     \/ CallFails /\ UNCHANGED docs
  /\ Goes(r, NoRecon)
  /\ UNCHANGED <<boltQueue, bolt, gone, shares, spawned, todo, noted>> /\ UnchangedRequests

Reconcile(r) ==
  \/ Start(r) \/ ReadShares(r) \/ DeriveStamps(r) \/ Lookup(r)
  \/ Fetch(r) \/ StoreFetched(r) \/ IndexFetched(r) \/ Patch(r)

Sweep == SweepTick \/ SweepNext

Next ==
  \/ \E h \in Caller, e \in Event : Publish(h, e)
  \/ \E h \in Caller, s \in Share : DeleteShare(h, s) \/ BanShare(h, s)
  \/ \E h \in Caller : Handling(h)
  \/ BoltWorker
  \/ \E g \in Refresher : Refreshing(g) \/ RefreshFails(g)
  \/ CommunityChanges
  \/ \E r \in Recon \cup {sweeper} : Reconcile(r)
  \/ Sweep

Spec == Init /\ [][Next]_vars

(* Handlers, the buffer's worker, the reconcilers and refreshes run, and   *)
(* the tickers of sweep and refresh fire again and again.                  *)
FairSpec ==
  /\ Spec
  /\ WF_vars(BoltWorker) /\ WF_vars(Sweep)
  /\ \A g \in Refresher : WF_vars(Refreshing(g))
  /\ \A h \in Caller : SF_vars(Handling(h))
  /\ \A r \in Recon \cup {sweeper} : SF_vars(Reconcile(r))

-----------------------------------------------------------------------------
(* Properties. *)

(* What reconcile is for: the field is the union of the content's own tags *)
(* and the communities its shares vouch for, as the definitions and lists  *)
(* at the communities' relays are.                                         *)
Right(c) ==
  docs[c] # NoDoc /\ Local(c) =>
    docs[c].community = ownTags[Newest(c)] \cup Vouched({s \in shares : refersTo[s] = c}, Truth)

(* As long as a stored share refers to it, a document converges to its     *)
(* right communities, whichever reconcilers overtook each other, whatever  *)
(* they read before a share, a version or a member came or went, and       *)
(* though everybody counts as a member of a community not resolved yet.    *)
SharedConverges ==
  <>[](\A c \in Coord : (\E s \in bolt \cap Share : refersTo[s] = c) => Right(c))

(* No document is put into a community by somebody who has not been a      *)
(* member of it since he shared it there: every community on it is a       *)
(* version's own or one for which such a member vouches.                   *)
OnlyVouched ==
  \A c \in Coord : \A x \in docs[c].community :
    \/ \E e \in Content : coordOf[e] = c /\ x \in ownTags[e]
    \/ \E s \in Share : refersTo[s] = c /\ <<s, x>> \in vouchedFor
=============================================================================
