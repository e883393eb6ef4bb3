------------------------------ MODULE Allowlist ------------------------------
(***************************************************************************)
(* AllowlistManager: who may write and read while access is restricted.    *)
(* NIP-86 calls and the refresh loop write the management database first   *)
(* and the copy in memory after it, under a lock that no two of these      *)
(* steps share and that is not held while a remote list is fetched.        *)
(***************************************************************************)
EXTENDS Integers, FiniteSets

CONSTANTS
  PubKey,
  Ref,          \* keys of list references: pubkey, kind and d tag
  Handler,      \* goroutines that serve NIP-86 calls
  Loop,         \* the refresh loop
  NoRef,
  StaticAdmin,  \* admins from the environment
  Requests,     \* the calls considered
  Databases,    \* what the management database may hold at the first start
  MaxCalls,     \* bound: calls
  MaxChanges,   \* bound: new versions of remote lists
  MaxFailures,  \* bound: fetches and database calls that fail
  MaxRestarts   \* bound: starts of the process

Side == {"write", "read"}

Direction == {"none", "write", "read", "both"}

Caller == Handler \cup {Loop}

Refresh == [op |-> "refresh"]

(* The calls there are, with directions from dirs. *)
Request(dirs) ==
  [op : {"setaccess"}, config : [Side -> BOOLEAN]]
    \cup [op : {"add", "remove"}, side : Side, pk : PubKey]
    \cup [op : {"grant", "revoke"}, pk : PubKey]
    \cup [op : {"addref"}, ref : Ref, dir : dirs]
    \cup [op : {"removeref"}, ref : Ref]
    \cup {Refresh}

Database ==
  [config : [Side -> BOOLEAN], direct : [Side -> SUBSET PubKey], refs : [Ref -> Direction], admins : SUBSET PubKey]

ASSUME AllowlistAssumption ==
  /\ Loop \notin Handler /\ NoRef \notin Ref
  /\ StaticAdmin \subseteq PubKey
  /\ Requests \subseteq Request({"write", "read", "both", ""}) /\ Databases \subseteq Database

VARIABLES
  disk,     \* the management database: config, direct, refs, admins
  config,   \* a.config
  refs,     \* a.listRefs, "none" where the key is absent
  lists,    \* a.listPubkeys, {} where the key is absent
  allowed,  \* a.writeAllowed and a.readAllowed
  admins,   \* the admin set, StaticAdmin included
  job,      \* Caller -> the call it is in and how far it is
  up,       \* Init has returned
  remote,   \* Ref -> the pubkeys its list names, at the relays
  unread,   \* history: the last rebuild could not read the direct pubkeys
  calls, changes, failures, restarts

memory == <<config, refs, lists, allowed, admins>>
bounds == <<calls, changes, restarts>>
vars == <<disk, memory, job, up, remote, unread, failures, bounds>>

NoJob == [req |-> Refresh, pc |-> "idle", todo |-> {}, key |-> NoRef, got |-> {}, stored |-> FALSE]

Job ==
  [req : Request({"write", "read", "both"}),
   pc : {"idle", "disk", "memory", "snapshot", "fetch", "store", "rebuild"},
   todo : SUBSET Ref, key : Ref \cup {NoRef}, got : SUBSET PubKey, stored : BOOLEAN]

JobOK(j) ==
  /\ j.pc \in {"disk", "memory"} => j.req.op # "refresh"
  /\ j.pc = "store" => j.key \in Ref
  /\ j.stored => j.pc \in {"fetch", "store", "rebuild"}

AllowTypeOK ==
  /\ disk \in Database
  /\ config \in [Side -> BOOLEAN]
  /\ refs \in [Ref -> Direction]
  /\ lists \in [Ref -> SUBSET PubKey]
  /\ allowed \in [Side -> SUBSET PubKey]
  /\ admins \in SUBSET PubKey
  /\ job \in [Caller -> Job] /\ \A h \in Caller : JobOK(job[h])
  /\ up \in BOOLEAN /\ unread \in BOOLEAN
  /\ remote \in [Ref -> SUBSET PubKey]

Fail == failures < MaxFailures /\ failures' = failures + 1

To(h, pc) == job' = [job EXCEPT ![h].pc = pc]
Done(h) == job' = [job EXCEPT ![h] = NoJob]

-----------------------------------------------------------------------------
(* The gates. *)

(* OnEvent for a write; checkReadAccess and PreventBroadcast for a read by *)
(* a connection authenticated as pk.                                       *)
May(side, pk) == ~ config[side] \/ pk \in admins \/ pk \in allowed[side]

(* rebuildMergedSetsLocked: the pubkeys of a list count for the direction  *)
(* of its reference, those of a list without reference not at all.         *)
Grants(dir, side) == dir \in {"both", side}
Merged(direct, rs, ls) ==
  [s \in Side |-> direct[s] \cup UNION {ls[k] : k \in {r \in Ref : Grants(rs[r], s)}}]

-----------------------------------------------------------------------------
(* The calls. *)

(* A list reference without a direction is for both. *)
WithDirection(r) == IF r.op = "addref" /\ r.dir = "" THEN [r EXCEPT !.dir = "both"] ELSE r

(* setaccesscontrol, addto and removefrom the allowlists, grantadmin,      *)
(* revokeadmin (not of a static admin), addlistreference,                  *)
(* removelistreference; refreshlistreferences has nothing to write.        *)
Call(h) ==
  /\ up /\ job[h].pc = "idle" /\ calls < MaxCalls
  /\ calls' = calls + 1
  /\ \E r \in Requests :
       /\ r.op = "revoke" => r.pk \notin StaticAdmin
       /\ job' = [job EXCEPT ![h] = [NoJob EXCEPT !.req = WithDirection(r),
                                       !.pc = IF r.op = "refresh" THEN "snapshot" ELSE "disk"]]
  /\ UNCHANGED <<disk, memory, up, remote, unread, failures, changes, restarts>>

(* StartRefreshLoop. *)
Tick ==
  /\ up /\ job[Loop].pc = "idle"
  /\ job' = [job EXCEPT ![Loop] = [NoJob EXCEPT !.pc = "snapshot"]]
  /\ UNCHANGED <<disk, memory, up, remote, unread, failures, bounds>>

(* What a call leaves in the database. *)
Saved(r) ==
  CASE r.op = "setaccess" -> [disk EXCEPT !.config = r.config]
    [] r.op = "add" -> [disk EXCEPT !.direct[r.side] = @ \cup {r.pk}]
    [] r.op = "remove" -> [disk EXCEPT !.direct[r.side] = @ \ {r.pk}]
    [] r.op = "grant" -> [disk EXCEPT !.admins = @ \cup {r.pk}]
    [] r.op = "revoke" -> [disk EXCEPT !.admins = @ \ {r.pk}]
    [] r.op = "addref" -> [disk EXCEPT !.refs[r.ref] = r.dir]
    [] r.op = "removeref" -> [disk EXCEPT !.refs[r.ref] = "none"]

(* The database comes first; if that fails the call returns its error. *)
WriteDisk(h) ==
  /\ job[h].pc = "disk"
  /\ \/ Fail /\ Done(h) /\ UNCHANGED disk
     \/ /\ disk' = Saved(job[h].req)
        /\ To(h, IF job[h].req.op \in {"add", "remove"} THEN "rebuild" ELSE "memory")
        /\ UNCHANGED failures
  /\ UNCHANGED <<memory, up, remote, unread, bounds>>

SetMemory(h) ==
  /\ job[h].pc = "memory"
  /\ LET r == job[h].req
     IN \/ r.op = "setaccess" /\ config' = r.config /\ UNCHANGED admins
        \/ r.op = "grant" /\ admins' = admins \cup {r.pk} /\ UNCHANGED config
        \/ r.op = "revoke" /\ admins' = admins \ {r.pk} /\ UNCHANGED config
  /\ Done(h)
  /\ UNCHANGED <<disk, refs, lists, allowed, up, remote, unread, failures, bounds>>

(* AddListReference, its first critical section. *)
RememberRef(h) ==
  /\ job[h].pc = "memory" /\ job[h].req.op = "addref"
  /\ refs' = [refs EXCEPT ![job[h].req.ref] = job[h].req.dir]
  /\ job' = [job EXCEPT ![h].pc = "fetch", ![h].todo = {job[h].req.ref}]
  /\ UNCHANGED <<disk, config, lists, allowed, admins, up, remote, unread, failures, bounds>>

(* The direct pubkeys are read again under the lock; if one of the two     *)
(* reads fails, that side is rebuilt without them.                         *)
RebuildFrom(rs, ls) ==
  \E bad \in SUBSET Side :
    /\ failures + Cardinality(bad) <= MaxFailures
    /\ failures' = failures + Cardinality(bad)
    /\ unread' = (bad # {})
    /\ allowed' = Merged([s \in Side |-> IF s \in bad THEN {} ELSE disk.direct[s]], rs, ls)

(* Mutant of ForgetRef: the merged sets are left to the next refresh. *)
ForgetRefLazily(h) ==
  /\ job[h].pc = "memory" /\ job[h].req.op = "removeref"
  /\ refs' = [refs EXCEPT ![job[h].req.ref] = "none"]
  /\ lists' = [lists EXCEPT ![job[h].req.ref] = {}]
  /\ Done(h)
  /\ UNCHANGED <<disk, config, admins, allowed, unread, failures, up, remote, bounds>>

(* RemoveListReference, all in one critical section. *)
ForgetRef(h) ==
  /\ job[h].pc = "memory" /\ job[h].req.op = "removeref"
  /\ refs' = [refs EXCEPT ![job[h].req.ref] = "none"]
  /\ lists' = [lists EXCEPT ![job[h].req.ref] = {}]
  /\ RebuildFrom(refs', lists')
  /\ Done(h)
  /\ UNCHANGED <<disk, config, admins, up, remote, bounds>>

-----------------------------------------------------------------------------
(* refreshAllLists and fetchList. *)

(* The references as they are now. *)
Snapshot(h) ==
  /\ job[h].pc = "snapshot"
  /\ job' = [job EXCEPT ![h].pc = "fetch", ![h].todo = {k \in Ref : refs[k] # "none"}]
  /\ UNCHANGED <<disk, memory, up, remote, unread, failures, bounds>>

(* Ask the relays of the next list; without an answer it stays as it was. *)
Fetch(h) ==
  /\ job[h].pc = "fetch"
  /\ \/ \E k \in job[h].todo :
          \/ /\ job' = [job EXCEPT ![h].todo = @ \ {k}, ![h].pc = "store", ![h].key = k, ![h].got = remote[k]]
             /\ UNCHANGED failures
          \/ Fail /\ job' = [job EXCEPT ![h].todo = @ \ {k}]
     \/ job[h].todo = {} /\ To(h, "rebuild") /\ UNCHANGED failures
  /\ UNCHANGED <<disk, memory, up, remote, unread, bounds>>

(* The answer is stored whatever became of the reference meanwhile. *)
Store(h) ==
  /\ job[h].pc = "store"
  /\ lists' = [lists EXCEPT ![job[h].key] = job[h].got]
  /\ job' = [job EXCEPT ![h].pc = "fetch", ![h].key = NoRef, ![h].got = {}, ![h].stored = TRUE]
  /\ UNCHANGED <<disk, config, refs, allowed, admins, up, remote, unread, failures, bounds>>

(* Mutant of Rebuild: only a call rebuilds the sets, the loop does not. *)
RebuildCallsOnly(h) ==
  /\ job[h].pc = "rebuild"
  /\ IF h = Loop THEN UNCHANGED <<allowed, unread, failures>> ELSE RebuildFrom(refs, lists)
  /\ Done(h)
  /\ up' = TRUE
  /\ UNCHANGED <<disk, config, refs, lists, admins, remote, bounds>>

Rebuild(h) ==
  /\ job[h].pc = "rebuild"
  /\ RebuildFrom(refs, lists)
  /\ Done(h)
  /\ up' = TRUE
  /\ UNCHANGED <<disk, config, refs, lists, admins, remote, bounds>>

-----------------------------------------------------------------------------
(* A remote list gets a new version. *)
PublishList ==
  /\ changes < MaxChanges
  /\ changes' = changes + 1
  /\ \E k \in Ref, pks \in SUBSET PubKey : remote' = [remote EXCEPT ![k] = pks]
  /\ UNCHANGED <<disk, memory, job, up, unread, failures, calls, restarts>>

(* Init: the database is loaded and the lists are fetched before anything  *)
(* is served (the loop's first round here).                                *)
Load(d) ==
  /\ config' = d.config /\ refs' = d.refs /\ admins' = d.admins \cup StaticAdmin
  /\ lists' = [k \in Ref |-> {}] /\ allowed' = [s \in Side |-> {}] /\ unread' = FALSE
  /\ job' = [h \in Caller |-> IF h = Loop THEN [NoJob EXCEPT !.pc = "snapshot"] ELSE NoJob]
  /\ up' = FALSE

Restart ==
  /\ restarts < MaxRestarts
  /\ restarts' = restarts + 1
  /\ Load(disk)
  /\ UNCHANGED <<disk, remote, failures, calls, changes>>

(* A process that is not up, its first start to come, any database.        *)
Init ==
  /\ disk \in Databases
  /\ config = [s \in Side |-> FALSE] /\ refs = [k \in Ref |-> "none"] /\ admins = StaticAdmin
  /\ lists = [k \in Ref |-> {}] /\ allowed = [s \in Side |-> {}] /\ unread = FALSE
  /\ job = [h \in Caller |-> NoJob] /\ up = FALSE
  /\ remote \in [Ref -> SUBSET PubKey]
  /\ calls = 0 /\ changes = 0 /\ failures = 0 /\ restarts = 0

Step(h) ==
  WriteDisk(h) \/ SetMemory(h) \/ RememberRef(h) \/ ForgetRef(h)
    \/ Snapshot(h) \/ Fetch(h) \/ Store(h) \/ Rebuild(h)

Next == (\E h \in Handler : Call(h)) \/ Tick \/ (\E h \in Caller : Step(h)) \/ PublishList \/ Restart

Spec == Init /\ [][Next]_vars

(* Goroutines run, the ticker fires, and a call to the relays or the       *)
(* database comes back.                                                    *)
FairSpec == Spec /\ WF_vars(Tick) /\ WF_vars(~ up /\ Restart) /\ \A h \in Caller : WF_vars(Step(h))

-----------------------------------------------------------------------------
(* Properties. *)

(* A rebuild that will take in what has changed since the last one. *)
RebuildPending ==
  \E h \in Caller :
    \/ job[h].pc = "rebuild" \/ job[h].stored
    \/ job[h].req.op = "addref" /\ job[h].pc \in {"fetch", "store"}

(* Whatever calls, refreshes and late answers overlap, and after a         *)
(* restart: who may write or read is exactly who is directly allowed, on a *)
(* list whose reference stands, or an admin; a pubkey that was removed,    *)
(* and the list of a removed reference that a fetch brings back, count no  *)
(* longer, unless a rebuild is still to come.                              *)
AllowedIsVouched ==
  up /\ ~ RebuildPending /\ ~ unread =>
    \A s \in Side, pk \in PubKey :
      config[s] => (May(s, pk) <=> \/ pk \in admins \/ pk \in disk.direct[s]
                                   \/ \E k \in Ref : Grants(refs[k], s) /\ pk \in lists[k])

(* When calls, changes and failures have ceased, the gates follow the      *)
(* lists as they are at the relays.                                        *)
AllowlistConverges ==
  <>[](\A s \in Side :
         allowed[s] = disk.direct[s] \cup UNION {remote[k] : k \in {r \in Ref : Grants(refs[r], s)}})
=============================================================================
