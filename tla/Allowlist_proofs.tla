--------------------------- MODULE Allowlist_proofs ---------------------------
(***************************************************************************)
(* Theorems about the allowlist, for every number of calls, lists, pubkeys *)
(* and goroutines, and every interleaving of calls, refreshes and starts.  *)
(***************************************************************************)
EXTENDS Allowlist, TLAPS

-----------------------------------------------------------------------------
(* Type correctness. *)

Directed == {"write", "read", "both"}

LEMMA NoJobOK == NoJob \in Job /\ JobOK(NoJob)
  BY DEF NoJob, Job, JobOK, Request, Refresh

(* A goroutine moves to job j. *)
LEMMA JobType ==
  ASSUME job \in [Caller -> Job], \A g \in Caller : JobOK(job[g]),
         NEW h \in Caller, NEW j, j \in Job, JobOK(j), job' = [job EXCEPT ![h] = j]
  PROVE  job' \in [Caller -> Job] /\ \A g \in Caller : JobOK(job'[g])
<1>1. \A g \in Caller : job'[g] = IF g = h THEN j ELSE job[g]
  OBVIOUS
<1> QED
  BY <1>1

(* A call without a direction means both, so no other is remembered. *)
LEMMA WithDirectionType ==
  ASSUME NEW r \in Requests
  PROVE  WithDirection(r) \in Request(Directed) /\ WithDirection(r).op = r.op
<1> DEFINE others == [op : {"setaccess"}, config : [Side -> BOOLEAN]]
                       \cup [op : {"add", "remove"}, side : Side, pk : PubKey]
                       \cup [op : {"grant", "revoke"}, pk : PubKey]
                       \cup [op : {"removeref"}, ref : Ref]
                       \cup {Refresh}
<1>1. r \in others \/ r \in [op : {"addref"}, ref : Ref, dir : {"write", "read", "both", ""}]
  BY AllowlistAssumption DEF Request
<1>2. CASE r \in [op : {"addref"}, ref : Ref, dir : {"write", "read", "both", ""}]
  <2>1. WithDirection(r) \in [op : {"addref"}, ref : Ref, dir : Directed]
    BY <1>2 DEF WithDirection, Directed
  <2> QED
    BY <1>2, <2>1 DEF Request
<1>3. CASE r \in others
  <2>1. r.op # "addref"
    <3> HIDE DEF others
    <3>1. \A x \in others : x.op # "addref"
      BY DEF others, Refresh
    <3> QED
      BY <1>3, <3>1
  <2>2. r \in Request(Directed)
    BY <1>3 DEF Request
  <2> QED
    BY <2>1, <2>2 DEF WithDirection
<1> QED
  BY <1>1, <1>2, <1>3

(* What a call carries. *)
LEMMA RequestFields ==
  ASSUME NEW r \in Request(Directed)
  PROVE  /\ r.op \in {"setaccess", "add", "remove", "grant", "revoke", "addref", "removeref", "refresh"}
         /\ r.op = "setaccess" => r.config \in [Side -> BOOLEAN]
         /\ r.op \in {"add", "remove"} => r.side \in Side /\ r.pk \in PubKey
         /\ r.op \in {"grant", "revoke"} => r.pk \in PubKey
         /\ r.op = "addref" => r.ref \in Ref /\ r.dir \in Directed
         /\ r.op = "removeref" => r.ref \in Ref
  BY DEF Request, Refresh

LEMMA SavedType ==
  ASSUME disk \in Database, NEW r \in Request(Directed), r.op # "refresh"
  PROVE  Saved(r) \in Database
<1> USE RequestFields DEF Saved, Database
<1>1. CASE r.op = "setaccess"
  BY <1>1
<1>2. CASE r.op = "add"
  BY <1>2
<1>3. CASE r.op = "remove"
  BY <1>3
<1>4. CASE r.op = "grant"
  BY <1>4
<1>5. CASE r.op = "revoke"
  BY <1>5
<1>6. CASE r.op = "addref"
  BY <1>6 DEF Direction, Directed
<1>7. CASE r.op = "removeref"
  BY <1>7 DEF Direction
<1> QED
  BY <1>1, <1>2, <1>3, <1>4, <1>5, <1>6, <1>7

LEMMA RebuildType ==
  ASSUME disk \in Database, NEW rs, NEW ls \in [Ref -> SUBSET PubKey], RebuildFrom(rs, ls)
  PROVE  allowed' \in [Side -> SUBSET PubKey] /\ unread' \in BOOLEAN
<1>1. PICK bad \in SUBSET Side :
        /\ unread' = (bad # {})
        /\ allowed' = Merged([s \in Side |-> IF s \in bad THEN {} ELSE disk.direct[s]], rs, ls)
  BY DEF RebuildFrom
<1>2. disk.direct \in [Side -> SUBSET PubKey]
  BY DEF Database
<1> QED
  BY <1>1, <1>2 DEF Merged

LEMMA CallType ==
  ASSUME AllowTypeOK, NEW h \in Caller, Call(h) \/ (h = Loop /\ Tick)
  PROVE  AllowTypeOK'
<1>1. CASE Call(h)
  <2>1. PICK r \in Requests :
          job' = [job EXCEPT ![h] = [NoJob EXCEPT !.req = WithDirection(r),
                                       !.pc = IF r.op = "refresh" THEN "snapshot" ELSE "disk"]]
    BY <1>1 DEF Call
  <2> DEFINE j == [NoJob EXCEPT !.req = WithDirection(r),
                                !.pc = IF r.op = "refresh" THEN "snapshot" ELSE "disk"]
  <2>2. j \in Job /\ JobOK(j)
    BY WithDirectionType DEF NoJob, Job, JobOK, Directed
  <2> QED
    BY <1>1, <2>1, <2>2, JobType DEF Call, AllowTypeOK, memory
<1>2. CASE h = Loop /\ Tick
  <2>1. [NoJob EXCEPT !.pc = "snapshot"] \in Job /\ JobOK([NoJob EXCEPT !.pc = "snapshot"])
    BY NoJobOK DEF NoJob, Job, JobOK
  <2> QED
    BY <1>2, <2>1, JobType DEF Tick, AllowTypeOK, memory
<1> QED
  BY <1>1, <1>2

LEMMA DiskType ==
  ASSUME AllowTypeOK, NEW h \in Caller, WriteDisk(h) \/ SetMemory(h)
  PROVE  AllowTypeOK'
<1>0. job[h] \in Job /\ JobOK(job[h]) /\ job[h].req \in Request(Directed)
  BY DEF AllowTypeOK, Job, Directed
<1>1. CASE WriteDisk(h) /\ Done(h) /\ UNCHANGED disk
  BY <1>1, NoJobOK, JobType DEF WriteDisk, Done, AllowTypeOK, memory
<1>2. CASE WriteDisk(h) /\ disk' = Saved(job[h].req)
             /\ To(h, IF job[h].req.op \in {"add", "remove"} THEN "rebuild" ELSE "memory")
  <2> DEFINE pc == IF job[h].req.op \in {"add", "remove"} THEN "rebuild" ELSE "memory"
             j == [job[h] EXCEPT !.pc = pc]
  <2>1. job[h].pc = "disk" /\ job[h].req.op # "refresh" /\ ~ job[h].stored
    BY <1>0, <1>2 DEF WriteDisk, JobOK, Job
  <2>2. j \in Job /\ JobOK(j)
    BY <1>0, <2>1 DEF Job, JobOK
  <2>3. job' = [job EXCEPT ![h] = j]
    BY <1>2 DEF To
  <2>4. disk' \in Database
    BY <1>0, <1>2, <2>1, SavedType DEF AllowTypeOK
  <2> QED
    BY <1>2, <2>2, <2>3, <2>4, JobType DEF WriteDisk, AllowTypeOK, memory
<1>3. CASE SetMemory(h)
  <2>1. config' \in [Side -> BOOLEAN] /\ admins' \in SUBSET PubKey
    BY <1>0, <1>3, RequestFields DEF SetMemory, AllowTypeOK
  <2> QED
    BY <1>3, <2>1, NoJobOK, JobType DEF SetMemory, Done, AllowTypeOK
<1> QED
  BY <1>1, <1>2, <1>3 DEF WriteDisk

LEMMA RefType ==
  ASSUME AllowTypeOK, NEW h \in Caller, RememberRef(h) \/ ForgetRef(h) \/ Rebuild(h)
  PROVE  AllowTypeOK'
<1>0. job[h] \in Job /\ JobOK(job[h]) /\ job[h].req \in Request(Directed)
  BY DEF AllowTypeOK, Job, Directed
<1>1. CASE RememberRef(h)
  <2> DEFINE j == [job[h] EXCEPT !.pc = "fetch", !.todo = {job[h].req.ref}]
  <2>1. job[h].req.ref \in Ref /\ job[h].req.dir \in Direction
    BY <1>0, <1>1, RequestFields DEF RememberRef, Direction, Directed
  <2>2. j \in Job /\ JobOK(j)
    BY <1>0, <2>1 DEF Job, JobOK
  <2>3. job' = [job EXCEPT ![h] = j]
    BY <1>1 DEF RememberRef
  <2> QED
    BY <1>1, <2>1, <2>2, <2>3, JobType DEF RememberRef, AllowTypeOK
<1>2. CASE ForgetRef(h)
  <2>1. refs' \in [Ref -> Direction] /\ lists' \in [Ref -> SUBSET PubKey]
    BY <1>2 DEF ForgetRef, AllowTypeOK, Direction
  <2>2. allowed' \in [Side -> SUBSET PubKey] /\ unread' \in BOOLEAN
    BY <1>2, <2>1, RebuildType DEF ForgetRef, AllowTypeOK
  <2> QED
    BY <1>2, <2>1, <2>2, NoJobOK, JobType DEF ForgetRef, Done, AllowTypeOK
<1>3. CASE Rebuild(h)
  <2>1. allowed' \in [Side -> SUBSET PubKey] /\ unread' \in BOOLEAN
    BY <1>3, RebuildType DEF Rebuild, AllowTypeOK
  <2> QED
    BY <1>3, <2>1, NoJobOK, JobType DEF Rebuild, Done, AllowTypeOK
<1> QED
  BY <1>1, <1>2, <1>3

LEMMA FetchType ==
  ASSUME AllowTypeOK, NEW h \in Caller, Snapshot(h) \/ Fetch(h) \/ Store(h)
  PROVE  AllowTypeOK'
<1>0. job[h] \in Job /\ JobOK(job[h])
  BY DEF AllowTypeOK
<1>1. CASE Snapshot(h)
  <2> DEFINE j == [job[h] EXCEPT !.pc = "fetch", !.todo = {k \in Ref : refs[k] # "none"}]
  <2>1. j \in Job /\ JobOK(j) /\ job' = [job EXCEPT ![h] = j]
    BY <1>0, <1>1 DEF Snapshot, Job, JobOK
  <2> QED
    BY <1>1, <2>1, JobType DEF Snapshot, AllowTypeOK, memory
<1>2. CASE Fetch(h)
  <2>1. PICK j \in Job : JobOK(j) /\ job' = [job EXCEPT ![h] = j]
    <3>1. ASSUME NEW k \in job[h].todo,
                 job' = [job EXCEPT ![h].todo = @ \ {k}, ![h].pc = "store", ![h].key = k, ![h].got = remote[k]]
          PROVE  \E j \in Job : JobOK(j) /\ job' = [job EXCEPT ![h] = j]
      <4> DEFINE j == [job[h] EXCEPT !.todo = @ \ {k}, !.pc = "store", !.key = k, !.got = remote[k]]
      <4>1. k \in Ref /\ remote[k] \in SUBSET PubKey
        BY <1>0 DEF AllowTypeOK, Job
      <4>2. j \in Job /\ JobOK(j)
        BY <1>0, <4>1 DEF Job, JobOK
      <4>3. job' = [job EXCEPT ![h] = j]
        BY <3>1
      <4> QED
        BY <4>2, <4>3
    <3>2. ASSUME NEW k \in job[h].todo, job' = [job EXCEPT ![h].todo = @ \ {k}]
          PROVE  \E j \in Job : JobOK(j) /\ job' = [job EXCEPT ![h] = j]
      <4> DEFINE j == [job[h] EXCEPT !.todo = @ \ {k}]
      <4>1. j \in Job /\ JobOK(j) /\ job' = [job EXCEPT ![h] = j]
        BY <1>0, <3>2 DEF Job, JobOK
      <4> QED
        BY <4>1
    <3>3. ASSUME To(h, "rebuild")
          PROVE  \E j \in Job : JobOK(j) /\ job' = [job EXCEPT ![h] = j]
      <4> DEFINE j == [job[h] EXCEPT !.pc = "rebuild"]
      <4>1. j \in Job /\ JobOK(j) /\ job' = [job EXCEPT ![h] = j]
        BY <1>0, <3>3 DEF Job, JobOK, To
      <4> QED
        BY <4>1
    <3> QED
      BY <1>2, <3>1, <3>2, <3>3 DEF Fetch
  <2> QED
    BY <1>2, <2>1, JobType DEF Fetch, AllowTypeOK, memory
<1>3. CASE Store(h)
  <2> DEFINE j == [job[h] EXCEPT !.pc = "fetch", !.key = NoRef, !.got = {}, !.stored = TRUE]
  <2>1. job[h].key \in Ref /\ job[h].got \in SUBSET PubKey
    BY <1>0, <1>3 DEF Store, Job, JobOK
  <2>2. j \in Job /\ JobOK(j) /\ job' = [job EXCEPT ![h] = j]
    BY <1>0, <1>3 DEF Store, Job, JobOK
  <2>3. lists' \in [Ref -> SUBSET PubKey]
    BY <1>3, <2>1 DEF Store, AllowTypeOK
  <2> QED
    BY <1>3, <2>2, <2>3, JobType DEF Store, AllowTypeOK
<1> QED
  BY <1>1, <1>2, <1>3

LEMMA RestartType ==
  ASSUME AllowTypeOK, PublishList \/ Restart
  PROVE  AllowTypeOK'
<1>1. CASE PublishList
  BY <1>1 DEF PublishList, AllowTypeOK, memory
<1>2. CASE Restart
  <2>1. [NoJob EXCEPT !.pc = "snapshot"] \in Job /\ JobOK([NoJob EXCEPT !.pc = "snapshot"])
    BY NoJobOK DEF NoJob, Job, JobOK
  <2>2. job' \in [Caller -> Job] /\ \A g \in Caller : JobOK(job'[g])
    BY <1>2, <2>1, NoJobOK DEF Restart, Load
  <2> QED
    BY <1>2, <2>2, AllowlistAssumption DEF Restart, Load, AllowTypeOK, Database
<1> QED
  BY <1>1, <1>2

LEMMA InitType == Init => AllowTypeOK
<1> SUFFICES ASSUME Init PROVE AllowTypeOK
  OBVIOUS
<1>1. job \in [Caller -> Job] /\ \A h \in Caller : JobOK(job[h])
  BY NoJobOK DEF Init
<1> QED
  BY <1>1, AllowlistAssumption DEF Init, AllowTypeOK, Direction

(* What a step is. *)
LEMMA StepCases ==
  ASSUME Next
  PROVE  \/ \E h \in Caller : \/ Call(h) \/ (h = Loop /\ Tick)
                              \/ WriteDisk(h) \/ SetMemory(h)
                              \/ RememberRef(h) \/ ForgetRef(h) \/ Rebuild(h)
                              \/ Snapshot(h) \/ Fetch(h) \/ Store(h)
         \/ PublishList \/ Restart
  BY DEF Next, Step, Caller

LEMMA StepType ==
  ASSUME AllowTypeOK, [Next]_vars
  PROVE  AllowTypeOK'
<1>1. CASE Next
  BY <1>1, StepCases, CallType, DiskType, RefType, FetchType, RestartType
<1>2. CASE UNCHANGED vars
  BY <1>2 DEF vars, memory, AllowTypeOK
<1> QED
  BY <1>1, <1>2

(* The database, what is in memory of it and the calls keep their form.    *)
THEOREM AllowTypeCorrect == Spec => []AllowTypeOK
  BY InitType, StepType, PTL DEF Spec

-----------------------------------------------------------------------------
(* Who is allowed. *)

(* The sets in force are those merged from what the database and memory    *)
(* hold, unless a rebuild is to come or the last one could not read.       *)
MergedFresh ==
  up /\ ~ RebuildPending /\ ~ unread => allowed = Merged(disk.direct, refs, lists)

AllowInv == AllowTypeOK /\ MergedFresh

(* A rebuild is to come on account of job j. *)
Owes(j) ==
  \/ j.pc = "rebuild" \/ j.stored
  \/ j.req.op = "addref" /\ j.pc \in {"fetch", "store"}

(* A step of h that leaves alone what is merged, and does not drop what h  *)
(* owed.                                                                   *)
LEMMA FreshKept ==
  ASSUME AllowInv, NEW h \in Caller, NEW j \in Job, job' = [job EXCEPT ![h] = j],
         Owes(job[h]) => Owes(j),
         Owes(j) \/ (UNCHANGED <<up, unread, refs, lists, allowed>> /\ disk'.direct = disk.direct)
  PROVE  MergedFresh'
<1>1. \A g \in Caller : job'[g] = IF g = h THEN j ELSE job[g]
  BY DEF AllowInv, AllowTypeOK
<1>2. RebuildPending => RebuildPending'
  BY <1>1 DEF RebuildPending, Owes
<1>3. Owes(j) => RebuildPending'
  BY <1>1 DEF RebuildPending, Owes
<1>4. CASE UNCHANGED <<up, unread, refs, lists, allowed>> /\ disk'.direct = disk.direct
  <2>1. Merged(disk.direct, refs, lists)' = Merged(disk.direct, refs, lists)
    BY <1>4 DEF Merged
  <2> QED
    BY <1>2, <1>4, <2>1 DEF AllowInv, MergedFresh
<1> QED
  BY <1>3, <1>4 DEF MergedFresh

(* A rebuild that could read both sides merges what there is. *)
LEMMA FreshRebuilt ==
  ASSUME disk \in Database, UNCHANGED disk, NEW rs, NEW ls, refs' = rs, lists' = ls, RebuildFrom(rs, ls)
  PROVE  MergedFresh'
<1>1. PICK bad \in SUBSET Side :
        /\ unread' = (bad # {})
        /\ allowed' = Merged([s \in Side |-> IF s \in bad THEN {} ELSE disk.direct[s]], rs, ls)
  BY DEF RebuildFrom
<1>2. CASE bad = {}
  <2>1. [s \in Side |-> IF s \in bad THEN {} ELSE disk.direct[s]] = disk.direct
    BY <1>2 DEF Database
  <2> QED
    BY <1>1, <2>1 DEF MergedFresh, Merged
<1> QED
  BY <1>1, <1>2 DEF MergedFresh

LEMMA FreshCalls ==
  ASSUME AllowInv, NEW h \in Caller, Call(h) \/ (h = Loop /\ Tick) \/ WriteDisk(h) \/ SetMemory(h)
  PROVE  MergedFresh'
<1>0. job[h] \in Job /\ JobOK(job[h]) /\ AllowTypeOK' /\ AllowTypeOK
  BY CallType, DiskType DEF AllowInv, AllowTypeOK
<1>1. ~ Owes(job[h])
  BY <1>0 DEF Owes, JobOK, Job, Call, Tick, WriteDisk, SetMemory
<1>2. job'[h] \in Job
  BY <1>0 DEF AllowTypeOK
<1>3. ASSUME NEW j, job' = [job EXCEPT ![h] = j],
             Owes(j) \/ (UNCHANGED <<up, unread, refs, lists, allowed>> /\ disk'.direct = disk.direct)
      PROVE  MergedFresh'
  <2>1. j = job'[h]
    BY <1>0, <1>3 DEF AllowTypeOK
  <2> QED
    BY <1>1, <1>2, <1>3, <2>1, FreshKept
<1>4. CASE Call(h)
  BY <1>3, <1>4 DEF Call, memory
<1>5. CASE h = Loop /\ Tick
  BY <1>3, <1>5 DEF Tick, memory
<1>6. CASE WriteDisk(h) /\ Done(h) /\ UNCHANGED disk
  BY <1>3, <1>6 DEF WriteDisk, Done, memory
<1>7. CASE WriteDisk(h) /\ disk' = Saved(job[h].req)
             /\ To(h, IF job[h].req.op \in {"add", "remove"} THEN "rebuild" ELSE "memory")
  <2> DEFINE pc == IF job[h].req.op \in {"add", "remove"} THEN "rebuild" ELSE "memory"
             j == [job[h] EXCEPT !.pc = pc]
  <2>1. job' = [job EXCEPT ![h] = j]
    BY <1>7 DEF To
  <2>2. CASE job[h].req.op \in {"add", "remove"}
    <3>1. Owes(j)
      BY <1>0, <2>2 DEF Owes, Job
    <3> QED
      BY <1>3, <2>1, <3>1
  <2>3. CASE job[h].req.op \notin {"add", "remove"}
    <3>1. job[h].req \in Request(Directed) /\ job[h].req.op # "refresh"
      BY <1>0, <1>7 DEF WriteDisk, Job, JobOK, Directed
    <3>2. job[h].req.op \in {"setaccess", "grant", "revoke", "addref", "removeref"}
      BY <2>3, <3>1, RequestFields
    <3>3. disk'.direct = disk.direct
      BY <1>0, <1>7, <3>2 DEF Saved, AllowTypeOK, Database
    <3> QED
      BY <1>3, <1>7, <2>1, <3>3 DEF WriteDisk, memory
  <2> QED
    BY <2>2, <2>3
<1>8. CASE SetMemory(h)
  BY <1>3, <1>8 DEF SetMemory, Done
<1> QED
  BY <1>4, <1>5, <1>6, <1>7, <1>8 DEF WriteDisk

LEMMA FreshRefs ==
  ASSUME AllowInv, NEW h \in Caller, RememberRef(h) \/ ForgetRef(h) \/ Rebuild(h)
  PROVE  MergedFresh'
<1>0. job[h] \in Job /\ JobOK(job[h]) /\ disk \in Database
  BY DEF AllowInv, AllowTypeOK
<1>1. CASE RememberRef(h)
  <2> DEFINE j == [job[h] EXCEPT !.pc = "fetch", !.todo = {job[h].req.ref}]
  <2>1. job' = [job EXCEPT ![h] = j]
    BY <1>1 DEF RememberRef
  <2>2. job' \in [Caller -> Job] /\ job'[h] = j
    BY <1>1, <2>1, RefType DEF AllowInv, AllowTypeOK
  <2>3. Owes(j)
    BY <1>0, <1>1 DEF RememberRef, Owes, Job
  <2> QED
    BY <2>1, <2>2, <2>3, FreshKept
<1>2. CASE ForgetRef(h)
  BY <1>0, <1>2, FreshRebuilt DEF ForgetRef
<1>3. CASE Rebuild(h)
  BY <1>0, <1>3, FreshRebuilt DEF Rebuild
<1> QED
  BY <1>1, <1>2, <1>3

LEMMA FreshFetch ==
  ASSUME AllowInv, NEW h \in Caller, Snapshot(h) \/ Fetch(h) \/ Store(h)
  PROVE  MergedFresh'
<1>0. job[h] \in Job /\ JobOK(job[h]) /\ AllowTypeOK' /\ AllowTypeOK
  BY FetchType DEF AllowInv, AllowTypeOK
<1>1. job'[h] \in Job
  BY <1>0 DEF AllowTypeOK
<1>2. ASSUME NEW j, job' = [job EXCEPT ![h] = j], Owes(job[h]) => Owes(j),
             Owes(j) \/ (UNCHANGED <<up, unread, refs, lists, allowed>> /\ disk'.direct = disk.direct)
      PROVE  MergedFresh'
  <2>1. j = job'[h]
    BY <1>0, <1>2 DEF AllowTypeOK
  <2> QED
    BY <1>1, <1>2, <2>1, FreshKept
<1>3. CASE Snapshot(h)
  <2>1. ~ Owes(job[h])
    BY <1>0, <1>3 DEF Snapshot, Owes, JobOK, Job
  <2> QED
    BY <1>2, <1>3, <2>1 DEF Snapshot, memory
<1>4. CASE Fetch(h)
  <2>1. UNCHANGED <<up, unread, refs, lists, allowed>> /\ disk'.direct = disk.direct
    BY <1>4 DEF Fetch, memory
  <2>2. ASSUME NEW k \in job[h].todo,
               job' = [job EXCEPT ![h].todo = @ \ {k}, ![h].pc = "store", ![h].key = k, ![h].got = remote[k]]
        PROVE  MergedFresh'
    <3> DEFINE j == [job[h] EXCEPT !.todo = @ \ {k}, !.pc = "store", !.key = k, !.got = remote[k]]
    <3>1. job' = [job EXCEPT ![h] = j]
      BY <2>2
    <3>2. Owes(job[h]) => Owes(j)
      BY <1>0, <1>4 DEF Fetch, Owes, Job
    <3> QED
      BY <1>2, <2>1, <3>1, <3>2
  <2>3. ASSUME NEW k \in job[h].todo, job' = [job EXCEPT ![h].todo = @ \ {k}]
        PROVE  MergedFresh'
    <3> DEFINE j == [job[h] EXCEPT !.todo = @ \ {k}]
    <3>1. job' = [job EXCEPT ![h] = j] /\ (Owes(job[h]) => Owes(j))
      BY <1>0, <2>3 DEF Owes, Job
    <3> QED
      BY <1>2, <2>1, <3>1
  <2>4. ASSUME To(h, "rebuild")
        PROVE  MergedFresh'
    <3> DEFINE j == [job[h] EXCEPT !.pc = "rebuild"]
    <3>1. job' = [job EXCEPT ![h] = j] /\ Owes(j)
      BY <1>0, <2>4 DEF To, Owes, Job
    <3> QED
      BY <1>2, <3>1
  <2> QED
    BY <1>4, <2>2, <2>3, <2>4 DEF Fetch
<1>5. CASE Store(h)
  <2> DEFINE j == [job[h] EXCEPT !.pc = "fetch", !.key = NoRef, !.got = {}, !.stored = TRUE]
  <2>1. job' = [job EXCEPT ![h] = j] /\ Owes(j)
    BY <1>0, <1>5 DEF Store, Owes, Job
  <2> QED
    BY <1>2, <2>1
<1> QED
  BY <1>3, <1>4, <1>5

LEMMA FreshRestart ==
  ASSUME AllowInv, PublishList \/ Restart
  PROVE  MergedFresh'
<1>1. CASE PublishList
  <2>1. UNCHANGED <<disk, memory, job, up, unread>>
    BY <1>1 DEF PublishList
  <2>2. Merged(disk.direct, refs, lists)' = Merged(disk.direct, refs, lists)
    BY <2>1 DEF Merged, memory
  <2> QED
    BY <2>1, <2>2 DEF AllowInv, MergedFresh, RebuildPending, memory
<1>2. CASE Restart
  BY <1>2 DEF Restart, Load, MergedFresh
<1> QED
  BY <1>1, <1>2

LEMMA AllowInvInit == Init => AllowInv
<1>1. Init => MergedFresh
  BY DEF Init, MergedFresh
<1> QED
  BY <1>1, InitType DEF AllowInv

LEMMA AllowInvStep ==
  ASSUME AllowInv, [Next]_vars
  PROVE  AllowInv'
<1>1. AllowTypeOK'
  BY StepType DEF AllowInv
<1>2. MergedFresh'
  <2>1. CASE Next
    BY <2>1, StepCases, FreshCalls, FreshRefs, FreshFetch, FreshRestart
  <2>2. CASE UNCHANGED vars
    <3>1. Merged(disk.direct, refs, lists)' = Merged(disk.direct, refs, lists)
      BY <2>2 DEF Merged, vars, memory
    <3> QED
      BY <2>2, <3>1 DEF AllowInv, MergedFresh, RebuildPending, vars, memory
  <2> QED
    BY <2>1, <2>2
<1> QED
  BY <1>1, <1>2 DEF AllowInv

(* Whatever calls, refreshes, late answers and starts overlap: with no     *)
(* rebuild to come and the last one able to read, who may write or read is *)
(* exactly who is vouched for by the database, a standing list or as admin.*)
THEOREM OnlyVouchedAllowed == Spec => []AllowedIsVouched
<1>1. AllowInv => AllowedIsVouched
  BY DEF AllowInv, MergedFresh, AllowedIsVouched, May, Merged
<1> QED
  BY <1>1, AllowInvInit, AllowInvStep, PTL DEF Spec
=============================================================================
