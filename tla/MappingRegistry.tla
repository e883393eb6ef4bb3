--------------------------- MODULE MappingRegistry ---------------------------
(***************************************************************************)
(* MappingRegistry: the mappings that concept expansion trusts, by source, *)
(* and the graphs built from them.  A refresh loop reloads the default     *)
(* sources and every cached one; a query loads the sources it names and    *)
(* that are not cached.  A load pages through each relay up to three times *)
(* without holding the lock; it is taken to store a result, to note a      *)
(* failure and to pick a graph.                                            *)
(***************************************************************************)
EXTENDS ConceptGraph, TLC

CONSTANTS
  Note,         \* concordances, mappings and concepts
  note,         \* Note -> what the parsers read from it
  NoNote,
  Relays,       \* EXPAND_READ_RELAYS, in order
  InitialNotes, \* Relay -> the notes it holds at the start
  Keys,         \* the sources there are, sorted
  source,       \* key -> the concordance's address or the author it stands for
  Defaults,     \* keys of the default sources
  NoKey,
  Query,        \* requests, each served by its own goroutine
  Refresher,    \* the refresh loop; its first pass is Init's
  PageSize,                  \* mappingPageSize
  MaxOnDemandSources, MaxFailedSources, MaxCachedGraphs, MaxOnDemandLoads,
  Moving,       \* bound: notes that are published later, and where
  MaxFailures   \* bound: fetches that fail

Key == ToSet(Keys)
Relay == ToSet(Relays)
Loader == Query \cup {Refresher}
Kind == {"concordance", "mapping", "concept"}

ASSUME RegistryAssumption ==
  /\ Refresher \notin Query /\ NoKey \notin Key /\ NoNote \notin Note
  /\ Keys \in Seq(Key) /\ IsInjective(Keys) /\ Relays \in Seq(Relay) \ {<<>>}
  /\ Defaults \subseteq Key /\ Moving \subseteq Relay \X Note /\ IsFiniteSet(Note)
  /\ InitialNotes \in [Relay -> SUBSET Note]
  /\ \A n \in Note : note[n].kind \in Kind /\ note[n].createdAt \in Nat \ {0}
  /\ \A k \in Key : source[k].kind \in {"concordance", "author"}
  /\ PageSize \in Nat \ {0} /\ MaxFailedSources \in Nat \ {0} /\ MaxCachedGraphs \in Nat \ {0}
  /\ MaxOnDemandSources \in Nat /\ MaxOnDemandLoads \in Nat /\ MaxFailures \in Nat

(* Mappings and concepts name identifiers, addresses of concepts included. *)
ASSUME GraphAssumption ==
  \A n \in Note :
    /\ note[n].kind = "mapping" => note[n].from \in Concept /\ note[n].to \subseteq Concept
    /\ note[n].kind = "concept" => note[n].id \in Concept /\ note[n].broader \cup note[n].narrower \subseteq Concept

VARIABLES
  remote,    \* what each relay holds
  entries,   \* r.entries, Absent where there is none
  lastUsed,  \* order of the cached on-demand sources by last use, 0 for others
  failedAt,  \* keys whose last load failed less than mappingRetryAfter ago
  graphs,    \* r.graphs: keys -> the notes the cached graph was built from
  loads,     \* Loader -> the load it is in and the keys it goes on with
  failures

registryVars == <<remote, entries, lastUsed, failedAt, graphs, loads, failures>>

Entry == [concepts : SUBSET Note, mappings : SUBSET Note]

Load ==
  [key : Key \cup {NoKey}, todo : Seq(Key), stage : Kind, relay : DOMAIN Relays, until : Nat,
   seen : SUBSET Note, got : SUBSET Note, held : SUBSET Note, missed : SUBSET Note,
   concordance : Note \cup {NoNote}, mappings : SUBSET Note]

(* No query loads a default. *)
RegistryTypeOK ==
  /\ remote \in [Relay -> SUBSET Note]
  /\ entries \in [Key -> Entry] /\ lastUsed \in [Key -> 0 .. Cardinality(Key)]
  /\ failedAt \in Seq(Key \ Defaults) /\ IsInjective(failedAt)
  /\ graphs \in [DOMAIN graphs -> Entry] /\ DOMAIN graphs \subseteq SUBSET Key
  /\ loads \in [Loader -> Load] /\ failures \in 0 .. MaxFailures
  /\ \A q \in Query : loads[q].key \notin Defaults /\ loads[q].todo \in Seq(Key \ Defaults)

Absent == [concepts |-> {}, mappings |-> {}]

Present(k) == entries[k] # Absent

OnDemand == {k \in Key : Present(k) /\ k \notin Defaults}

Latest(notes) ==
  {n \in notes : \A o \in notes \ {n} : note[o].address = note[n].address =>
     \/ note[n].createdAt > note[o].createdAt
     \/ note[n].createdAt = note[o].createdAt /\ note[n].rank < note[o].rank}

Valid(notes) == {n \in Latest(notes) : note[n].valid}

(* Members: mappings that say they are part of the concordance c, by its   *)
(* owner or a maintainer, between its schemes.  Of several that state the  *)
(* same mapping one is enough, which one does not show.                    *)
Members(c, mappings) ==
  {m \in mappings : /\ note[m].partOf = note[c].address
                    /\ note[m].author \in {note[c].author} \cup note[c].maintainers
                    /\ note[m].between = note[c].between}

-----------------------------------------------------------------------------
(* A load: fetch the concordance, its mappings, the concepts of its        *)
(* schemes; or an author's mappings and the concepts of their schemes.     *)

NoLoad ==
  [key |-> NoKey, todo |-> <<>>, stage |-> "concordance", relay |-> 1, until |-> 0,
   seen |-> {}, got |-> {}, held |-> {}, missed |-> {}, concordance |-> NoNote, mappings |-> {}]

(* Schemes whose concepts the load asks for. *)
SchemesOf(ld) == UNION {note[n].schemes : n \in IF ld.concordance = NoNote THEN ld.mappings ELSE {ld.concordance}}

(* Those of notes that the filter of the fetch ld is in asks for. *)
Asked(ld, notes) ==
  LET schemes == SchemesOf(ld)
      authors == {note[ld.concordance].author} \cup note[ld.concordance].maintainers
      of == source[ld.key].of
      wanted(n) ==
        CASE ld.stage = "concordance" -> n.address = of
          [] ld.stage = "mapping" /\ ld.concordance # NoNote -> n.partOf = of /\ n.author \in authors
          [] ld.stage = "mapping" /\ ld.concordance = NoNote -> n.author = of
          [] OTHER -> n.schemes \cap schemes # {}
  IN {n \in notes : note[n].kind = ld.stage /\ wanted(note[n])}

Offered(ld) == Asked(ld, remote[Relays[ld.relay]])

(* Paging of one relay starts over. *)
FromTop(ld) == [ld EXCEPT !.until = 0, !.seen = {}, !.held = Offered(ld)]

Fetching(ld, stage) == FromTop([ld EXCEPT !.stage = stage, !.relay = 1, !.got = {}])

Begin(todo, missed) ==
  IF todo = <<>> THEN [NoLoad EXCEPT !.missed = missed]
  ELSE Fetching([NoLoad EXCEPT !.key = Head(todo), !.todo = Tail(todo), !.missed = missed],
                IF source[Head(todo)].kind = "concordance" THEN "concordance" ELSE "mapping")

(* What a relay may answer to a page request: the newest first, ties in    *)
(* any order.                                                              *)
Pages(ld) ==
  LET notes == {n \in Offered(ld) : ld.until = 0 \/ note[n].createdAt <= ld.until}
      size == Min({PageSize, Cardinality(notes)})
      newer(n) == {o \in notes : note[o].createdAt > note[n].createdAt}
      upTo(n) == {o \in notes : note[o].createdAt >= note[n].createdAt}
      certain == {n \in notes : Cardinality(upTo(n)) <= size}
      tied == {n \in notes \ certain : Cardinality(newer(n)) < size}
  IN {certain \cup S : S \in {T \in SUBSET tied : Cardinality(T) = size - Cardinality(certain)}}

Oldest(page) == Min({note[n].createdAt : n \in page})

(* Mutant of NextUntil: the next page starts below the last one. *)
NextUntilBelow(page) == Oldest(page) - 1

(* The next page overlaps the last one: more of its oldest second may follow. *)
NextUntil(page) == Oldest(page)

Loading(l) == loads[l].key # NoKey

(* A full page with something new: ask for the next one. *)
NextPage(l, page) ==
  /\ Cardinality(page) = PageSize /\ ~(page \subseteq loads[l].seen)
  /\ loads' = [loads EXCEPT ![l].until = NextUntil(page), ![l].seen = @ \cup page, ![l].got = @ \cup page]
  /\ UNCHANGED <<entries, lastUsed, failedAt, graphs>>

LastPage(page) == Cardinality(page) < PageSize

Received(l, page) ==
  LET ld == loads[l] IN [ld EXCEPT !.got = @ \cup page, !.missed = @ \cup (ld.held \ (ld.got \cup page))]

NextRelay(l, page) ==
  /\ LastPage(page) /\ loads[l].relay < Len(Relays)
  /\ loads' = [loads EXCEPT ![l] = FromTop([Received(l, page) EXCEPT !.relay = @ + 1])]
  /\ UNCHANGED <<entries, lastUsed, failedAt, graphs>>

(* Mutant of Failed: the memory grows. *)
FailedUnbounded(k) == Append(RemoveFirst(failedAt, k), k)

(* markFailed.  Notes older than mappingRetryAfter mean nothing and are    *)
(* left out of failedAt as soon as they are that old (RetryElapses).       *)
Failed(k) ==
  LET kept == IF Len(failedAt) >= MaxFailedSources THEN Tail(failedAt) ELSE failedAt
  IN Append(RemoveFirst(kept, k), k)

(* The load comes to nothing: what is cached stays.  Only a query keeps    *)
(* the failure in mind.                                                    *)
GiveUp(l) ==
  /\ loads' = [loads EXCEPT ![l] = Begin(loads[l].todo, loads[l].missed)]
  /\ failedAt' = IF l \in Query THEN Failed(loads[l].key) ELSE failedAt
  /\ UNCHANGED <<entries, lastUsed, graphs>>

(* Only the order of the times matters: ranks of the sources in live. *)
Ranked(live, time) ==
  [k \in Key |-> IF k \in live THEN Cardinality({time[j] : j \in {j \in live : time[j] <= time[k]}}) ELSE 0]

Now == Cardinality(Key) + 1

(* Who may go when there is one source too many: used least recently. *)
Evictable(live, time) == {k \in live : \A j \in live : time[k] <= time[j]}

(* Mutant of KeptGraphs: graphs outlive what they were built from. *)
KeptGraphsAll(k) == graphs

(* store drops every cached graph. *)
KeptGraphs(k) == <<>>

(* store: a new source counts as just used, one that is reloaded keeps its *)
(* place; one too many pushes the least recently used one out.             *)
Store(l, k, entry) ==
  LET time == IF Present(k) THEN lastUsed ELSE [lastUsed EXCEPT ![k] = Now]
      live == (OnDemand \cup {k}) \ Defaults
  IN /\ \E gone \in IF Cardinality(live) > MaxOnDemandSources THEN Evictable(live, time) ELSE {NoKey} :
          /\ entries' = [j \in Key |-> IF j = gone THEN Absent ELSE IF j = k THEN entry ELSE entries[j]]
          /\ lastUsed' = Ranked(live \ {gone}, time)
     /\ failedAt' = RemoveFirst(failedAt, k)
     /\ graphs' = KeptGraphs(k)
     /\ loads' = [loads EXCEPT ![l] = Begin(loads[l].todo, loads[l].missed)]

(* The fetch is complete; got is all of it.  Nothing usable in it makes    *)
(* the load fail.                                                          *)
ConcordanceRead(l, ld) ==
  /\ ld.stage = "concordance"
  /\ IF Valid(ld.got) = {} THEN GiveUp(l)
     ELSE /\ loads' = [loads EXCEPT ![l] =
                         Fetching([ld EXCEPT !.concordance = CHOOSE n \in Valid(ld.got) : TRUE], "mapping")]
          /\ UNCHANGED <<entries, lastUsed, failedAt, graphs>>

(* Without schemes there are no concepts to fetch. *)
MappingsRead(l, ld) ==
  LET found == IF ld.concordance = NoNote THEN Valid(ld.got) ELSE Members(ld.concordance, Valid(ld.got))
      next == [ld EXCEPT !.mappings = found]
  IN /\ ld.stage = "mapping"
     /\ \/ found = {} /\ GiveUp(l)
        \/ found # {} /\ SchemesOf(next) = {} /\ Store(l, ld.key, [concepts |-> {}, mappings |-> found])
        \/ /\ found # {} /\ SchemesOf(next) # {}
           /\ loads' = [loads EXCEPT ![l] = Fetching(next, "concept")]
           /\ UNCHANGED <<entries, lastUsed, failedAt, graphs>>

ConceptsRead(l, ld) ==
  /\ ld.stage = "concept"
  /\ IF Valid(ld.got) = {} THEN GiveUp(l)
     ELSE Store(l, ld.key, [concepts |-> Valid(ld.got), mappings |-> ld.mappings])

(* fetchPage returned: a complete page, because EOSE came. *)
PageArrives(l) ==
  /\ Loading(l)
  /\ \E page \in Pages(loads[l]) :
       \/ NextPage(l, page)
       \/ Cardinality(page) = PageSize /\ page \subseteq loads[l].seen /\ GiveUp(l)
       \/ NextRelay(l, page)
       \/ /\ LastPage(page) /\ loads[l].relay = Len(Relays)
          /\ LET ld == Received(l, page) IN ConcordanceRead(l, ld) \/ MappingsRead(l, ld) \/ ConceptsRead(l, ld)
  /\ UNCHANGED <<remote, failures>>

Unlucky == failures < MaxFailures

(* No connection, CLOSED, or the end of the subscription before EOSE. *)
PageFails(l) ==
  /\ Loading(l)
  /\ Unlucky
  /\ failures' = failures + 1
  /\ GiveUp(l)
  /\ UNCHANGED remote

(* The time for all loads of this query is over.  The one under way fails, *)
(* unless it had not begun; the others are not tried.                      *)
DeadlinePasses(q) ==
  /\ Loading(q)
  /\ loads' = [loads EXCEPT ![q] = Begin(<<>>, @.missed)]
  /\ \/ failedAt' = Failed(loads[q].key)
     \/ loads[q] = Begin(<<loads[q].key>> \o loads[q].todo, loads[q].missed) /\ UNCHANGED failedAt
  /\ UNCHANGED <<remote, entries, lastUsed, graphs, failures>>

(* So is the time of a refresh: every load left fails at once. *)
RefreshTimesOut ==
  /\ Loading(Refresher)
  /\ Unlucky
  /\ failures' = failures + 1
  /\ loads' = [loads EXCEPT ![Refresher] = Begin(<<>>, @.missed)]
  /\ UNCHANGED <<remote, entries, lastUsed, failedAt, graphs>>

(* Mutant of RefreshOrders: only what is cached is loaded again. *)
RefreshOrdersCached == SetToSeqs({k \in Key : Present(k)})

(* sourceKeys sorts. *)
Comes(k, j) == \E m, n \in DOMAIN Keys : Keys[m] = k /\ Keys[n] = j /\ m < n

Sorted(keys) == {s \in SetToSeqs(keys) : \A i, j \in DOMAIN s : i < j => Comes(s[i], s[j])}

(* The sources a refresh goes through: the defaults, then the cached ones  *)
(* in any order.                                                           *)
RefreshOrders == {d \o s : d \in Sorted(Defaults), s \in SetToSeqs(OnDemand)}

Refresh ==
  /\ ~Loading(Refresher)
  /\ \E todo \in RefreshOrders : loads' = [loads EXCEPT ![Refresher] = Begin(todo, @.missed)]
  /\ UNCHANGED <<remote, entries, lastUsed, failedAt, graphs, failures>>

(* mappingRetryAfter has passed since the oldest failure. *)
RetryElapses ==
  /\ failedAt # <<>>
  /\ failedAt' = Tail(failedAt)
  /\ UNCHANGED <<remote, entries, lastUsed, graphs, loads, failures>>

(* toLoad, cut to what one query may load. *)
ToLoad(keys) ==
  LET missing == {k \in keys \ Defaults : ~Present(k) /\ ~Contains(failedAt, k)}
  IN {k \in missing : Cardinality({j \in missing : Comes(j, k)}) < MaxOnDemandLoads}

-----------------------------------------------------------------------------
(* Graphs *)

AddressesOf(k) == {note[c].address : c \in entries[k].concepts}

(* What the entries of keys hold together.  Of several versions of one     *)
(* concept the first source's counts; a mapping is the same in all.        *)
Merged(keys) ==
  LET first(c) == CHOOSE i \in DOMAIN Keys : /\ Keys[i] \in keys /\ c \in AddressesOf(Keys[i])
                                            /\ \A j \in 1 .. i - 1 : Keys[j] \in keys => c \notin AddressesOf(Keys[j])
  IN [concepts |-> UNION {{c \in entries[k].concepts : Keys[first(note[c].address)] = k} : k \in keys},
      mappings |-> UNION {entries[k].mappings : k \in keys}]

GraphOf(merged) == NewGraph({note[c] : c \in merged.concepts}, {note[m] : m \in merged.mappings})

LoadedOf(keys) == {k \in keys : Present(k)}

CachedGraph(keys) == IF keys \in DOMAIN graphs THEN graphs[keys] ELSE Merged(keys)

(* graphFor: the sources of keys that are loaded have been used now; their *)
(* graph is cached under exactly them.                                     *)
PickGraph(keys) ==
  LET loaded == LoadedOf(keys)
      room == IF loaded \in DOMAIN graphs \/ Cardinality(DOMAIN graphs) < MaxCachedGraphs THEN graphs ELSE <<>>
  IN /\ lastUsed' = Ranked(OnDemand, [k \in Key |-> IF k \in loaded THEN Now ELSE lastUsed[k]])
     /\ graphs' = IF loaded = {} THEN graphs
                  ELSE [k \in DOMAIN room \cup {loaded} |-> IF k = loaded THEN CachedGraph(loaded) ELSE room[k]]

-----------------------------------------------------------------------------
(* The relays *)

(* A relay gets n, in place of an older version of it.  Loads under way    *)
(* can no longer count on what is gone.                                    *)
Publish(r, n) ==
  LET old == {o \in remote[r] : note[o].address = note[n].address}
  IN /\ n \notin remote[r]
     /\ \A o \in old : note[o].createdAt < note[n].createdAt
     /\ remote' = [remote EXCEPT ![r] = (@ \ old) \cup {n}]
     /\ loads' = [l \in Loader |->
          IF Relays[loads[l].relay] = r THEN [loads[l] EXCEPT !.held = @ \ old] ELSE loads[l]]
     /\ UNCHANGED <<entries, lastUsed, failedAt, graphs, failures>>

-----------------------------------------------------------------------------
RegistryInit ==
  /\ remote = InitialNotes
  /\ lastUsed = [k \in Key |-> 0]
  /\ failedAt = <<>>
  /\ graphs = <<>>
  /\ loads = [l \in Loader |-> NoLoad]
  /\ failures = 0

Lookup ==
  \/ \E l \in Loader : PageArrives(l) \/ PageFails(l)
  \/ \E q \in Query : DeadlinePasses(q)
  \/ RetryElapses

Upkeep ==
  \/ Refresh \/ RefreshTimesOut
  \/ \E m \in Moving : Publish(m[1], m[2])
=============================================================================
