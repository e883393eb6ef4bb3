------------------------------ MODULE ReadPath ------------------------------
(***************************************************************************)
(* REQ and COUNT: the filter's concepts are expanded through the mapping   *)
(* registry, the search collections are asked one after the other, what    *)
(* the gate blocks is dropped, and the client gets its answer within a     *)
(* time budget.  A producer goroutine runs the fetch; it outlives the      *)
(* request when the budget ends or the client leaves first.                *)
(***************************************************************************)
EXTENDS MappingRegistry

CONSTANTS
  Doc,          \* events the collections hold
  NoDoc,
  Collections,  \* in registration order
  AMB,          \* the collection of kind 30142
  Hanging,      \* collections that may never answer
  collectionOf,
  concepts,     \* Doc -> what each concept field of it names
  AnyField,     \* the field "concepts": all of them
  InitialDocs,
  Filters,      \* bound: Query -> the requests considered
  Changing,     \* bound: documents that come and go
  MaxLimit,     \* documents one collection returns
  MaxConceptFilters

Collection == ToSet(Collections)

ASSUME ReadAssumption ==
  /\ NoDoc \notin Doc /\ AMB \in Collection /\ Hanging \subseteq Collection
  /\ collectionOf \in [Doc -> Collection] /\ InitialDocs \subseteq Doc
  /\ Changing \subseteq Doc
  /\ Collections \in Seq(Collection)
  /\ \A q \in Query : \A f \in Filters[q] :
       /\ f.op \in {"req", "count"} /\ f.kinds \in Seq(Collection) /\ IsInjective(f.kinds) /\ f.trust \subseteq Key
       /\ \A i \in DOMAIN f.groups : \A d \in Doc : f.groups[i].field \in DOMAIN concepts[d]
  /\ MaxLimit \in Nat \ {0} /\ MaxConceptFilters \in Nat

VARIABLES
  indexed,  \* documents in the search collections
  blocked,  \* events the gate blocks
  req,      \* Query -> the request, its producer and what the client got
  focus     \* bound: see Init

vars == <<registryVars, indexed, blocked, req, focus>>

docVars == <<indexed, blocked, focus>>

NoFilter == [op |-> "req", kinds |-> <<>>, off |-> FALSE, related |-> FALSE, trust |-> {}, groups |-> <<>>]

NoRequest ==
  [at |-> "idle", filter |-> NoFilter, clauses |-> <<>>, producer |-> "off", left |-> <<>>,
   docs |-> {}, offer |-> NoDoc, out |-> {}, gaps |-> FALSE, due |-> {}]

States == {"idle", "expand", "open", "answered", "cut", "left"}

Over(q) == req[q].at \in {"answered", "cut", "left"}

ReadTypeOK ==
  /\ RegistryTypeOK
  /\ indexed \subseteq Doc /\ blocked \subseteq Doc
  /\ DOMAIN req = Query
  /\ \A q \in Query :
       /\ DOMAIN req[q] = DOMAIN NoRequest
       /\ req[q].at \in States /\ req[q].producer \in {"off", "fetch", "yield", "done"}
       /\ req[q].at # "idle" => req[q].filter \in Filters[q]
       /\ req[q].left \in Seq(Collection) /\ req[q].gaps \in BOOLEAN
       /\ req[q].docs \subseteq Doc /\ req[q].out \subseteq Doc /\ req[q].due \subseteq Doc
       /\ req[q].offer \in req[q].docs \cup {NoDoc}
       /\ Loading(q) => req[q].at = "expand"

-----------------------------------------------------------------------------
(* Filters *)

(* The default concordances unless the query names its own; and the        *)
(* authors it names.                                                       *)
TrustKeys(f) ==
  LET concordances(S) == {k \in S : source[k].kind = "concordance"}
  IN (IF concordances(f.trust) = {} THEN concordances(Defaults) ELSE concordances(f.trust))
       \cup {k \in f.trust : source[k].kind = "author"}

(* Only a query for nothing but kind 30142 is expanded. *)
Expandable(f) == ~f.off /\ f.kinds = <<AMB>> /\ f.groups # <<>>

(* Mutant of Widened: what the expansion finds takes the values' place. *)
WidenedBeyond(g, values, related) ==
  LET more == UNION {ToSet(Expand(g, v, related)) : v \in values} \ values
  IN IF more = {} THEN values ELSE more

Widened(g, values, related) == values \cup UNION {ToSet(Expand(g, v, related)) : v \in values}

(* A group of values of one field becomes a filter on all concept fields   *)
(* when the graph adds something to it, as long as there are slots.        *)
Rewrite(f, g) ==
  LET wide == [i \in DOMAIN f.groups |-> Widened(g, f.groups[i].values, f.related)]
      changed == {i \in DOMAIN f.groups : wide[i] # f.groups[i].values}
      slot(i) == Cardinality({j \in changed : j < i})
  IN [i \in DOMAIN f.groups |->
        IF i \in changed /\ slot(i) < MaxConceptFilters THEN [field |-> AnyField, values |-> wide[i]] ELSE f.groups[i]]

NamedIn(d, field) == IF field = AnyField THEN UNION Range(concepts[d]) ELSE concepts[d][field]

Matches(d, clauses) == \A i \in DOMAIN clauses : NamedIn(d, clauses[i].field) \cap clauses[i].values # {}

(* selected: every collection for a filter without kinds, else those its   *)
(* kinds belong to as the filter first names them.                         *)
Selected(f) == IF f.kinds = <<>> THEN Collections ELSE f.kinds

Hits(c, clauses) == {d \in indexed : collectionOf[d] = c /\ Matches(d, clauses)}

-----------------------------------------------------------------------------
(* The request *)

Fetch(r, clauses) == [r EXCEPT !.at = "open", !.clauses = clauses, !.producer = "fetch", !.left = Selected(r.filter)]

Ask(q) ==
  /\ req[q].at = "idle"
  /\ \E f \in {f \in Filters[q] : focus = "registry" => Expandable(f)} :
       LET due == {d \in UNION {Hits(c, f.groups) : c \in ToSet(Selected(f))} : d \notin blocked}
           r == [NoRequest EXCEPT !.filter = f, !.due = due]
       IN IF Expandable(f)
          THEN /\ req' = [req EXCEPT ![q] = [r EXCEPT !.at = "expand"]]
               /\ \E todo \in Sorted(ToLoad(TrustKeys(f))) : loads' = [loads EXCEPT ![q] = Begin(todo, {})]
          ELSE req' = [req EXCEPT ![q] = Fetch(r, f.groups)] /\ UNCHANGED loads
  /\ UNCHANGED <<remote, entries, lastUsed, failedAt, graphs, failures, docVars>>

(* The loads are over: with the graph of what is loaded now, or, when that *)
(* is nothing, as asked.                                                   *)
Expanded(q) ==
  LET f == req[q].filter
      loaded == LoadedOf(TrustKeys(f))
  IN /\ req[q].at = "expand" /\ ~Loading(q)
     /\ req' = [req EXCEPT ![q] = Fetch(@, IF loaded = {} THEN f.groups ELSE Rewrite(f, GraphOf(CachedGraph(loaded))))]
     /\ PickGraph(TrustKeys(f))
     /\ UNCHANGED <<remote, entries, failedAt, loads, failures, docVars>>

(* The producer asks the next collection, or is done. *)
NextCollection(r) ==
  [r EXCEPT !.left = Tail(@), !.docs = {}, !.producer = IF Len(r.left) = 1 THEN "done" ELSE "fetch"]

(* A collection answers a REQ with a list; COUNT adds its number of hits. *)
FetchReturns(q) ==
  LET r == req[q]
      hits == Hits(Head(r.left), r.clauses)
  IN /\ r.producer = "fetch"
     /\ \/ /\ r.filter.op = "req"
           /\ \E list \in {S \in SUBSET hits : Cardinality(S) = Min({MaxLimit, Cardinality(hits)})} :
                req' = [req EXCEPT ![q] = [r EXCEPT !.producer = "yield", !.docs = list, !.gaps = @ \/ list # hits]]
        \/ /\ r.filter.op = "count"
           /\ req' = [req EXCEPT ![q] = NextCollection([r EXCEPT !.out = @ \cup hits])]
     /\ UNCHANGED <<registryVars, docVars>>

(* A failed fetch yields nothing; a failed count ends the COUNT. *)
FetchFails(q) ==
  LET r == [req[q] EXCEPT !.gaps = TRUE]
  IN /\ r.producer = "fetch"
     /\ Unlucky /\ failures' = failures + 1
     /\ req' = [req EXCEPT ![q] = IF r.filter.op = "req" THEN NextCollection(r) ELSE [r EXCEPT !.producer = "done"]]
     /\ UNCHANGED <<remote, entries, lastUsed, failedAt, graphs, loads, docVars>>

Passes(d) == d \notin blocked

(* The producer's next step between two collections: drop a document, or   *)
(* offer it to the consumer.                                               *)
Yield(q) ==
  LET r == req[q]
  IN /\ r.producer = "yield" /\ r.offer = NoDoc
     /\ \/ /\ r.docs = {}
           /\ req' = [req EXCEPT ![q] = NextCollection(r)]
        \/ \E d \in r.docs :
             req' = [req EXCEPT ![q] = IF Passes(d) THEN [r EXCEPT !.offer = d] ELSE [r EXCEPT !.docs = @ \ {d}]]
     /\ UNCHANGED <<registryVars, docVars>>

(* The consumer takes what is offered and goes on, or the client has left. *)
Take(q) ==
  LET r == req[q]
      taken == [r EXCEPT !.docs = @ \ {r.offer}, !.offer = NoDoc]
  IN /\ r.at = "open" /\ r.offer # NoDoc
     /\ \/ req' = [req EXCEPT ![q] = [taken EXCEPT !.out = @ \cup {r.offer}]]
        \/ req' = [req EXCEPT ![q] = [taken EXCEPT !.at = "left"]]
     /\ UNCHANGED <<registryVars, docVars>>

(* Mutant of TimerFires: the budget is looked at between two events. *)
TimerFiresBetween(q) ==
  /\ req[q].at = "open" /\ req[q].offer # NoDoc
  /\ req' = [req EXCEPT ![q].at = "cut"]
  /\ UNCHANGED <<registryVars, docVars>>

(* The budget is used up. *)
TimerFires(q) ==
  /\ req[q].at = "open"
  /\ req' = [req EXCEPT ![q].at = "cut"]
  /\ UNCHANGED <<registryVars, docVars>>

(* The producer is done, and so is the request. *)
Answered(q) ==
  /\ req[q].at = "open" /\ req[q].producer = "done"
  /\ req' = [req EXCEPT ![q].at = "answered"]
  /\ UNCHANGED <<registryVars, docVars>>

(* Mutant of Stopped: stop is closed by the budget alone. *)
StoppedByBudget(q) ==
  /\ req[q].at = "cut" /\ req[q].offer # NoDoc
  /\ req' = [req EXCEPT ![q].producer = "done", ![q].offer = NoDoc, ![q].docs = {}]
  /\ UNCHANGED <<registryVars, docVars>>

(* A producer whose consumer has gone ends at its next send. *)
Stopped(q) ==
  /\ Over(q) /\ req[q].offer # NoDoc
  /\ req' = [req EXCEPT ![q].producer = "done", ![q].offer = NoDoc, ![q].docs = {}]
  /\ UNCHANGED <<registryVars, docVars>>

-----------------------------------------------------------------------------
(* The index and the gate: writes, deletions and bans, see RelayCore *)

NoLongerDue(d) == req' = [q \in Query |-> [req[q] EXCEPT !.due = @ \ {d}]]

Index(d) ==
  /\ d \notin indexed \cup blocked
  /\ indexed' = indexed \cup {d}
  /\ UNCHANGED <<registryVars, blocked, req, focus>>

Block(d) ==
  /\ d \in indexed \ blocked
  /\ blocked' = blocked \cup {d}
  /\ NoLongerDue(d)
  /\ UNCHANGED <<registryVars, indexed, focus>>

Purge(d) ==
  /\ d \in indexed \cap blocked
  /\ indexed' = indexed \ {d}
  /\ UNCHANGED <<registryVars, blocked, req, focus>>

-----------------------------------------------------------------------------
(* What a load of k would find now at relays that all answer. *)
Findable(k) ==
  LET all == UNION Range(remote)
      load == [NoLoad EXCEPT !.key = k]
      ask(ld) == Valid(Asked(ld, all))
      concordance == IF source[k].kind = "author" THEN {NoNote} ELSE ask([load EXCEPT !.stage = "concordance"])
      first == [load EXCEPT !.concordance = CHOOSE c \in concordance : TRUE, !.stage = "mapping"]
      mappings == IF source[k].kind = "author" THEN ask(first) ELSE Members(first.concordance, ask(first))
      second == [first EXCEPT !.mappings = mappings, !.stage = "concept"]
      found == IF SchemesOf(second) = {} THEN {} ELSE ask(second)
  IN IF concordance = {} \/ mappings = {} \/ (SchemesOf(second) # {} /\ found = {}) THEN Absent
     ELSE [concepts |-> found, mappings |-> mappings]

(* Bound: what the registry does and what becomes of documents meet in the *)
(* graph of a request only.  In a behaviour with focus "registry" requests *)
(* name concepts, and end once they are expanded; with focus "requests"    *)
(* the defaults are loaded, no refresh is due, no relay changes, and one   *)
(* request is considered.                                                  *)
Init ==
  /\ RegistryInit /\ blocked = {} /\ req = [q \in Query |-> NoRequest]
  /\ \/ focus = "registry" /\ indexed = {} /\ entries = [k \in Key |-> Absent]
     \/ /\ focus = "requests" /\ indexed = InitialDocs
        /\ entries = [k \in Key |-> IF k \in Defaults THEN Findable(k) ELSE Absent]

Registry == (Lookup \/ (focus = "registry" /\ Upkeep)) /\ UNCHANGED <<docVars, req>>

Serve(q) ==
  \/ (focus = "requests" => \A p \in Query : req[p].at = "idle") /\ Ask(q)
  \/ Expanded(q)
  \/ focus = "requests" /\ (FetchReturns(q) \/ FetchFails(q) \/ TimerFires(q))
  \/ Yield(q) \/ Take(q) \/ Answered(q) \/ Stopped(q)

Change(d) == focus = "requests" /\ (Index(d) \/ Block(d) \/ Purge(d))

Next ==
  \/ Registry
  \/ \E q \in Query : Serve(q)
  \/ \E d \in Changing : Change(d)

Spec == Init /\ [][Next]_vars

(* Deadlines pass and goroutines that are not waiting for a remote side go *)
(* on.  Relays owe a query nothing; a collection answers unless it hangs.  *)
(* The disjunctions are weak fairness, with the condition that enables the *)
(* action in its place.  A refresh begins by no action but Refresh, only   *)
(* PageArrives takes it on without counting a failure, and only Expanded   *)
(* opens a request that was expanding.                                     *)
Moved(l) == loads'[l] # loads[l]

Turned(q) == req'[q] # req[q]

GoOn(q) == focus = "requests" /\ (Yield(q) \/ Take(q) \/ TimerFires(q) \/ Answered(q) \/ Stopped(q))

FairSpec ==
  /\ Spec
  /\ []<>(Loading(Refresher) \/ focus # "registry") \/ []<><<Moved(Refresher) /\ ~Loading(Refresher)>>_loads
  /\ []<>~Loading(Refresher) \/ []<><<Moved(Refresher) /\ Loading(Refresher) /\ failures' = failures>>_loads
  /\ \A q \in Query :
       /\ []<>(req[q].at # "expand") \/ []<><<(Moved(q) /\ DeadlinePasses(q)) \/ (req[q].at = "expand" /\ req'[q].at = "open")>>_<<loads, req>>
       /\ WF_req(GoOn(q))
       /\ \/ []<>(focus = "registry" \/ req[q].producer # "fetch" \/ Head(req[q].left) \in Hanging)
          \/ []<><<Turned(q) /\ FetchReturns(q)>>_req

-----------------------------------------------------------------------------
(* What a request that ended by itself answers, with every collection      *)
(* asked in full, holds every document that matched the filter as it was   *)
(* written and that was there and not blocked all the time: expanding a    *)
(* filter and merging collections loses nothing (main.go:1089-1117).       *)
NothingLost ==
  \A q \in Query : req[q].at = "answered" /\ ~req[q].gaps => req[q].due \subseteq req[q].out

(* A fetch that ended well got every note its relay held all the while it  *)
(* was paged, however many share a second (pageRelay).                     *)
PagingComplete == \A l \in Loader : loads[l].missed = {}

(* Whatever sources queries name and relays fail, the caches keep to their *)
(* limits (store, markFailed, graphFor).                                   *)
CachesBounded ==
  /\ Cardinality(OnDemand) <= MaxOnDemandSources
  /\ Len(failedAt) <= MaxFailedSources
  /\ Cardinality(DOMAIN graphs) <= MaxCachedGraphs

(* A query is expanded by exactly the sources it trusts that are loaded at *)
(* that moment, also when its graph comes from the cache (graphFor).       *)
ExpandedByWhatIsLoaded ==
  [][\A q \in Query : req[q].at = "expand" /\ req'[q].at = "open" =>
       LET f == req[q].filter
           loaded == LoadedOf(TrustKeys(f))
       IN req'[q].clauses = IF loaded = {} THEN f.groups ELSE Rewrite(f, GraphOf(Merged(loaded)))]_vars

(* The walk finds what the documentation says an expansion finds, in every *)
(* graph that some of the mappings the relays hold make; looked at before  *)
(* any is loaded (vocabmap/graph.go:124-132).                              *)
ExpansionAsDocumented ==
  (\A q \in Query : req[q].at = "idle") /\ (\A k \in Key : ~Present(k)) /\ ~Loading(Refresher) =>
    LET held == UNION Range(remote)
        of(kind) == {n \in held : note[n].kind = kind}
    IN \A S \in SUBSET of("mapping") :
         LET g == GraphOf([concepts |-> of("concept"), mappings |-> S])
         IN \A id \in Concept, related \in BOOLEAN : ExpandedRight(g, id, related)

(* Every expansion and every request end, whatever relays and collections  *)
(* do (onDemandTimeout; boundedSeq, boundedCount).                         *)
RequestEnds ==
  \A q \in Query :
    LET waiting == req[q].at = "expand" \/ (req[q].at = "open" /\ focus = "requests")
    IN waiting ~> ~waiting

(* No producer is left behind: each ends, except in a fetch that hangs     *)
(* (boundedSeq, boundedCount).                                             *)
ProducerEnds ==
  \A q \in Query : Over(q) ~>
    \/ req[q].producer \in {"off", "done"}
    \/ req[q].producer = "fetch" /\ Head(req[q].left) \in Hanging

(* Once the relays stop changing, the default sources come to hold what    *)
(* can be found there, whatever failed before, also at the start           *)
(* (refresh, Init).                                                        *)
DefaultsConverge ==
  \A k \in Defaults : <>[](LET there == Findable(k) IN there = Absent \/ entries[k] = there)
=============================================================================
