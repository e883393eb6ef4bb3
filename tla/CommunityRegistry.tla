-------------------------- MODULE CommunityRegistry --------------------------
(***************************************************************************)
(* CommunityRegistry (community_registry.go): who may publish which kind   *)
(* into a community, as its definition and its member lists on other       *)
(* relays say.  A refresh goes through the communities that stored events  *)
(* name, fetches the definition and then the lists of each, and replaces   *)
(* what was known of it.  A community nobody has resolved is open to all.  *)
(***************************************************************************)
EXTENDS RelayEvents

CONSTANTS
  Kind,
  List,          \* member lists, by coordinate
  NoList,
  owner,         \* Community -> the pubkey it is
  Unresolved,
  NoDefinition,
  Definitions,   \* bound: Community -> the definitions it may have, sets of sections
  Joining,       \* bound: who joins and leaves lists
  Refresher      \* the goroutines of Init and of the refresh loop

(* A section leaves kinds to the members of a list, or to everybody. *)
Section == [kinds : SUBSET Kind, list : List \cup {NoList}]

ASSUME RegistryAssumption ==
  /\ owner \in [Community -> PubKey] /\ NoList \notin List /\ Joining \subseteq PubKey
  /\ Definitions \in [Community -> SUBSET ((SUBSET Section) \cup {NoDefinition})]
  /\ Unresolved \notin Community

VARIABLES
  definition,  \* Community -> its newest definition at the relays
  lists,       \* List -> its members there
  resolved,    \* Community -> what the registry knows: restricted kind -> members
  refresh      \* Refresher -> where its refresh is

registryVars == <<definition, lists, resolved, refresh>>

remoteVars == <<definition, lists>>

Idle == [pc |-> "idle", left |-> {}, of |-> Unresolved, sections |-> {}, ask |-> {}, got |-> <<>>]

Membership == UNION {[K -> SUBSET PubKey] : K \in SUBSET Kind}

Fetched == UNION {[L -> SUBSET PubKey] : L \in SUBSET List}

Refresh ==
  [pc : {"idle", "next", "lists"}, left : SUBSET Community, of : Community \cup {Unresolved},
   sections : SUBSET Section, ask : SUBSET List, got : Fetched]

(* What is fetched is not asked for again, nor what is gone through. *)
RefreshOK(f) ==
  /\ f.of \notin f.left
  /\ f.ask \cap DOMAIN f.got = {}
  /\ IF f.pc = "lists" THEN f.of \in Community ELSE f.got = <<>>

RegistryTypeOK ==
  /\ \A c \in Community : definition[c] \in Definitions[c]
  /\ lists \in [List -> SUBSET Joining]
  /\ resolved \in [Community -> Membership \cup {Unresolved}]
  /\ refresh \in [Refresher -> Refresh]
  /\ \A g \in Refresher : RefreshOK(refresh[g])

RegistryInit ==
  /\ definition \in {d \in [Community -> UNION {Definitions[c] : c \in Community}] :
                       \A c \in Community : d[c] \in Definitions[c]}
  /\ lists \in [List -> SUBSET Joining]
  /\ refresh = [g \in Refresher |-> Idle]

(* A kind is open when one of its sections has no list, else it is left to *)
(* the members of those of its lists that were fetched.                    *)
BuildMembership(sections, got) ==
  LET of(k) == {s.list : s \in {s \in sections : k \in s.kinds}}
  IN [k \in {k \in Kind : of(k) # {} /\ NoList \notin of(k)} |-> UNION {got[l] : l \in of(k) \cap DOMAIN got}]

Allows(c, m, pk, k) == pk = owner[c] \/ k \notin DOMAIN m \/ pk \in m[k]

(* What IsMember answers when res is known. *)
IsMemberIn(res, c, pk, k) == res[c] = Unresolved \/ Allows(c, res[c], pk, k)

(* What a refresh would find out now. *)
Truth ==
  [c \in Community |-> IF definition[c] = NoDefinition THEN Unresolved ELSE BuildMembership(definition[c], lists)]

(* Init's refresh and each tick: the communities that stored events name.  *)
RefreshBegins(g, named) ==
  /\ refresh[g].pc = "idle"
  /\ refresh' = [refresh EXCEPT ![g] = [Idle EXCEPT !.pc = "next", !.left = named]]
  /\ UNCHANGED <<remoteVars, resolved>>

RefreshEnds(g) ==
  /\ refresh[g].pc = "next" /\ refresh[g].left = {}
  /\ refresh' = [refresh EXCEPT ![g] = Idle]
  /\ UNCHANGED <<remoteVars, resolved>>

ListsOf(sections) == {s.list : s \in sections} \ {NoList}

(* The next community's definition, if there is one. *)
DefinitionFetched(g) ==
  /\ refresh[g].pc = "next"
  /\ \E c \in refresh[g].left :
       LET rest == [refresh[g] EXCEPT !.left = @ \ {c}]
       IN refresh' = [refresh EXCEPT ![g] =
            IF definition[c] = NoDefinition THEN rest
            ELSE [rest EXCEPT !.pc = "lists", !.of = c, !.sections = definition[c],
                              !.ask = ListsOf(definition[c])]]
  /\ UNCHANGED <<remoteVars, resolved>>

(* Not found in time: what is known of the community stays. *)
DefinitionFails(g) ==
  /\ refresh[g].pc = "next"
  /\ \E c \in refresh[g].left : refresh' = [refresh EXCEPT ![g].left = @ \ {c}]
  /\ UNCHANGED <<remoteVars, resolved>>

Got(got, l) == [k \in DOMAIN got \cup {l} |-> IF k = l THEN lists[l] ELSE got[k]]

ListFetched(g) ==
  /\ refresh[g].pc = "lists"
  /\ \E l \in refresh[g].ask :
       refresh' = [refresh EXCEPT ![g].ask = @ \ {l}, ![g].got = Got(@, l)]
  /\ UNCHANGED <<remoteVars, resolved>>

(* A list that is not found counts as empty, whatever was known of it. *)
ListFails(g) ==
  /\ refresh[g].pc = "lists"
  /\ \E l \in refresh[g].ask : refresh' = [refresh EXCEPT ![g].ask = @ \ {l}]
  /\ UNCHANGED <<remoteVars, resolved>>

(* The time for the refresh is over: nothing it still asks for is found.   *)
RefreshTimesOut(g) ==
  /\ refresh[g].pc # "idle" /\ refresh[g].ask \cup refresh[g].left # {}
  /\ refresh' = [refresh EXCEPT ![g].left = {}, ![g].ask = {}]
  /\ UNCHANGED <<remoteVars, resolved>>

(* Mutant of Resolved: only what was not known before is taken in. *)
ResolvedOnce(g) ==
  /\ refresh[g].pc = "lists" /\ refresh[g].ask = {}
  /\ resolved' = [resolved EXCEPT ![refresh[g].of] =
                    IF @ = Unresolved THEN BuildMembership(refresh[g].sections, refresh[g].got) ELSE @]
  /\ refresh' = [refresh EXCEPT ![g] = [Idle EXCEPT !.pc = "next", !.left = refresh[g].left]]
  /\ UNCHANGED remoteVars

Resolved(g) ==
  /\ refresh[g].pc = "lists" /\ refresh[g].ask = {}
  /\ resolved' = [resolved EXCEPT ![refresh[g].of] = BuildMembership(refresh[g].sections, refresh[g].got)]
  /\ refresh' = [refresh EXCEPT ![g] = [Idle EXCEPT !.pc = "next", !.left = refresh[g].left]]
  /\ UNCHANGED remoteVars

(* A list gets or loses a member. *)
ListChanges ==
  /\ \E l \in List, pk \in Joining :
       lists' = [lists EXCEPT ![l] = IF pk \in @ THEN @ \ {pk} ELSE @ \cup {pk}]
  /\ UNCHANGED <<definition, resolved, refresh>>
=============================================================================
