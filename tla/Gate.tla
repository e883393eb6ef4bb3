-------------------------------- MODULE Gate --------------------------------
(***************************************************************************)
(* The gate that says whether an event may exist on the relay: four        *)
(* buckets of the management database, written by bans and deletions and   *)
(* read, in one transaction, by every write path and by the read path.     *)
(***************************************************************************)
EXTENDS RelayEvents

VARIABLES
  bannedPubKeys,  \* NIP-86 bans of an author
  bannedEvents,   \* NIP-86 bans of an event
  deletedEvents,  \* ids their author deleted
  deletedCoords   \* Coord -> newest deletion time, NoDeletion when no row

gateVars == <<bannedPubKeys, bannedEvents, deletedEvents, deletedCoords>>

(* Below every created_at, so a coordinate without a row covers no version. *)
NoDeletion == -1

GateTypeOK ==
  /\ bannedPubKeys \in SUBSET PubKey
  /\ bannedEvents \in SUBSET Event
  /\ deletedEvents \in SUBSET Event
  /\ deletedCoords \in [Coord -> Nat \cup {NoDeletion}]

GateInit ==
  /\ bannedPubKeys = {}
  /\ bannedEvents = {}
  /\ deletedEvents = {}
  /\ deletedCoords = [c \in Coord |-> NoDeletion]

(* Blocked by id: by a ban of the event or its author's 'e' deletion. *)
IdBlocked(e) == e \in bannedEvents \/ e \in deletedEvents

(* A version at or before its coordinate's newest 'a' deletion. *)
Tombstoned(e) == IsAddressable(e) /\ createdAt[e] <= deletedCoords[coordOf[e]]

(* ManagementStore.isBlocked. *)
Blocked(e) == signer[e] \in bannedPubKeys \/ IdBlocked(e) \/ Tombstoned(e)

BanPubKey(p) ==
  /\ bannedPubKeys' = bannedPubKeys \cup {p}
  /\ UNCHANGED <<bannedEvents, deletedEvents, deletedCoords>>

AllowPubKey(p) ==
  /\ bannedPubKeys' = bannedPubKeys \ {p}
  /\ UNCHANGED <<bannedEvents, deletedEvents, deletedCoords>>

RecordBan(e) ==
  /\ bannedEvents' = bannedEvents \cup {e}
  /\ UNCHANGED <<bannedPubKeys, deletedEvents, deletedCoords>>

AllowEvent(e) ==
  /\ bannedEvents' = bannedEvents \ {e}
  /\ UNCHANGED <<bannedPubKeys, deletedEvents, deletedCoords>>

MarkEventDeleted(e) ==
  /\ deletedEvents' = deletedEvents \cup {e}
  /\ UNCHANGED <<bannedPubKeys, bannedEvents, deletedCoords>>

(* Mutant of MarkCoordDeleted: the last request wins. *)
MarkCoordDeletedLast(c, until) ==
  /\ deletedCoords' = [deletedCoords EXCEPT ![c] = until]
  /\ UNCHANGED <<bannedPubKeys, bannedEvents, deletedEvents>>

(* An older request never lowers an existing tombstone. *)
MarkCoordDeleted(c, until) ==
  /\ deletedCoords' = [deletedCoords EXCEPT ![c] = IF @ >= until THEN @ ELSE until]
  /\ UNCHANGED <<bannedPubKeys, bannedEvents, deletedEvents>>
=============================================================================
