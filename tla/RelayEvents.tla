----------------------------- MODULE RelayEvents -----------------------------
(***************************************************************************)
(* The events the relay handles, as the write path tells them apart.  A    *)
(* Nostr event is immutable and named by its id, so an element of Event is *)
(* an id and the attributes the code reads are functions on Event.         *)
(*                                                                         *)
(* An addressable event has a coordinate kind:pubkey:d; all its versions   *)
(* share it.  An event without one is a kind-5 deletion request, the only  *)
(* regular kind whose handler does more than store.                        *)
(***************************************************************************)
EXTENDS Integers, FiniteSets

CONSTANTS
  Event,        \* event ids
  PubKey,       \* authors
  Coord,        \* addressable coordinates kind:pubkey:d
  NoEvent,      \* no event
  NoCoord,      \* no coordinate
  Community,    \* community pubkeys an event can be stamped with
  Caller,       \* goroutines that serve requests
  signer,       \* Event -> the pubkey that signed it
  createdAt,    \* Event -> created_at, in seconds
  idRank,       \* Event -> place of the id in lexicographic order
  coordOf,      \* Event -> its coordinate, or NoCoord
  ownTags,      \* Event -> the communities in its own h-tags
  eTargets,     \* deletion request -> the ids in its 'e' tags
  aTargets,     \* deletion request -> the coordinates in its 'a' tags
  coordAuthor,  \* Coord -> the pubkey part of the coordinate
  collection    \* Coord -> the search collection that holds its document

(* "amb" documents go through TSWriteBuffer; "structured" ones (long-form, *)
(* wiki, calendar, ...) are written by the handler itself.                 *)
Collection == {"amb", "structured"}

ASSUME EventAssumption ==
  /\ NoEvent \notin Event
  /\ NoCoord \notin Coord
  /\ signer \in [Event -> PubKey]
  /\ createdAt \in [Event -> Nat]
  /\ idRank \in [Event -> Nat]
  /\ coordOf \in [Event -> Coord \cup {NoCoord}]
  /\ ownTags \in [Event -> SUBSET Community]
  /\ eTargets \in [Event -> SUBSET Event]
  /\ aTargets \in [Event -> SUBSET Coord]
  /\ coordAuthor \in [Coord -> PubKey]
  /\ collection \in [Coord -> Collection]

(* A coordinate names its author. *)
ASSUME CoordAssumption ==
  \A e \in Event : coordOf[e] \in Coord => signer[e] = coordAuthor[coordOf[e]]

IsAddressable(e) == coordOf[e] # NoCoord

IsDeletion(e) == ~ IsAddressable(e)

IsAmb(e) == IsAddressable(e) /\ collection[coordOf[e]] = "amb"

(* nostr.IsOlder: the older version loses; of two of the same second the   *)
(* one with the lower id is the newer.                                     *)
IsOlder(a, b) ==
  \/ createdAt[a] < createdAt[b]
  \/ createdAt[a] = createdAt[b] /\ idRank[a] > idRank[b]

(* The 'a' targets of a deletion request that are its own author's. *)
SameAuthorCoords(d) == {c \in aTargets[d] : coordAuthor[c] = signer[d]}
=============================================================================
