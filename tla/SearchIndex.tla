----------------------------- MODULE SearchIndex -----------------------------
(***************************************************************************)
(* Search documents and the writes of the search backend (Typesense) as    *)
(* the relay uses them.  A document is keyed by coordinate and carries the *)
(* id of the version it was projected from; an upsert replaces the whole   *)
(* document, a PATCH only its field, a delete goes by that id.             *)
(***************************************************************************)
EXTENDS RelayEvents, Sequences

Doc == [ev : Event \cup {NoEvent}, community : SUBSET Community, content : BOOLEAN]

NoDoc == [ev |-> NoEvent, community |-> {}, content |-> FALSE]

(* The document an upsert of e leaves: its communities are the event's own *)
(* h-tags, and content patched in earlier is gone.                         *)
Projected(e) == [ev |-> e, community |-> ownTags[e], content |-> FALSE]

(* projectionTask: exactly one of a metadata projection, a projection with *)
(* a content patch, a community PATCH of a document, a delete by id.       *)
EventTask(e) == [op |-> "event", ev |-> e, doc |-> NoCoord, set |-> {}]
ContentTask(e) == [op |-> "content", ev |-> e, doc |-> NoCoord, set |-> {}]
StampTask(c, cs) == [op |-> "stamp", ev |-> NoEvent, doc |-> c, set |-> cs]
DeleteTask(e) == [op |-> "delete", ev |-> e, doc |-> NoCoord, set |-> {}]
NoTask == [op |-> "none", ev |-> NoEvent, doc |-> NoCoord, set |-> {}]

AmbEvent == {e \in Event : IsAmb(e)}

AmbDoc == {c \in Coord : collection[c] = "amb"}

Task ==
  {EventTask(e) : e \in AmbEvent} \cup {ContentTask(e) : e \in AmbEvent}
    \cup {StampTask(c, cs) : c \in AmbDoc, cs \in SUBSET Community}
    \cup {DeleteTask(e) : e \in Event}

(* Batch upsert of which only the documents in landed get through: of two  *)
(* versions of one coordinate the last one stays, whatever their age.      *)
Upserted(docs, batch, landed) ==
  LET last(c) == {i \in landed : /\ coordOf[batch[i]] = c
                                 /\ \A j \in landed : coordOf[batch[j]] = c => j <= i}
  IN [c \in Coord |-> IF last(c) = {} THEN docs[c]
                      ELSE Projected(batch[CHOOSE i \in last(c) : TRUE])]

(* Delete by eventID in the collections cs. *)
Deleted(docs, e, cs) ==
  [c \in Coord |-> IF docs[c].ev = e /\ collection[c] \in cs THEN NoDoc ELSE docs[c]]

(* A PATCH of a document that is not there is a 404. *)
Stamped(docs, c, cs) ==
  IF docs[c] = NoDoc THEN docs ELSE [docs EXCEPT ![c].community = cs]

ContentPatched(docs, c) ==
  IF docs[c] = NoDoc THEN docs ELSE [docs EXCEPT ![c].content = TRUE]
=============================================================================
