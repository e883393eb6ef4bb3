---------------------------- MODULE ProjectionLog ----------------------------
(***************************************************************************)
(* What the projection buffer promises each search document.  Every        *)
(* document has a log of the writes asked of it; writes leave the log at   *)
(* its head, in order, each with its effect or lost.  Documents owe each   *)
(* other nothing: no order is promised between two of them.                *)
(***************************************************************************)
EXTENDS SearchIndex, SequencesExt

VARIABLES
  log,  \* Coord -> writes asked of its document and not yet done or lost
  doc   \* Coord -> its document

vars == <<log, doc>>

Init == log = [c \in Coord |-> <<>>] /\ doc = [c \in Coord |-> NoDoc]

Effect(d, w) ==
  CASE w.op = "event"   -> Projected(w.ev)
    [] w.op = "delete"  -> IF d.ev = w.ev THEN NoDoc ELSE d
    [] w.op = "stamp"   -> IF d = NoDoc THEN d ELSE [d EXCEPT !.community = w.set]
    [] w.op = "content" -> IF d = NoDoc THEN d ELSE [d EXCEPT !.content = TRUE]

(* What a step may make of a document d with log l.                        *)
Ask(l, m, d, e) == Len(l) <= Len(m) /\ SubSeq(m, 1, Len(l)) = l /\ e = d

(* One write, or a run of projections sent as a batch, takes effect; of a  *)
(* batch the last projection that got through is what remains.             *)
Perform(l, m, d, e) ==
  \E n \in 1..Len(l) :
    /\ m = SubSeq(l, n + 1, Len(l))
    /\ \/ e = d
       \/ n = 1 /\ e = Effect(d, l[1])
       \/ /\ \A i \in 1..n : l[i].op = "event"
          /\ \E i \in 1..n : e = Effect(d, l[i])

(* A write is lost, the gate having blocked its event; or all from some    *)
(* write on, in a shutdown past the deadline.                              *)
Lose(l, m, d, e) ==
  /\ \/ \E i \in 1..Len(l) : m = RemoveAt(l, i)
     \/ \E n \in 0..Len(l) : m = SubSeq(l, 1, n)
  /\ e = d

(* Someone else deletes the document. *)
Deletion(l, m, e) == m = l /\ e = NoDoc

Step(l, m, d, e) == Ask(l, m, d, e) \/ Perform(l, m, d, e) \/ Lose(l, m, d, e) \/ Deletion(l, m, e)

Next ==
  /\ DOMAIN log' = Coord /\ DOMAIN doc' = Coord
  /\ \A c \in Coord : Step(log[c], log'[c], doc[c], doc'[c])

Spec == Init /\ [][Next]_vars
=============================================================================
