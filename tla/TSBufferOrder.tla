---------------------------- MODULE TSBufferOrder ----------------------------
(***************************************************************************)
(* The projection buffer implements ProjectionLog: the log of a document   *)
(* is what the worker and the channel still hold for it.                   *)
(***************************************************************************)
EXTENDS TSBuffer, SequencesExt

(* Each AMB document sees its writes in the order they were queued. *)
OnDoc(w, c) ==
  /\ collection[c] = "amb"
  /\ \/ w.op \in {"event", "content", "delete"} /\ coordOf[w.ev] = c
     \/ w.op = "stamp" /\ w.doc = c

(* What task t asks of c: a content task a projection and then a patch.    *)
Writes(t, c) ==
  IF ~ OnDoc(t, c) THEN <<>>
  ELSE IF t.op = "content" THEN <<EventTask(t.ev), t>> ELSE <<t>>

Asked(s, c) ==
  LET upTo[n \in 0 .. Len(s)] == IF n = 0 THEN <<>> ELSE upTo[n - 1] \o Writes(s[n], c)
  IN upTo[Len(s)]

Projections(es) == [i \in DOMAIN es |-> EventTask(es[i])]

(* The write of its own that the task in process() has still to make.      *)
OwnWrite(c) ==
  IF tsTask.op \in {"content", "stamp", "delete"} /\ OnDoc(tsTask, c) THEN <<tsTask>> ELSE <<>>

(* What the worker has taken and not finished. *)
InWorker(c) == Asked(Projections(tsKept \o tsBatch), c) \o OwnWrite(c)

(* From the final flush on nobody reads the channel, and a worker left     *)
(* running past the deadline only finishes what it has.                    *)
Outstanding(c) ==
  LET reading == tsPhase # "stopped" /\ tsTask.op # "final"
  IN CASE reading                    -> InWorker(c) \o Asked(tsCh, c)
       [] ~ reading /\ tsPc # "idle" -> InWorker(c)
       [] OTHER                      -> <<>>

PerDocument == INSTANCE ProjectionLog WITH
  log <- [c \in Coord |-> Outstanding(c)], doc <- docs

WritesInOrderPerDocument == PerDocument!Spec
=============================================================================
