--------------------------- MODULE NIP05Directory ---------------------------
(***************************************************************************)
(* NIP05Directory (nip05_directory.go): one goroutine polls directories of *)
(* names over HTTP, keeps the members of each one's last good answer and   *)
(* hands those it did not know before on for enqueueing.                   *)
(***************************************************************************)
EXTENDS FiniteSets, Sequences, SequencesExt

CONSTANTS
  Author,
  Urls,              \* PROFILE_NIP05_DIRECTORIES, where it is set, in order
  Answers,           \* bound: the sets of members a directory may list
  MaxDirectoryChanges

ASSUME DirectoryAssumption ==
  Urls \in Seq(ToSet(Urls)) /\ Answers \subseteq SUBSET Author /\ MaxDirectoryChanges \in Nat

VARIABLES
  urls,        \* the directories configured: Urls or none
  names,       \* url -> the members the directory lists now
  members,     \* url -> the members of its last good answer
  poll,        \* the poll under way: urls to ask, members before it
  announced,   \* history: who was handed on since the start
  changes

directoryVars == <<urls, names, members, poll, announced, changes>>

NoPoll == [pc |-> "idle", left |-> <<>>, before |-> {}]

DirectoryTypeOK ==
  /\ urls \in {<<>>, Urls}
  /\ names \in [ToSet(urls) -> SUBSET Author] /\ members \in [ToSet(urls) -> SUBSET Author]
  /\ poll \in [pc : {"idle", "fetch"}, left : Seq(ToSet(urls)), before : SUBSET Author]
  /\ announced \subseteq Author /\ changes \in 0 .. MaxDirectoryChanges

DirectoryInit ==
  /\ urls \in {<<>>, Urls}
  /\ names = [u \in ToSet(urls) |-> {}]
  /\ members = [u \in ToSet(urls) |-> {}]
  /\ poll = NoPoll
  /\ announced = {} /\ changes = 0

Members == UNION Range(members)

(* Start's first poll, and each tick of its ticker; without directories    *)
(* there is no poller.                                                     *)
PollBegins ==
  /\ urls # <<>> /\ poll.pc = "idle"
  /\ poll' = [pc |-> "fetch", left |-> urls, before |-> Members]
  /\ UNCHANGED <<urls, names, members, announced, changes>>

(* The next directory answers with its names. *)
DirectoryAnswers ==
  /\ poll.pc = "fetch" /\ poll.left # <<>>
  /\ LET u == Head(poll.left)
     IN members' = [members EXCEPT ![u] = names[u]]
  /\ poll' = [poll EXCEPT !.left = Tail(@)]
  /\ UNCHANGED <<urls, names, announced, changes>>

(* Mutant of DirectoryFails: the poll ends there. *)
DirectoryFailsAborts ==
  /\ poll.pc = "fetch" /\ poll.left # <<>>
  /\ poll' = NoPoll
  /\ UNCHANGED <<urls, names, members, announced, changes>>

(* It does not, not in time, or with something else: its members stay. *)
DirectoryFails ==
  /\ poll.pc = "fetch" /\ poll.left # <<>>
  /\ poll' = [poll EXCEPT !.left = Tail(@)]
  /\ UNCHANGED <<urls, names, members, announced, changes>>

(* What the poll has found: members that were none before it. *)
Added == Members \ poll.before

PollEnds ==
  /\ poll.pc = "fetch" /\ poll.left = <<>>
  /\ poll' = NoPoll
  /\ UNCHANGED <<urls, names, members, announced, changes>>

(* A directory lists others. *)
DirectoryChanges ==
  /\ changes < MaxDirectoryChanges /\ changes' = changes + 1
  /\ \E u \in ToSet(urls) : \E S \in Answers \ {names[u]} : names' = [names EXCEPT ![u] = S]
  /\ UNCHANGED <<urls, members, poll, announced>>

(* The members are in memory only. *)
DirectoryRestarts ==
  /\ members' = [u \in ToSet(urls) |-> {}]
  /\ poll' = NoPoll
  /\ announced' = {}
  /\ UNCHANGED <<urls, names, changes>>
=============================================================================
