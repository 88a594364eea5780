------------------------------ MODULE Mailbox ------------------------------
(***************************************************************************)
(* The git mailbox (src/mailbox/index.ts): messages are files in the       *)
(* outbox of their sender, agents/<from>/outbox/<to>/, and a reader takes  *)
(* what it pulled, checks each file, and orders what is left.              *)
(*                                                                         *)
(* A file has the two names of its path, or none; its bytes may not parse  *)
(* to a message of this version.  Dates of one moment are told apart by    *)
(* the message id, of which only the order is kept (rank).                 *)
(***************************************************************************)
EXTENDS Naturals

Supported == 1

BuildOutgoing(id, rank, from, to, at, kind, env) ==
  [path |-> [from |-> from, to |-> to], parses |-> TRUE, version |-> Supported, copy |-> FALSE,
   id |-> id, rank |-> rank, from |-> from, to |-> to, at |-> at, kind |-> kind, env |-> env]

IsSeen(seen, id)   == id \in seen
MarkSeen(seen, id) == seen \cup {id}

\* MUTANT: whoever wrote the wrapper is believed.
AnyPath(f) == f.path.to = f.to

\* Path-binding: the wrapper names the outbox it was found in, and its recipient.
PathBound(f) == f.path = [from |-> f.from, to |-> f.to]

\* What readIncoming makes of one file: a message for somebody else is skipped, and so
\* is one seen in an earlier batch; two files of one batch with one id are both ready.
Ready(f, self, seen) ==
  /\ f.parses /\ f.version = Supported
  /\ PathBound(f)
  /\ f.to = self
  /\ ~ IsSeen(seen, f.id)

\* readIncoming sorts what is ready by date, then by id.
Earlier(f, g) == f.at < g.at \/ (f.at = g.at /\ f.rank < g.rank)

ReadIncoming(files, self, seen) == {f \in files : Ready(f, self, seen)}

\* The messages of a batch that may come next.
First(batch) == {f \in batch : \A g \in batch : ~ Earlier(g, f)}
=============================================================================
