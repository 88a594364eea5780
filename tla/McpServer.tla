----------------------------- MODULE McpServer -----------------------------
(***************************************************************************)
(* The stdio server of the friends' tools (src/mcp/server.ts): a stream    *)
(* of requests arrives in chunks, is cut into messages by either of two    *)
(* framings, and each message is dispatched without waiting for the last.  *)
(*                                                                         *)
(* The stream is a sequence of units: the beginning of a Content-Length    *)
(* header (too short to be recognised), the rest of it, a character of a   *)
(* body with its place there, a newline.  Bodies differ in how many        *)
(* characters and how many bytes they have.                                *)
(***************************************************************************)
EXTENDS Naturals, FiniteSets, SequencesExt

CONSTANTS
  Request,
  Script,    \* the requests, in the order the client writes them
  Body,      \* [Request -> its framing, length in characters and bytes, whether it has an id]
  MaxChunk,    \* bound: units of one chunk
  MaxRestarts  \* bound: restarts of the process

Bad == "parse error"

ASSUME ServerAssumption ==
  /\ Bad \notin Request
  /\ Script \in Seq(Request)
  /\ \A i, j \in DOMAIN Script : Script[i] = Script[j] => i = j
  /\ Body \in [Request -> [framing : {"length", "line"}, chars : Nat \ {0}, bytes : Nat \ {0}, id : BOOLEAN]]
  /\ MaxChunk \in Nat /\ MaxRestarts \in Nat

VARIABLES
  unsent,   \* the units of the stream that the client has still to write
  buffer,   \* what the server has not parsed yet
  spoken,   \* the framing it answers in, detected on the first chunk
  misread,  \* how many parse errors it has answered
  answers,  \* [Request -> how often it was answered]
  lost,     \* history: requests that a restart cut off
  restarts  \* how often the process was started again

serverVars == <<unsent, buffer, spoken, misread, answers, lost, restarts>>

Unit == Request \X {"head", "rest", "char", "newline"} \X Nat

Content(q) == [i \in 1..Body[q].chars |-> <<q, "char", i>>]

Units(q) ==
  IF Body[q].framing = "length" THEN <<<<q, "head", 0>>, <<q, "rest", 0>>>> \o Content(q)
  ELSE Append(Content(q), <<q, "newline", 0>>)

AndThen(units, q) == units \o Units(q)

\* The first n requests of the script, and all of them.
Streams(n) ==
  LET stream[i \in 0..n] == IF i = 0 THEN <<>> ELSE AndThen(stream[i - 1], Script[i])
  IN  stream

Written(n) == Streams(n)[n]

Stream == Written(Len(Script))

Left(q) == {u \in ToSet(unsent) : u[1] = q}

\* The requests that have been written, whole or in part.
Whole == {q \in ToSet(Script) : Left(q) = {}}
Half  == {q \in ToSet(Script) : Left(q) \notin {{}, ToSet(Units(q))}}

ServerTypeOK ==
  /\ unsent \in Seq(Unit) /\ buffer \in Seq(Unit)
  /\ spoken \in {"unknown", "length", "line"}
  /\ misread \in Nat
  /\ answers \in [Request -> 0..1]
  /\ lost \subseteq Request
  /\ restarts \in 0..MaxRestarts

ServerInit ==
  /\ unsent = Stream /\ buffer = <<>> /\ spoken = "unknown" /\ misread = 0 /\ restarts = 0
  /\ answers = [q \in Request |-> 0]
  /\ lost = {}

-----------------------------------------------------------------------------
\* The body of one request and nothing else parses.
Parsed(body) == {q \in Request : body = Content(q)}

Wait(b)       == [parsed |-> FALSE, rest |-> b, out |-> <<>>]
Skip(b)       == [parsed |-> TRUE, rest |-> b, out |-> <<>>]
Message(x, b) == [parsed |-> TRUE, rest |-> b,
                  out |-> <<IF Parsed(x) # {} THEN CHOOSE q \in Parsed(x) : TRUE ELSE Bad>>]

HasHeader(b) == Len(b) > 1 /\ b[1][2] = "head" /\ b[2][2] = "rest"

\* As many characters as the header says there are bytes.
TakeLength(b) ==
  LET end == 2 + Body[b[1][1]].bytes
  IN  IF Len(b) < end THEN Wait(b) ELSE Message(SubSeq(b, 3, end), SubSeq(b, end + 1, Len(b)))

\* Up to the first newline, which a header has, too; an empty line is skipped.
TakeLine(b) ==
  LET ends == {i \in DOMAIN b : b[i][2] \in {"newline", "rest"}}
      end  == CHOOSE i \in ends : \A j \in ends : i <= j
  IN  IF ends = {} THEN Wait(b)
      ELSE IF end = 1 /\ b[1][2] = "newline" THEN Skip(Tail(b))
      ELSE Message(IF b[end][2] = "newline" THEN SubSeq(b, 1, end - 1) ELSE SubSeq(b, 1, end),
                   SubSeq(b, end + 1, Len(b)))

Take(b) == IF HasHeader(b) THEN TakeLength(b) ELSE TakeLine(b)

\* MUTANT: one message is taken per chunk.
DrainOne(b) == LET t == Take(b) IN [rest |-> t.rest, out |-> t.out]

\* One more message, if there is a whole one.
TakeOne(c) ==
  IF c.rest = <<>> \/ ~ Take(c.rest).parsed THEN c
  ELSE [rest |-> Take(c.rest).rest, out |-> c.out \o Take(c.rest).out]

\* handleData: messages are taken while there is a whole one.  There are no more of
\* them than units.
Drains(b, n) ==
  LET drain[i \in 0..n] == IF i = 0 THEN [rest |-> b, out |-> <<>>] ELSE TakeOne(drain[i - 1])
  IN  drain

Drain(b) == Drains(b, Len(b))[Len(b)]

\* The next n units of the stream, and what the server reads once they have come.
Chunk(n) == SubSeq(unsent, 1, n)
Read(n)  == Drain(buffer \o Chunk(n))

\* The requests among what was read, which are dispatched.
Dispatched(read) == Request \cap ToSet(read.out)

\* A chunk arrives.  A notification has no answer, and a method that needs no store
\* is answered at once.
Data(n, read, atOnce) ==
  LET answer == {q \in Dispatched(read) \cap atOnce : Body[q].id}
      errors == {i \in DOMAIN read.out : read.out[i] = Bad}
  IN  /\ unsent' = SubSeq(unsent, n + 1, Len(unsent))
      /\ buffer' = read.rest
      /\ spoken' = IF spoken # "unknown" THEN spoken
                   ELSE IF HasHeader(buffer \o Chunk(n)) THEN "length" ELSE "line"
      /\ misread' = misread + Cardinality(errors)
      /\ answers' = [q \in Request |-> IF q \in answer THEN answers[q] + 1 ELSE answers[q]]
      /\ UNCHANGED <<lost, restarts>>

\* writeResponse.
Reply(q) ==
  /\ answers' = [answers EXCEPT ![q] = @ + 1]
  /\ UNCHANGED <<unsent, buffer, spoken, misread, lost, restarts>>

\* The process ends, and the client starts another, which is written the next request:
\* the rest of one that was cut off is not.
Restart(pending) ==
  /\ restarts < MaxRestarts /\ restarts' = restarts + 1
  /\ LET cut == {i \in DOMAIN unsent : unsent[i][1] \in Half}
     IN  unsent' = SubSeq(unsent, Cardinality(cut) + 1, Len(unsent))
  /\ buffer' = <<>> /\ spoken' = "unknown"
  /\ lost' = lost \cup Half \cup pending
  /\ UNCHANGED <<misread, answers>>
=============================================================================
