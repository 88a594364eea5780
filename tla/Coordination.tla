---------------------------- MODULE Coordination ----------------------------
(***************************************************************************)
(* Shared-work coordination (src/coordination.ts, src/mission-result.ts)   *)
(* over the file mission store (src/mission-store-file.ts): agents that    *)
(* share one mission exchange requests, offers, accepts, declines,         *)
(* handoffs and results; each keeps a record of its own.                   *)
(*                                                                         *)
(* Every call reads the whole record, waits, and writes the whole record   *)
(* back; put is a plain writeFile, so the file is empty between its        *)
(* opening and its write.  Calls at one agent interleave, and a process    *)
(* may stop anywhere.  Messages are lost, duplicated and reordered: one    *)
(* that was sent may be imported at any time, any number of times.         *)
(***************************************************************************)
EXTENDS Naturals, FiniteSets

CONSTANTS
  Agent,
  Proc,      \* concurrent calls
  Home,      \* [Proc -> the agent that runs it]
  Id,        \* local mission ids
  Req,       \* delegation request ids
  Intent,    \* the verbs in use
  Trust,     \* [Agent -> [Agent -> its trust in the other]]
  Knows,     \* the agents that have a record of the mission at the start
  Crashers,  \* the calls that may die (each dies at most once)
  MaxTime,   \* bound: the clock
  MaxSent,   \* bound: the messages sent and about to be sent
  NoAgent,
  NoReq,
  NoId

AllIntents == {"request", "offer", "accept", "decline", "handoff"}
TrustLevel == {"stranger", "acquaintance", "friend"}   \* "friend": friend or family

ASSUME CoordinationAssumption ==
  /\ Home \in [Proc -> Agent]
  /\ Intent \subseteq AllIntents
  /\ Trust \in [Agent -> [Agent -> TrustLevel]]
  /\ Knows \subseteq Agent
  /\ MaxTime \in Nat \ {0}
  /\ MaxSent \in Nat
  /\ NoAgent \notin Agent
  /\ NoReq \notin Req
  /\ NoId \notin Id

VARIABLES
  missions,  \* [Agent -> [Id -> its record of the mission, or NoMission]]
  net,       \* the messages sent so far
  now,       \* the clock, in the unit of an ISO timestamp
  call       \* [Proc -> the call it runs]

vars == <<missions, net, now, call>>

Time  == 1..MaxTime
Entry == [intent : AllIntents, from : Agent, at : Time]

\* The parts of a MissionRecord these calls read and write.
Mission ==
  [there : BOOLEAN,
   log : SUBSET Entry,                                  \* coordination.log
   assignee : Agent \cup {NoAgent}, at : 0..MaxTime,    \* assignedAt
   delegations : SUBSET (Req \X Agent),                 \* request id, assignee
   importedDelegations : SUBSET (Agent \X Req),
   results : SUBSET Req,
   importedResults : SUBSET (Agent \X Req)]

Seed ==
  [there |-> TRUE, log |-> {}, assignee |-> NoAgent, at |-> 0, delegations |-> {},
   importedDelegations |-> {}, results |-> {}, importedResults |-> {}]

NoMission == [Seed EXCEPT !.there = FALSE]

Message ==
  [kind : {"coordination", "mission_result"}, from : Agent, to : Agent,
   intent : AllIntents, at : Time, req : Req \cup {NoReq}]

NoCall == [pc |-> "idle", id |-> NoId, rec |-> NoMission, out |-> {}]

TypeOK ==
  /\ missions \in [Agent -> [Id -> Mission]]
  /\ net \subseteq Message
  /\ now \in Time
  /\ call \in [Proc -> [pc : {"idle", "consent", "open", "write", "dead"}, id : Id \cup {NoId},
                        rec : Mission, out : SUBSET Message]]

Init ==
  /\ missions \in [Agent -> [Id -> {Seed, NoMission}]]
  /\ \A a \in Knows : \E i \in Id : missions[a] = [j \in Id |-> IF j = i THEN Seed ELSE NoMission]
  /\ \A a \in Agent \ Knows : missions[a] = [i \in Id |-> NoMission]
  /\ net = {}
  /\ now = 1
  /\ call = [p \in Proc |-> NoCall]

-----------------------------------------------------------------------------
(* What a call makes of the record it read.                                *)

\* MUTANT: a handoff hands the mission over on the spot.
OutgoingHandsOver(r, m) ==
  LET logged == [r EXCEPT !.log = @ \cup {[intent |-> m.intent, from |-> m.from, at |-> m.at]}]
  IN  CASE m.intent = "accept"  -> [logged EXCEPT !.assignee = m.from, !.at = m.at]
        [] m.intent = "handoff" -> [logged EXCEPT !.assignee = m.to, !.at = m.at]
        [] OTHER -> logged

\* applyOutgoingIntent: one log step; an accept claims the mission; a request
\* that carries a task is remembered with the agent it was given to.
Outgoing(r, m) ==
  LET logged == [r EXCEPT
        !.log = @ \cup {[intent |-> m.intent, from |-> m.from, at |-> m.at]},
        !.delegations = @ \cup (IF m.req = NoReq THEN {} ELSE {<<m.req, m.to>>})]
  IN  IF m.intent = "accept" THEN [logged EXCEPT !.assignee = m.from, !.at = m.at] ELSE logged

\* alreadyLogged: the identity of an entry is its intent, sender and time.
Logged(r, m) == [intent |-> m.intent, from |-> m.from, at |-> m.at] \in r.log

\* MUTANT: an older accept takes the mission from a newer holder.
WinsAlways(r, m) == m.intent = "accept"

\* Last writer wins by issuedAt; of two accepts of one instant, the one that
\* arrives later.
Wins(r, m) == m.intent = "accept" /\ (r.at # 0 => m.at >= r.at)

\* applyIncomingIntent: nothing when it is logged already; otherwise one log
\* step, the assignee if it is an accept that wins, the task if it has one.
Incoming(r, m) ==
  LET logged == [r EXCEPT
        !.log = @ \cup {[intent |-> m.intent, from |-> m.from, at |-> m.at]},
        !.importedDelegations = @ \cup (IF m.req = NoReq THEN {} ELSE {<<m.from, m.req>>})]
  IN  IF Logged(r, m) THEN r
      ELSE IF Wins(r, m) THEN [logged EXCEPT !.assignee = m.from, !.at = m.at]
      ELSE logged

\* MUTANT: any delegation of that id will do, whoever it was given to.
AnswersById(r, m) == \E a \in Agent : <<m.req, a>> \in r.delegations

\* A result is taken for a delegation this agent issued, from its assignee.
Answers(r, m) == <<m.req, m.from>> \in r.delegations

-----------------------------------------------------------------------------
(* A call: the first await reads the record; a preparing call then awaits  *)
(* the consent and stamps its message; put opens the file and writes it.   *)

Do(p, c) == call' = [call EXCEPT ![p] = c]

Missions(a) == {i \in Id : missions[a][i].there}

Begin(p, pc, i, rec, out) ==
  /\ Do(p, [pc |-> pc, id |-> i, rec |-> rec, out |-> out])
  /\ UNCHANGED <<missions, net, now>>

\* The messages sent and about to be sent.
Sent == net \cup UNION {call[p].out : p \in Proc}

\* A request id is a fresh random one.
FreshReq(q) ==
  /\ \A m \in Sent : m.req # q
  /\ \A a \in Agent, i \in Id : \A d \in missions[a][i].delegations : d[1] # q

\* prepareCoordination reads the record: the recipient must be a friend or family
\* ("coordinate" under the default policy), a handoff needs the assignment in the
\* record read, and only a request carries a task.
Prepare(p, to, intent, q) ==
  LET a == Home[p]
      m == [kind |-> "coordination", from |-> a, to |-> to, intent |-> intent,
            at |-> now, req |-> q]
  IN  /\ call[p].pc = "idle" /\ intent \in Intent
      /\ to # a /\ Trust[a][to] = "friend"
      /\ Cardinality(Sent) < MaxSent
      /\ q # NoReq => intent = "request" /\ FreshReq(q)
      /\ \E i \in Missions(a) :
           /\ intent = "handoff" => missions[a][i].assignee = a
           /\ Begin(p, "consent", i, missions[a][i], {m})

\* and, when the consent is there, stamps the message and applies it to the record
\* it read.
Stamp(p) ==
  LET c == call[p]
  IN  /\ c.pc = "consent"
      /\ \E m \in c.out :
           LET n == [m EXCEPT !.at = now]
           IN  Do(p, [c EXCEPT !.pc = "open", !.rec = Outgoing(c.rec, n), !.out = {n}])
      /\ UNCHANGED <<missions, net, now>>

\* prepareMissionResult: any request id that was minted, whoever got the task,
\* for a friend or family.
PrepareResult(p, to, q) ==
  LET a == Home[p]
      m == [kind |-> "mission_result", from |-> a, to |-> to, intent |-> "request",
            at |-> now, req |-> q]
  IN  /\ call[p].pc = "idle"
      /\ to # a /\ Trust[a][to] = "friend"
      /\ Cardinality(Sent) < MaxSent
      /\ \E d \in net : d.req = q
      /\ \E i \in Missions(a) :
           Begin(p, "open", i, [missions[a][i] EXCEPT !.results = @ \cup {q}], {m})

\* importCoordination: a stranger is refused; findByMissionKey takes the first
\* record it meets; a friend may introduce a mission that is not there.
Import(p, m) ==
  LET a == Home[p]
  IN  /\ call[p].pc = "idle"
      /\ m.kind = "coordination" /\ m.to = a /\ Trust[a][m.from] # "stranger"
      /\ \/ \E i \in Missions(a) : Begin(p, "open", i, Incoming(missions[a][i], m), {})
         \/ /\ Missions(a) = {} /\ Trust[a][m.from] = "friend"
            /\ \E i \in Id : /\ \A q \in Proc : Home[q] = a => call[q].id # i
                             /\ Begin(p, "open", i, Incoming(Seed, m), {})

\* importMissionResult: never seeds, and lands only for the delegation's assignee.
ImportResult(p, m) ==
  LET a == Home[p]
  IN  /\ call[p].pc = "idle"
      /\ m.kind = "mission_result" /\ m.to = a /\ Trust[a][m.from] # "stranger"
      /\ \E i \in Missions(a) :
           /\ Answers(missions[a][i], m)
           /\ Begin(p, "open", i,
                    [missions[a][i] EXCEPT !.importedResults = @ \cup {<<m.from, m.req>>}], {})

\* writeFile truncates the file, which reads as no mission,
Open(p) ==
  LET c == call[p]
  IN  /\ c.pc = "open"
      /\ missions' = [missions EXCEPT ![Home[p]][c.id] = NoMission]
      /\ Do(p, [c EXCEPT !.pc = "write"])
      /\ UNCHANGED <<net, now>>

\* and writes it; the caller then sends the envelope it gets.
Write(p) ==
  LET c == call[p]
  IN  /\ c.pc = "write"
      /\ missions' = [missions EXCEPT ![Home[p]][c.id] = c.rec]
      /\ net' = net \cup c.out
      /\ Do(p, NoCall)
      /\ UNCHANGED now

\* The process of the call dies: before, in or after the write, always before the
\* send.  The agent's other calls stand for the process started after it.
Crash(p) ==
  /\ p \in Crashers
  /\ call[p].pc \in {"consent", "open", "write"}
  /\ Do(p, [NoCall EXCEPT !.pc = "dead"])
  /\ \/ UNCHANGED missions
     \/ call[p].pc = "write"
        /\ missions' = [missions EXCEPT ![Home[p]][call[p].id] = call[p].rec]
  /\ UNCHANGED <<net, now>>

Tick ==
  /\ now < MaxTime
  /\ now' = now + 1
  /\ UNCHANGED <<missions, net, call>>

Next ==
  \/ \E p \in Proc :
       \/ \E to \in Agent, intent \in AllIntents, q \in Req \cup {NoReq} : Prepare(p, to, intent, q)
       \/ \E to \in Agent, q \in Req : PrepareResult(p, to, q)
       \/ \E m \in net : Import(p, m) \/ ImportResult(p, m)
       \/ Stamp(p) \/ Open(p) \/ Write(p) \/ Crash(p)
  \/ Tick

Spec == Init /\ [][Next]_vars

-----------------------------------------------------------------------------
(* Properties                                                              *)

Accepts(r) == {e \in r.log : e.intent = "accept"}

\* The records of an agent: those on disk and those a call is about to write.
Records(a) ==
  {missions[a][i] : i \in {i \in Id : missions[a][i].there}}
    \cup {call[p].rec : p \in {p \in Proc : Home[p] = a /\ call[p].pc \in {"open", "write"}}}

\* The assignee is the sender of the accept with the latest issuedAt in the log,
\* and there is none exactly when nobody accepted: whatever the order in which
\* accepts arrive, however often, and whichever calls overlap or die
\* (applyOutgoingIntent and applyIncomingIntent write the two together).
AssigneeIsLatest ==
  \A a \in Agent : \A r \in Records(a) :
    /\ (r.assignee = NoAgent) = (Accepts(r) = {})
    /\ \A e \in Accepts(r) : e.at <= r.at
    /\ r.assignee # NoAgent =>
         [intent |-> "accept", from |-> r.assignee, at |-> r.at] \in r.log

\* Nobody is made the assignee: an agent that another takes to hold the mission
\* has sent it an accept of that time.  A handoff never forces an assignment.
AcceptedByItself ==
  \A a \in Agent : \A r \in Records(a) :
    r.assignee \notin {NoAgent, a} =>
      \E m \in net : /\ m.kind = "coordination" /\ m.intent = "accept"
                     /\ m.from = r.assignee /\ m.to = a /\ m.at = r.at

\* A result is kept only for a request this agent gave to its sender, beside the
\* delegation it answers, and the sender did send it; a writer with an older
\* record in hand never leaves a result without its delegation.
ResultsMatchDelegations ==
  \A a \in Agent : \A r \in Records(a) : \A x \in r.importedResults :
    /\ <<x[2], x[1]>> \in r.delegations
    /\ \E m \in net : /\ m.kind = "mission_result" /\ m.from = x[1]
                      /\ m.to = a /\ m.req = x[2]
=============================================================================
