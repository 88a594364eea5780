------------------------- MODULE CoordinationProofs -------------------------
(***************************************************************************)
(* Proofs about Coordination, for every number of agents, calls, messages  *)
(* and every trust between them.                                           *)
(*                                                                         *)
(* AssigneeIsLatest is not inductive by itself: an agent's own accept is   *)
(* stamped with the clock, so it must be known that nothing logged or in   *)
(* flight is younger than the clock; and what a call holds in its hand is  *)
(* as sound as what is on disk, since it will be.                          *)
(***************************************************************************)
EXTENDS Coordination, TLAPS

\* Every accept of another agent in record r of agent a is in w, what was sent.
AcceptsSent(w, a, r) ==
  \A e \in Accepts(r) :
    e.from # a => \E m \in w : /\ m.kind = "coordination" /\ m.intent = "accept"
                               /\ m.from = e.from /\ m.to = a /\ m.at = e.at

\* Every result in record r of agent a was sent, and answers a delegation in r.
ResultsAnswer(w, a, r) ==
  \A x \in r.importedResults :
    /\ <<x[2], x[1]>> \in r.delegations
    /\ \E m \in w : m.kind = "mission_result" /\ m.from = x[1] /\ m.to = a /\ m.req = x[2]

\* A record that agent a may hold when the clock shows t and w was sent.
Sound(t, w, a, r) ==
  /\ (r.assignee = NoAgent) = (Accepts(r) = {})
  /\ (r.assignee = NoAgent) = (r.at = 0)
  /\ \A e \in Accepts(r) : e.at <= r.at
  /\ r.assignee # NoAgent => [intent |-> "accept", from |-> r.assignee, at |-> r.at] \in r.log
  /\ \A e \in r.log : e.at <= t
  /\ AcceptsSent(w, a, r)
  /\ ResultsAnswer(w, a, r)

Underway(p) == call[p].pc \in {"consent", "open", "write"}

CoordInv ==
  /\ TypeOK
  /\ \A m \in Sent : m.at <= now
  /\ \A a \in Agent, i \in Id : missions[a][i].there => Sound(now, net, a, missions[a][i])
  /\ \A p \in Proc : Underway(p) => Sound(now, net, Home[p], call[p].rec)
  /\ \A p \in Proc : call[p].pc = "consent" => \A m \in call[p].out : m.from = Home[p]

-----------------------------------------------------------------------------
(* What the calls make of a record keeps it sound.                         *)

\* A sound record stays sound as time passes and messages are sent.
LEMMA SoundLater ==
  ASSUME NEW t \in Time, NEW u \in Time, t <= u, NEW w, NEW x, w \subseteq x,
         NEW a \in Agent, NEW r \in Mission, Sound(t, w, a, r)
  PROVE  Sound(u, x, a, r)
<1> USE CoordinationAssumption DEF Sound, AcceptsSent, ResultsAnswer, Accepts, Mission, Entry, Time
<1>1. \A e \in r.log : e.at <= u
  OBVIOUS
<1> QED BY <1>1

LEMMA SeedSound ==
  ASSUME NEW t, NEW w, NEW a
  PROVE  Seed \in Mission /\ Sound(t, w, a, Seed)
BY CoordinationAssumption DEF Seed, Mission, Sound, AcceptsSent, ResultsAnswer, Accepts

LEMMA OutgoingSound ==
  ASSUME NEW t \in Time, NEW w, NEW a \in Agent, NEW r \in Mission, Sound(t, w, a, r),
         NEW m \in Message, m.from = a, m.at = t
  PROVE  Outgoing(r, m) \in Mission /\ Sound(t, w, a, Outgoing(r, m))
<1> DEFINE e == [intent |-> m.intent, from |-> m.from, at |-> m.at]
           d == IF m.req = NoReq THEN {} ELSE {<<m.req, m.to>>}
           l == [r EXCEPT !.log = @ \cup {e}, !.delegations = @ \cup d]
           o == Outgoing(r, m)
<1>1. e \in Entry
  BY DEF Entry, Message
<1>2. /\ o \in Mission
      /\ o.log = r.log \cup {e}
      /\ o.importedResults = r.importedResults
      /\ r.delegations \subseteq o.delegations
      /\ IF m.intent = "accept" THEN o.assignee = m.from /\ o.at = m.at
                                ELSE o.assignee = r.assignee /\ o.at = r.at
  <2>1. /\ l \in Mission /\ l.log = r.log \cup {e} /\ l.importedResults = r.importedResults
        /\ r.delegations \subseteq l.delegations /\ l.assignee = r.assignee /\ l.at = r.at
    <3>1. d \subseteq Req \X Agent
      BY DEF Message
    <3> HIDE DEF d, e
    <3> QED BY <1>1, <3>1 DEF Mission
  <2>2. o = IF m.intent = "accept" THEN [l EXCEPT !.assignee = m.from, !.at = m.at] ELSE l
    BY DEF Outgoing
  <2>3. m.from \in Agent /\ m.at \in 0..MaxTime
    BY CoordinationAssumption DEF Message, Time
  <2> HIDE DEF l, o, e, d
  <2> QED BY <2>1, <2>2, <2>3 DEF Mission
<1>3. Accepts(o) = IF m.intent = "accept" THEN Accepts(r) \cup {e} ELSE Accepts(r)
  BY <1>2 DEF Accepts
<1> HIDE DEF o
<1>4. \A f \in r.log : f \in Entry /\ f.at <= t
  BY DEF Sound, Mission
<1>5. t \in Nat /\ t # 0 /\ a # NoAgent
  BY CoordinationAssumption DEF Time
<1>6. AcceptsSent(w, a, o)
  BY <1>3 DEF Sound, AcceptsSent
<1>7. ResultsAnswer(w, a, o)
  BY <1>2 DEF Sound, ResultsAnswer
<1>8. \A f \in o.log : f.at <= t
  BY <1>2, <1>4, <1>5
<1>9. Sound(t, w, a, o)
  <2>1. CASE m.intent = "accept"
    <3>1. \A f \in Accepts(o) : f.at <= o.at
      BY <1>2, <1>3, <1>4, <1>5, <2>1 DEF Accepts, Entry, Time
    <3> QED BY <1>2, <1>3, <1>5, <1>6, <1>7, <1>8, <2>1, <3>1 DEF Sound
  <2>2. CASE m.intent # "accept"
    BY <1>2, <1>3, <1>6, <1>7, <1>8, <2>2 DEF Sound
  <2> QED BY <2>1, <2>2
<1> QED BY <1>2, <1>9 DEF o

LEMMA IncomingSound ==
  ASSUME NEW t \in Time, NEW w, NEW a \in Agent, NEW r \in Mission, Sound(t, w, a, r),
         NEW m \in Message, m \in w, m.kind = "coordination", m.to = a, m.at <= t
  PROVE  Incoming(r, m) \in Mission /\ Sound(t, w, a, Incoming(r, m))
<1> DEFINE e == [intent |-> m.intent, from |-> m.from, at |-> m.at]
           d == IF m.req = NoReq THEN {} ELSE {<<m.from, m.req>>}
           l == [r EXCEPT !.log = @ \cup {e},
                          !.importedDelegations = @ \cup d]
           o == Incoming(r, m)
<1>1. CASE Logged(r, m)
  BY <1>1 DEF Incoming
<1>2. CASE ~Logged(r, m)
  <2>1. e \in Entry
    BY DEF Entry, Message
  <2>2. /\ o \in Mission
        /\ o.log = r.log \cup {e}
        /\ o.importedResults = r.importedResults
        /\ r.delegations \subseteq o.delegations
        /\ IF Wins(r, m) THEN o.assignee = m.from /\ o.at = m.at
                         ELSE o.assignee = r.assignee /\ o.at = r.at
    <3>1. /\ l \in Mission /\ l.log = r.log \cup {e} /\ l.importedResults = r.importedResults
          /\ l.delegations = r.delegations /\ l.assignee = r.assignee /\ l.at = r.at
      <4>1. d \subseteq Agent \X Req
        BY DEF Message
      <4> HIDE DEF d, e
      <4> QED BY <2>1, <4>1 DEF Mission
    <3>2. o = IF Wins(r, m) THEN [l EXCEPT !.assignee = m.from, !.at = m.at] ELSE l
      BY <1>2 DEF Incoming
    <3>3. m.from \in Agent /\ m.at \in 0..MaxTime
      BY CoordinationAssumption DEF Message, Time
    <3> HIDE DEF l, o, e, d
    <3> QED BY <3>1, <3>2, <3>3 DEF Mission
  <2>3. Accepts(o) = IF m.intent = "accept" THEN Accepts(r) \cup {e} ELSE Accepts(r)
    BY <2>2 DEF Accepts
  <2> HIDE DEF o
  <2>4. \A f \in r.log : f \in Entry /\ f.at \in Nat /\ f.at <= t
    BY CoordinationAssumption DEF Sound, Mission, Entry, Time
  <2>5. /\ m.at \in Nat /\ m.at # 0 /\ m.from # NoAgent /\ r.at \in Nat /\ m.from \in Agent
    BY CoordinationAssumption DEF Message, Time, Mission
  <2>6. \A f \in o.log : f.at <= t
    BY <2>2, <2>4
  <2>7. AcceptsSent(w, a, o)
    BY <2>3 DEF Sound, AcceptsSent
  <2>8. Accepts(r) \subseteq r.log
    BY DEF Accepts
  <2>12. ResultsAnswer(w, a, o)
    BY <2>2 DEF Sound, ResultsAnswer
  <2>9. ASSUME Wins(r, m) PROVE Sound(t, w, a, o)
    <3>1. \A f \in Accepts(o) : f.at <= o.at
      BY <2>2, <2>3, <2>4, <2>5, <2>8, <2>9 DEF Sound, Wins
    <3>2. m.intent = "accept" /\ o.assignee = m.from /\ o.at = m.at /\ o.assignee # NoAgent
      BY <2>2, <2>5, <2>9 DEF Wins
    <3>3. Accepts(o) # {} /\ o.at # 0
      BY <2>3, <2>5, <3>2
    <3>4. [intent |-> "accept", from |-> o.assignee, at |-> o.at] \in o.log
      BY <2>2, <3>2
    <3> QED BY <2>6, <2>7, <2>12, <3>1, <3>2, <3>3, <3>4 DEF Sound
  <2>10. ASSUME ~Wins(r, m), m.intent = "accept" PROVE Sound(t, w, a, o)
    <3>1. r.at # 0 /\ m.at <= r.at
      BY <2>5, <2>10 DEF Wins
    <3>2. \A f \in Accepts(o) : f.at <= o.at
      BY <2>2, <2>3, <2>10, <3>1 DEF Sound
    <3>3. o.assignee = r.assignee /\ o.at = r.at /\ r.log \subseteq o.log
      BY <2>2, <2>10
    <3>4. Accepts(o) # {} /\ o.assignee # NoAgent /\ o.at # 0
      BY <2>3, <2>10, <3>1, <3>3 DEF Sound
    <3>5. [intent |-> "accept", from |-> o.assignee, at |-> o.at] \in o.log
      BY <3>3, <3>4 DEF Sound
    <3> QED BY <2>6, <2>7, <2>12, <3>2, <3>4, <3>5 DEF Sound
  <2>11. ASSUME ~Wins(r, m), m.intent # "accept" PROVE Sound(t, w, a, o)
    <3>1. o.assignee = r.assignee /\ o.at = r.at /\ r.log \subseteq o.log /\ Accepts(o) = Accepts(r)
      BY <2>2, <2>3, <2>11
    <3> QED BY <2>6, <2>7, <2>12, <3>1 DEF Sound
  <2> QED BY <2>2, <2>9, <2>10, <2>11 DEF o
<1> QED BY <1>1, <1>2

LEMMA ResultSound ==
  ASSUME NEW t, NEW w, NEW a \in Agent, NEW r \in Mission, Sound(t, w, a, r),
         NEW q \in Req
  PROVE  LET o == [r EXCEPT !.results = @ \cup {q}]
         IN  o \in Mission /\ Sound(t, w, a, o)
BY DEF Mission, Sound, AcceptsSent, ResultsAnswer, Accepts

LEMMA ImportedResultSound ==
  ASSUME NEW t, NEW w, NEW a \in Agent, NEW r \in Mission, Sound(t, w, a, r),
         NEW m \in Message, m \in w, m.kind = "mission_result", m.to = a, Answers(r, m)
  PROVE  LET o == [r EXCEPT !.importedResults = @ \cup {<<m.from, m.req>>}]
         IN  o \in Mission /\ Sound(t, w, a, o)
<1> DEFINE o == [r EXCEPT !.importedResults = @ \cup {<<m.from, m.req>>}]
<1>1. m.req \in Req /\ m.from \in Agent
  BY DEF Answers, Mission, Message
<1>2. /\ o \in Mission /\ o.log = r.log /\ o.assignee = r.assignee /\ o.at = r.at
      /\ o.delegations = r.delegations
      /\ o.importedResults = r.importedResults \cup {<<m.from, m.req>>}
  BY <1>1 DEF Mission
<1> HIDE DEF o
<1>3. Accepts(o) = Accepts(r)
  BY <1>2 DEF Accepts
<1>4. Sound(t, w, a, o)
  BY <1>2, <1>3 DEF Sound, AcceptsSent, ResultsAnswer, Answers
<1> QED BY <1>2, <1>4 DEF o

-----------------------------------------------------------------------------
(* The steps                                                               *)

LEMMA InitInv == Init => CoordInv
<1> SUFFICES ASSUME Init PROVE CoordInv
  OBVIOUS
<1>1. Seed \in Mission /\ NoMission \in Mission /\ ~NoMission.there
  <2>1. Seed \in Mission
    BY SeedSound
  <2> QED BY <2>1 DEF NoMission, Mission
<1>2. \A a \in Agent : missions[a] \in [Id -> {Seed, NoMission}]
  BY DEF Init
<1>3. TypeOK
  <2>1. now \in Time
    BY CoordinationAssumption DEF Init, Time
  <2>2. call \in [Proc -> [pc : {"idle", "consent", "open", "write", "dead"}, id : Id \cup {NoId},
                           rec : Mission, out : SUBSET Message]]
    BY <1>1 DEF Init, NoCall
  <2>3. missions \in [Agent -> [Id -> Mission]]
    BY <1>1 DEF Init
  <2> QED BY <2>1, <2>2, <2>3 DEF TypeOK, Init
<1>4. Sent = {}
  BY DEF Init, Sent, NoCall
<1>5. \A a \in Agent, i \in Id : missions[a][i].there => Sound(now, net, a, missions[a][i])
  BY <1>1, <1>2, SeedSound
<1>6. \A p \in Proc : ~Underway(p) /\ call[p].pc # "consent"
  BY DEF Init, NoCall, Underway
<1> QED BY <1>3, <1>4, <1>5, <1>6 DEF CoordInv

\* A call that begins with a sound record in hand, and with messages of this agent
\* that are no younger than the clock.
LEMMA BeginInv ==
  ASSUME CoordInv, NEW p \in Proc, NEW pc \in {"consent", "open"}, NEW i \in Id,
         NEW rec \in Mission, NEW out \in SUBSET Message, \A m \in out : m.at <= now,
         \A m \in out : m.from = Home[p],
         Sound(now, net, Home[p], rec), Begin(p, pc, i, rec, out)
  PROVE  CoordInv'
<1> DEFINE c == [pc |-> pc, id |-> i, rec |-> rec, out |-> out]
<1>1. call' = [call EXCEPT ![p] = c] /\ UNCHANGED <<missions, net, now>>
  BY DEF Begin, Do
<1>2. call \in [Proc -> [pc : {"idle", "consent", "open", "write", "dead"}, id : Id \cup {NoId},
                         rec : Mission, out : SUBSET Message]]
  BY DEF CoordInv, TypeOK
<1>3. call'[p] = c /\ \A q \in Proc : q # p => call'[q] = call[q]
  BY <1>1, <1>2
<1>4. TypeOK'
  BY <1>1, <1>2 DEF CoordInv, TypeOK
<1>5. \A m \in Sent' : m \in Sent \/ m \in out
  BY <1>1, <1>3 DEF Sent
<1>6. \A m \in Sent' : m.at <= now'
  BY <1>1, <1>5 DEF CoordInv
<1>7. \A q \in Proc : Underway(q)' => Sound(now', net', Home[q], call'[q].rec)
  BY <1>1, <1>3 DEF CoordInv, Underway
<1>8. \A q \in Proc : call'[q].pc = "consent" => \A m \in call'[q].out : m.from = Home[q]
  BY <1>3 DEF CoordInv
<1> QED BY <1>1, <1>4, <1>6, <1>7, <1>8 DEF CoordInv

\* A step in which calls only drop what they hold or go on with it, what is written
\* was in some call's hand, and what is sent was about to be sent.
LEMMA GoOnInv ==
  ASSUME CoordInv, TypeOK', now' = now, net \subseteq net', net' \subseteq Sent,
         \A q \in Proc : call'[q].out \subseteq call[q].out,
         \A q \in Proc : Underway(q)' => Underway(q) /\ call'[q].rec = call[q].rec,
         \A q \in Proc : call'[q].pc = "consent" => call[q].pc = "consent",
         \A a \in Agent, i \in Id : missions'[a][i].there =>
           \/ missions'[a][i] = missions[a][i]
           \/ \E q \in Proc : Underway(q) /\ Home[q] = a /\ missions'[a][i] = call[q].rec
  PROVE  CoordInv'
<1>1. now \in Time
  BY DEF CoordInv, TypeOK
<1>2. \A m \in Sent' : m.at <= now'
  BY DEF CoordInv, Sent
<1>3. ASSUME NEW q \in Proc, Underway(q)
      PROVE  Sound(now', net', Home[q], call[q].rec)
  <2>1. Home[q] \in Agent /\ call[q].rec \in Mission
    BY CoordinationAssumption DEF CoordInv, TypeOK
  <2>2. now <= now
    BY <1>1 DEF Time
  <2> QED BY <1>1, <1>3, <2>1, <2>2, SoundLater DEF CoordInv
<1>4. ASSUME NEW a \in Agent, NEW i \in Id, missions[a][i].there
      PROVE  Sound(now', net', a, missions[a][i])
  <2>1. missions[a][i] \in Mission
    BY DEF CoordInv, TypeOK
  <2>2. now <= now
    BY <1>1 DEF Time
  <2> QED BY <1>1, <1>4, <2>1, <2>2, SoundLater DEF CoordInv
<1>5. \A q \in Proc : Underway(q)' => Sound(now', net', Home[q], call'[q].rec)
  BY <1>3
<1>6. \A a \in Agent, i \in Id : missions'[a][i].there => Sound(now', net', a, missions'[a][i])
  BY <1>3, <1>4
<1>7. \A q \in Proc : call'[q].pc = "consent" => \A m \in call'[q].out : m.from = Home[q]
  BY DEF CoordInv
<1> QED BY <1>2, <1>5, <1>6, <1>7 DEF CoordInv

LEMMA PrepareInv ==
  ASSUME CoordInv, NEW p \in Proc, NEW to \in Agent, NEW intent \in AllIntents,
         NEW q \in Req \cup {NoReq}, Prepare(p, to, intent, q)
  PROVE  CoordInv'
<1> DEFINE m == [kind |-> "coordination", from |-> Home[p], to |-> to, intent |-> intent,
                 at |-> now, req |-> q]
<1>1. PICK i \in Missions(Home[p]) : Begin(p, "consent", i, missions[Home[p]][i], {m})
  BY DEF Prepare
<1>2. Home[p] \in Agent /\ i \in Id /\ now \in Time /\ missions[Home[p]][i] \in Mission
  BY CoordinationAssumption DEF CoordInv, TypeOK, Missions
<1>3. m \in Message /\ m.at = now /\ m.from = Home[p] /\ now <= now
  BY <1>2 DEF Message, Time
<1>4. Sound(now, net, Home[p], missions[Home[p]][i])
  BY <1>2 DEF CoordInv, Missions
<1> HIDE DEF m
<1>5. {m} \in SUBSET Message /\ \A n \in {m} : n.at <= now /\ n.from = Home[p]
  BY <1>3
<1> QED BY <1>1, <1>2, <1>4, <1>5, BeginInv

\* The message a call at consent holds is this agent's own, and what it makes of the
\* record it read is sound at the time of the stamp.
LEMMA StampInv ==
  ASSUME CoordInv, NEW p \in Proc, Stamp(p)
  PROVE  CoordInv'
<1>1. PICK m \in call[p].out :
        call' = [call EXCEPT ![p] = [call[p] EXCEPT !.pc = "open",
                   !.rec = Outgoing(call[p].rec, [m EXCEPT !.at = now]),
                   !.out = {[m EXCEPT !.at = now]}]]
  BY DEF Stamp, Do
<1>2. call[p].pc = "consent" /\ UNCHANGED <<missions, net, now>>
  BY DEF Stamp
<1>3. call \in [Proc -> [pc : {"idle", "consent", "open", "write", "dead"}, id : Id \cup {NoId},
                         rec : Mission, out : SUBSET Message]]
  BY DEF CoordInv, TypeOK
<1> DEFINE n == [m EXCEPT !.at = now]
           o == Outgoing(call[p].rec, n)
<1>4. Home[p] \in Agent /\ now \in Time /\ call[p].rec \in Mission /\ m \in Message
  BY <1>3, CoordinationAssumption DEF CoordInv, TypeOK
<1>5. n \in Message /\ n.at = now /\ n.from = m.from /\ now <= now
  BY <1>4 DEF Message, Time
<1>6. m.from = Home[p]
  BY <1>2 DEF CoordInv
<1>7. Sound(now, net, Home[p], call[p].rec)
  BY <1>2 DEF CoordInv, Underway
<1> HIDE DEF n
<1>8. o \in Mission /\ Sound(now, net, Home[p], o)
  BY <1>4, <1>5, <1>6, <1>7, OutgoingSound
<1> HIDE DEF o
<1>9. /\ call'[p] = [call[p] EXCEPT !.pc = "open", !.rec = o, !.out = {n}]
      /\ \A q \in Proc : q # p => call'[q] = call[q]
  BY <1>1, <1>3 DEF n, o
<1> DEFINE Calls == [pc : {"idle", "consent", "open", "write", "dead"}, id : Id \cup {NoId},
                     rec : Mission, out : SUBSET Message]
<1>10. /\ call'[p].pc = "open" /\ call'[p].rec = o /\ call'[p].out = {n}
       /\ call'[p] \in Calls
  <2>1. call[p] \in Calls
    BY <1>3
  <2>2. {n} \in SUBSET Message
    BY <1>5
  <2> DEFINE k == {n}
  <2>3. call'[p] = [call[p] EXCEPT !.pc = "open", !.rec = o, !.out = k]
    BY <1>9
  <2> HIDE DEF k
  <2>4. call'[p].pc = "open" /\ call'[p].rec = o /\ call'[p].out = k
    BY <2>1, <2>3
  <2>5. k \in SUBSET Message
    BY <2>2 DEF k
  <2>6. call'[p] \in Calls
    BY <1>8, <2>1, <2>3, <2>5
  <2> QED BY <2>4, <2>6 DEF k
<1>11. TypeOK'
  <2>1. DOMAIN call' = Proc /\ call' = [q \in Proc |-> call'[q]]
    BY <1>1, <1>3
  <2>2. \A q \in Proc : call'[q] \in Calls
    BY <1>3, <1>9, <1>10
  <2> HIDE DEF Calls
  <2>3. call' \in [Proc -> Calls]
    BY <2>1, <2>2
  <2> USE DEF Calls
  <2> QED BY <1>2, <2>3 DEF CoordInv, TypeOK
<1>12. \A x \in Sent' : x \in Sent \/ x = n
  <2>1. \A q \in Proc : call'[q].out \subseteq call[q].out \cup {n}
    BY <1>9, <1>10
  <2> QED BY <1>2, <2>1 DEF Sent
<1>13. \A x \in Sent' : x.at <= now'
  BY <1>2, <1>5, <1>12 DEF CoordInv
<1>14. \A q \in Proc : Underway(q)' => Sound(now', net', Home[q], call'[q].rec)
  BY <1>2, <1>8, <1>9, <1>10 DEF CoordInv, Underway
<1>15. \A q \in Proc : call'[q].pc = "consent" => \A x \in call'[q].out : x.from = Home[q]
  BY <1>2, <1>9, <1>10 DEF CoordInv
<1> QED BY <1>2, <1>11, <1>13, <1>14, <1>15 DEF CoordInv

LEMMA PrepareResultInv ==
  ASSUME CoordInv, NEW p \in Proc, NEW to \in Agent, NEW q \in Req, PrepareResult(p, to, q)
  PROVE  CoordInv'
<1> DEFINE m == [kind |-> "mission_result", from |-> Home[p], to |-> to,
                 intent |-> "request", at |-> now, req |-> q]
           o(i) == [missions[Home[p]][i] EXCEPT !.results = @ \cup {q}]
<1>1. PICK i \in Missions(Home[p]) : Begin(p, "open", i, o(i), {m})
  BY DEF PrepareResult
<1>2. Home[p] \in Agent /\ i \in Id /\ now \in Time /\ missions[Home[p]][i] \in Mission
  BY CoordinationAssumption DEF CoordInv, TypeOK, Missions
<1>3. m \in Message /\ m.at = now /\ m.from = Home[p] /\ now <= now
  BY <1>2 DEF Message, Time, AllIntents
<1>4. Sound(now, net, Home[p], missions[Home[p]][i])
  BY <1>2 DEF CoordInv, Missions
<1>5. o(i) \in Mission /\ Sound(now, net, Home[p], o(i))
  BY <1>2, <1>4, ResultSound
<1> HIDE DEF m, o
<1>6. {m} \in SUBSET Message /\ \A n \in {m} : n.at <= now /\ n.from = Home[p]
  BY <1>3
<1> QED BY <1>1, <1>2, <1>5, <1>6, BeginInv

LEMMA ImportInv ==
  ASSUME CoordInv, NEW p \in Proc, NEW m \in net, Import(p, m)
  PROVE  CoordInv'
<1>1. Home[p] \in Agent /\ now \in Time /\ m \in Message /\ m.at <= now
  BY CoordinationAssumption DEF CoordInv, TypeOK, Sent
<1>2. m.kind = "coordination" /\ m.to = Home[p]
  BY DEF Import
<1>3. {} \in SUBSET Message /\ \A n \in {} : n.at <= now /\ n.from = Home[p]
  OBVIOUS
<1>4. ASSUME NEW i \in Id, NEW r \in Mission, Sound(now, net, Home[p], r),
             Begin(p, "open", i, Incoming(r, m), {})
      PROVE  CoordInv'
  <2>1. Incoming(r, m) \in Mission /\ Sound(now, net, Home[p], Incoming(r, m))
    BY <1>1, <1>2, <1>4, IncomingSound
  <2> QED BY <1>3, <1>4, <2>1, BeginInv
<1>5. CASE \E i \in Missions(Home[p]) : Begin(p, "open", i, Incoming(missions[Home[p]][i], m), {})
  <2>1. PICK i \in Missions(Home[p]) : Begin(p, "open", i, Incoming(missions[Home[p]][i], m), {})
    BY <1>5
  <2>2. i \in Id /\ missions[Home[p]][i] \in Mission
    BY <1>1 DEF CoordInv, TypeOK, Missions
  <2>3. Sound(now, net, Home[p], missions[Home[p]][i])
    BY <1>1, <2>2 DEF CoordInv, Missions
  <2> QED BY <1>4, <2>1, <2>2, <2>3
<1>6. CASE \E i \in Id : Begin(p, "open", i, Incoming(Seed, m), {})
  <2>1. PICK i \in Id : Begin(p, "open", i, Incoming(Seed, m), {})
    BY <1>6
  <2>2. Seed \in Mission /\ Sound(now, net, Home[p], Seed)
    BY SeedSound
  <2> QED BY <1>4, <2>1, <2>2
<1> QED BY <1>5, <1>6 DEF Import

LEMMA ImportResultInv ==
  ASSUME CoordInv, NEW p \in Proc, NEW m \in net, ImportResult(p, m)
  PROVE  CoordInv'
<1> DEFINE o(i) == [missions[Home[p]][i] EXCEPT !.importedResults = @ \cup {<<m.from, m.req>>}]
<1>1. PICK i \in Missions(Home[p]) : Answers(missions[Home[p]][i], m) /\ Begin(p, "open", i, o(i), {})
  BY DEF ImportResult
<1>2. Home[p] \in Agent /\ i \in Id /\ m \in Message /\ missions[Home[p]][i] \in Mission
  BY CoordinationAssumption DEF CoordInv, TypeOK, Missions
<1>3. m.kind = "mission_result" /\ m.to = Home[p]
  BY DEF ImportResult
<1>4. Sound(now, net, Home[p], missions[Home[p]][i])
  BY <1>2 DEF CoordInv, Missions
<1>5. o(i) \in Mission /\ Sound(now, net, Home[p], o(i))
  BY <1>1, <1>2, <1>3, <1>4, ImportedResultSound
<1> HIDE DEF o
<1>6. {} \in SUBSET Message /\ \A n \in {} : n.at <= now /\ n.from = Home[p]
  OBVIOUS
<1> QED BY <1>1, <1>2, <1>5, <1>6, BeginInv

LEMMA NoMissionThere == NoMission \in Mission /\ ~NoMission.there
<1>1. Seed \in Mission
  BY SeedSound
<1> QED BY <1>1 DEF NoMission, Mission

LEMMA OpenInv ==
  ASSUME CoordInv, NEW p \in Proc, Open(p)
  PROVE  CoordInv'
<1>1. call \in [Proc -> [pc : {"idle", "consent", "open", "write", "dead"}, id : Id \cup {NoId},
                         rec : Mission, out : SUBSET Message]]
  BY DEF CoordInv, TypeOK
<1>2. /\ call[p].pc = "open" /\ call' = [call EXCEPT ![p] = [call[p] EXCEPT !.pc = "write"]]
      /\ missions' = [missions EXCEPT ![Home[p]][call[p].id] = NoMission]
      /\ UNCHANGED <<net, now>>
  BY DEF Open, Do
<1>3. missions' \in [Agent -> [Id -> Mission]]
  BY <1>2, NoMissionThere, CoordinationAssumption DEF CoordInv, TypeOK
<1>4. TypeOK'
  BY <1>1, <1>2, <1>3 DEF CoordInv, TypeOK
<1>5. \A q \in Proc : call'[q].out = call[q].out /\ call'[q].rec = call[q].rec
  BY <1>1, <1>2
<1>6. \A q \in Proc : Underway(q)' => Underway(q)
  BY <1>1, <1>2 DEF Underway
<1>7. \A a \in Agent, i \in Id : missions'[a][i].there => missions'[a][i] = missions[a][i]
  BY <1>2, NoMissionThere DEF CoordInv, TypeOK
<1>8. net \subseteq net' /\ net' \subseteq Sent /\ now' = now
  BY <1>2 DEF Sent
<1>9. \A q \in Proc : call'[q].pc = "consent" => call[q].pc = "consent"
  BY <1>1, <1>2 DEF NoCall
<1> QED BY <1>4, <1>5, <1>6, <1>7, <1>8, <1>9, GoOnInv

LEMMA WriteInv ==
  ASSUME CoordInv, NEW p \in Proc, Write(p)
  PROVE  CoordInv'
<1>1. call \in [Proc -> [pc : {"idle", "consent", "open", "write", "dead"}, id : Id \cup {NoId},
                         rec : Mission, out : SUBSET Message]]
  BY DEF CoordInv, TypeOK
<1>2. /\ call[p].pc = "write" /\ call' = [call EXCEPT ![p] = NoCall]
      /\ missions' = [missions EXCEPT ![Home[p]][call[p].id] = call[p].rec]
      /\ net' = net \cup call[p].out
      /\ UNCHANGED now
  BY DEF Write, Do
<1>3. missions' \in [Agent -> [Id -> Mission]]
  BY <1>1, <1>2, CoordinationAssumption DEF CoordInv, TypeOK
<1>4. TypeOK'
  BY <1>1, <1>2, <1>3, NoMissionThere DEF CoordInv, TypeOK, NoCall
<1>5. \A q \in Proc : call'[q].out \subseteq call[q].out
  BY <1>1, <1>2 DEF NoCall
<1>6. \A q \in Proc : Underway(q)' => Underway(q) /\ call'[q].rec = call[q].rec
  BY <1>1, <1>2 DEF Underway, NoCall
<1>7. ASSUME NEW a \in Agent, NEW i \in Id
      PROVE  \/ missions'[a][i] = missions[a][i]
             \/ Underway(p) /\ Home[p] = a /\ missions'[a][i] = call[p].rec
  BY <1>2 DEF CoordInv, TypeOK, Underway
<1>8. net \subseteq net' /\ net' \subseteq Sent /\ now' = now
  BY <1>2 DEF Sent
<1>9. \A q \in Proc : call'[q].pc = "consent" => call[q].pc = "consent"
  BY <1>1, <1>2 DEF NoCall
<1> QED BY <1>4, <1>5, <1>6, <1>7, <1>8, <1>9, GoOnInv

LEMMA CrashInv ==
  ASSUME CoordInv, NEW p \in Proc, Crash(p)
  PROVE  CoordInv'
<1>1. call \in [Proc -> [pc : {"idle", "consent", "open", "write", "dead"}, id : Id \cup {NoId},
                         rec : Mission, out : SUBSET Message]]
  BY DEF CoordInv, TypeOK
<1>2. /\ Underway(p) /\ call' = [call EXCEPT ![p] = [NoCall EXCEPT !.pc = "dead"]]
      /\ \/ UNCHANGED missions
         \/ missions' = [missions EXCEPT ![Home[p]][call[p].id] = call[p].rec]
      /\ UNCHANGED <<net, now>>
  BY DEF Crash, Do, Underway
<1>3. missions' \in [Agent -> [Id -> Mission]]
  <2>1. missions \in [Agent -> [Id -> Mission]] /\ call[p].rec \in Mission
    BY <1>1 DEF CoordInv, TypeOK
  <2>2. CASE UNCHANGED missions
    BY <2>1, <2>2
  <2>3. CASE missions' = [missions EXCEPT ![Home[p]][call[p].id] = call[p].rec]
    BY <2>1, <2>3
  <2> QED BY <1>2, <2>2, <2>3
<1>4. TypeOK'
  BY <1>1, <1>2, <1>3, NoMissionThere DEF CoordInv, TypeOK, NoCall
<1>5. \A q \in Proc : call'[q].out \subseteq call[q].out
  BY <1>1, <1>2 DEF NoCall
<1>6. \A q \in Proc : Underway(q)' => Underway(q) /\ call'[q].rec = call[q].rec
  BY <1>1, <1>2 DEF Underway, NoCall
<1>7. ASSUME NEW a \in Agent, NEW i \in Id
      PROVE  \/ missions'[a][i] = missions[a][i]
             \/ Underway(p) /\ Home[p] = a /\ missions'[a][i] = call[p].rec
  BY <1>2 DEF CoordInv, TypeOK
<1>8. net \subseteq net' /\ net' \subseteq Sent /\ now' = now
  BY <1>2 DEF Sent
<1>9. \A q \in Proc : call'[q].pc = "consent" => call[q].pc = "consent"
  BY <1>1, <1>2 DEF NoCall
<1> QED BY <1>4, <1>5, <1>6, <1>7, <1>8, <1>9, GoOnInv

LEMMA TickInv ==
  ASSUME CoordInv, Tick
  PROVE  CoordInv'
<1>1. now \in Time /\ now' \in Time /\ now <= now'
  BY CoordinationAssumption DEF CoordInv, TypeOK, Tick, Time
<1>2. UNCHANGED <<missions, net, call>>
  BY DEF Tick
<1>3. TypeOK'
  BY <1>1, <1>2 DEF CoordInv, TypeOK
<1>4. \A m \in Sent' : m.at <= now'
  <2>1. Sent' = Sent /\ Sent \subseteq Message
    BY <1>2 DEF Sent, CoordInv, TypeOK
  <2> QED BY <1>1, <2>1 DEF CoordInv, Message, Time
<1>5. \A a \in Agent, i \in Id : missions[a][i].there => Sound(now', net, a, missions[a][i])
  BY <1>1, SoundLater DEF CoordInv, TypeOK
<1>6. \A p \in Proc : Underway(p) => Sound(now', net, Home[p], call[p].rec)
  <2>1. \A p \in Proc : Home[p] \in Agent /\ call[p].rec \in Mission
    BY CoordinationAssumption DEF CoordInv, TypeOK
  <2> QED BY <1>1, <2>1, SoundLater DEF CoordInv
<1> QED BY <1>2, <1>3, <1>4, <1>5, <1>6 DEF CoordInv, Underway

-----------------------------------------------------------------------------
(* Theorems                                                                *)

\* CoordInv holds whatever the calls of the agents do.
THEOREM Inductive == Spec => []CoordInv
<1>1. ASSUME CoordInv, [Next]_vars
      PROVE  CoordInv'
  <2>1. CASE UNCHANGED vars
    BY <1>1, <2>1 DEF vars, CoordInv, TypeOK, Sent, Underway
  <2>2. ASSUME NEW p \in Proc, NEW to \in Agent, NEW intent \in AllIntents,
               NEW q \in Req \cup {NoReq}, Prepare(p, to, intent, q)
        PROVE  CoordInv'
    BY <1>1, <2>2, PrepareInv
  <2>3. ASSUME NEW p \in Proc, NEW to \in Agent, NEW q \in Req, PrepareResult(p, to, q)
        PROVE  CoordInv'
    BY <1>1, <2>3, PrepareResultInv
  <2>4. ASSUME NEW p \in Proc, NEW m \in net, Import(p, m)
        PROVE  CoordInv'
    BY <1>1, <2>4, ImportInv
  <2>5. ASSUME NEW p \in Proc, NEW m \in net, ImportResult(p, m)
        PROVE  CoordInv'
    BY <1>1, <2>5, ImportResultInv
  <2>6. ASSUME NEW p \in Proc, Open(p)
        PROVE  CoordInv'
    BY <1>1, <2>6, OpenInv
  <2>7. ASSUME NEW p \in Proc, Write(p)
        PROVE  CoordInv'
    BY <1>1, <2>7, WriteInv
  <2>8. ASSUME NEW p \in Proc, Crash(p)
        PROVE  CoordInv'
    BY <1>1, <2>8, CrashInv
  <2>9. CASE Tick
    BY <1>1, <2>9, TickInv
  <2>10. ASSUME NEW p \in Proc, Stamp(p)
         PROVE  CoordInv'
    BY <1>1, <2>10, StampInv
  <2> QED BY <1>1, <2>1, <2>2, <2>3, <2>4, <2>5, <2>6, <2>7, <2>8, <2>9, <2>10 DEF Next
<1> QED BY InitInv, <1>1, PTL DEF Spec

LEMMA RecordsSound ==
  ASSUME CoordInv, NEW a \in Agent, NEW r \in Records(a)
  PROVE  Sound(now, net, a, r)
BY DEF CoordInv, Records, Underway

\* Whatever the order, loss, duplication and overlap of the calls, the assignee in
\* every record is the sender of its latest accept (applyIncomingIntent).
THEOREM LatestAcceptWins == Spec => []AssigneeIsLatest
<1>1. CoordInv => AssigneeIsLatest
  BY RecordsSound DEF AssigneeIsLatest, Sound
<1> QED BY <1>1, Inductive, PTL

\* An agent that another holds for the assignee has told it so: no request and no
\* handoff makes anyone the assignee.
THEOREM NobodyIsAssigned == Spec => []AcceptedByItself
<1>1. ASSUME CoordInv, NEW a \in Agent, NEW r \in Records(a), r.assignee \notin {NoAgent, a}
      PROVE  \E m \in net : /\ m.kind = "coordination" /\ m.intent = "accept"
                            /\ m.from = r.assignee /\ m.to = a /\ m.at = r.at
  <2>1. Sound(now, net, a, r)
    BY <1>1, RecordsSound
  <2> DEFINE e == [intent |-> "accept", from |-> r.assignee, at |-> r.at]
  <2>2. e \in Accepts(r)
    BY <1>1, <2>1 DEF Sound, Accepts
  <2> QED BY <1>1, <2>1, <2>2 DEF Sound, AcceptsSent
<1>2. CoordInv => AcceptedByItself
  BY <1>1 DEF AcceptedByItself
<1> QED BY <1>2, Inductive, PTL

\* A result is kept beside the delegation it answers, and only from the agent the
\* work was given to, even when calls with older records in hand overwrite each
\* other's (importMissionResult).
THEOREM ResultsAreAnswers == Spec => []ResultsMatchDelegations
<1>1. CoordInv => ResultsMatchDelegations
  BY RecordsSound DEF ResultsMatchDelegations, Sound, ResultsAnswer
<1> QED BY <1>1, Inductive, PTL
=============================================================================
