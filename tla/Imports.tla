------------------------------ MODULE Imports ------------------------------
(***************************************************************************)
(* Agents that tell each other what they know.  Each keeps friend records  *)
(* and missions, calls the tools save_note, record_interaction,            *)
(* record_mission, share_profile and share_mission, and has a host that    *)
(* reads the mailbox, imports each message and marks it seen.              *)
(*                                                                         *)
(* A call reads a record, awaits and puts it back whole, so an import and  *)
(* the calls of its agent interleave; the process of an agent may end.     *)
(* An agent knows itself by one id, which is the id it is known by.        *)
(***************************************************************************)
EXTENDS Mailbox, MissionShare, Standing

CONSTANTS
  Op,         \* tool calls, each made at most once; a share's id is that of its message
  Plan,       \* [Op -> the agent that makes the call, the tool and its arguments]
  Plans,      \* the calls of a behaviour, an agent's in the order it makes them
  Origin,     \* [Value -> the agent that made the observation]
  Trust,      \* [Agent -> [Agent -> the trust it holds the other in]]
  Starts,     \* the friend records the agents may start with
  Stray,      \* files that are copies or alterations of a message
  Rec, Mis,   \* bound: ids of friend records and of missions
  MaxTime, MaxCrashes,  \* bounds
  Torn        \* a mission file that is being written

VARIABLES
  friends,   \* [Agent -> [Rec -> a friend record or None]]
  missions,  \* [Agent -> [Mis -> a mission, None or Torn]]
  plan,      \* the calls of this behaviour, in order
  call,      \* [Op -> the call under way]
  outbox,    \* [Op -> the message it has written or None]
  host,      \* [Agent -> its batch, and the import under way]
  seen,      \* [Agent -> the ids in its ledger]
  now,
  crashes,
  raced      \* history: records that were put from an older reading

vars == <<friends, missions, plan, call, outbox, host, seen, now, crashes, raced>>

Kind == {"note", "outcome", "ids", "record", "share_profile", "share_mission"}

ASSUME ImportsAssumption ==
  /\ Plan \in [Op -> [agent : Agent, kind : Kind, to : Agent, scope : STRING, ids : SUBSET Id,
                      key : Key, value : Value, from : Agent \cup {None}, override : BOOLEAN,
                      result : Result, delta : Int, status : {"active", "succeeded"}, shareable : BOOLEAN,
                      rank : Nat]]
  /\ Plans \subseteq Seq(Op) /\ \A p \in Plans : IsInjective(p)
  /\ Origin \in [Value -> Agent]
  /\ \A o \in Op : Plan[o].from = None \/ Plan[o].kind = "record" => Origin[Plan[o].value] = Plan[o].agent
  /\ Trust \in [Agent -> [Agent -> Stranger..Family]]
  /\ Stray \subseteq [of : Op, as : {"copy", "spoof", "misrouted", "broken", "future"}, by : Agent]
  /\ MaxTime \in Nat /\ MaxCrashes \in Nat
  /\ None \notin Rec \cup Mis \cup Op /\ Rec \cap Mis = {}
  /\ None # Torn /\ {None, Torn} \cap MissionRecord = {}
  /\ None \notin FriendRecord \cup Note \cup Told \cup Learning

\* The notes a record starts with are its agent's own.
StartNote(a) == {[value |-> v, shareable |-> s, from |-> None] : v \in {w \in Value : Origin[w] = a}, s \in BOOLEAN}

ASSUME StartsAssumption ==
  \A start \in Starts : start \in [Agent -> [Rec -> FriendRecord \cup {None}]] /\
    \A a \in Agent : \A r \in Rec : start[a][r] # None =>
    /\ start[a][r].imported = NoImported /\ start[a][r].claims = <<>>
    /\ \A k \in Key : start[a][r].notes[k] \in StartNote(a) \cup {None}

Records(a)  == {r \in Rec : friends[a][r] # None}
Held(a)     == [r \in Records(a) |-> friends[a][r]]
Missions(a) == {r \in Mis : missions[a][r] \notin {None, Torn}}

NoCall   == [pc |-> "todo", at |-> None, was |-> None, ok |-> FALSE]
NoImport == [pc |-> "idle", at |-> None, was |-> None, file |-> None]

Init ==
  /\ friends \in Starts
  /\ missions = [a \in Agent |-> [r \in Mis |-> None]]
  /\ plan \in Plans
  /\ call = [o \in Op |-> NoCall]
  /\ outbox = [o \in Op |-> None]
  /\ host = [a \in Agent |-> [batch |-> {}, import |-> NoImport]]
  /\ seen = [a \in Agent |-> {}]
  /\ now = 0 /\ crashes = 0 /\ raced = {}

-----------------------------------------------------------------------------
(* The stores.                                                             *)

\* A put whose record is not the one that was read loses what came between.
Overtaken(a, store, r, was) == IF store[a][r] # was THEN {<<a, r>>} ELSE {}

PutFriend(a, r, was, record) ==
  /\ friends' = [friends EXCEPT ![a][r] = record]
  /\ raced' = raced \cup Overtaken(a, friends, r, was)

\* randomUUID: an id that is free, if there is one left.
Fresh(free) == IF free = {} THEN {} ELSE {CHOOSE r \in free : TRUE}

\* findByMissionKey: any mission that is there, since there is one key; a torn one is not.
Found(a) == IF Missions(a) = {} THEN {<<r, None>> : r \in Fresh({r \in Mis : missions[a][r] = None})}
            ELSE {<<r, missions[a][r]>> : r \in Missions(a)}

\* put: writeFile truncates, and a second mission of the key makes the first uncertain.
OpenMission(a, r, was) ==
  /\ missions' = [missions EXCEPT ![a][r] = Torn]
  /\ raced' = raced \cup Overtaken(a, missions, r, was)
                    \cup {<<a, m>> : m \in {m \in Mis : was = None /\ \E n \in Mis \ {r} : missions[a][n] # None}}

WriteMission(a, r, record) == missions' = [missions EXCEPT ![a][r] = record]

-----------------------------------------------------------------------------
(* Tool calls.                                                             *)

Agt(o)  == Plan[o].agent
Planned == ToSet(plan)
Is(o, kind, pc) == o \in Planned /\ Plan[o].kind = kind /\ call[o].pc = pc
Go(o, c) == call' = [call EXCEPT ![o] = c]

\* An agent makes its calls one after another, beside its host's import.
Turn(o) == \E n \in DOMAIN plan : /\ plan[n] = o
                                   /\ \A m \in 1..(n - 1) : Agt(plan[m]) = Agt(o) => call[plan[m]].pc = "done"

\* A note that repeats what an agent was told says so.
Heard(o, r) == friends[Agt(o)][r].imported[Plan[o].from][Plan[o].key]
CanTell(o, r) == IF Plan[o].from = None THEN TRUE ELSE Heard(o, r) # None
Content(o, record) == IF Plan[o].from = None THEN Plan[o].value ELSE record.imported[Plan[o].from][Plan[o].key].value
Source(o, record)  == IF Plan[o].from = None THEN None ELSE record.imported[Plan[o].from][Plan[o].key].originally

\* get: a call about a friend reads the record.
GetFriend(o, r) ==
  /\ o \in Planned /\ Plan[o].kind \in {"note", "outcome", "ids", "share_profile"}
  /\ call[o].pc = "todo" /\ Turn(o) /\ r \in Records(Agt(o))
  /\ Plan[o].kind = "note" => CanTell(o, r)
  /\ Go(o, [NoCall EXCEPT !.pc = IF Plan[o].kind = "note" /\ OverrideRequired(friends[Agt(o)][r], Plan[o].key, Plan[o].override)
                                 THEN "done" ELSE "read",
                          !.at = r, !.was = friends[Agt(o)][r]])
  /\ UNCHANGED <<friends, missions, plan, outbox, host, seen, now, crashes, raced>>

Put(o, record) ==
  /\ PutFriend(Agt(o), call[o].at, call[o].was, record)
  /\ Go(o, [call[o] EXCEPT !.pc = "done", !.ok = TRUE, !.was = None])
  /\ UNCHANGED <<missions, plan, outbox, host, seen, now, crashes>>

SaveNote(o) ==
  /\ Is(o, "note", "read")
  /\ Put(o, ApplyFriendNote(call[o].was, Plan[o].key, Content(o, call[o].was), Source(o, call[o].was)))

RecordInteraction(o) ==
  /\ Is(o, "outcome", "read")
  /\ Put(o, RecordOutcome(call[o].was, Plan[o].result, Plan[o].from # None, Plan[o].delta))

\* The account ids of a record change: a link, or an unlink.
ChangeIds(o) ==
  /\ Is(o, "ids", "read")
  /\ Put(o, [call[o].was EXCEPT !.ids = Plan[o].ids])

\* findByMissionKey of record_mission, and get of share_mission.
GetMission(o) ==
  /\ o \in Planned /\ call[o].pc = "todo" /\ Turn(o)
  /\ \E f \in Found(Agt(o)) :
       /\ Plan[o].kind = "record" \/ (Plan[o].kind = "share_mission" /\ f[2] # None)
       /\ Go(o, [NoCall EXCEPT !.pc = "read", !.at = f[1], !.was = f[2]])
  /\ UNCHANGED <<friends, missions, plan, outbox, host, seen, now, crashes, raced>>

Recorded(o) == RecordMission(IF call[o].was = None THEN NewMission ELSE call[o].was, 
  [status |-> Plan[o].status, participants |-> {Plan[o].to}, key |-> Plan[o].key, value |-> Plan[o].value,
   shareable |-> Plan[o].shareable], now)

OpenRecorded(o) ==
  /\ Is(o, "record", "read")
  /\ OpenMission(Agt(o), call[o].at, call[o].was)
  /\ Go(o, [call[o] EXCEPT !.pc = "open", !.was = Recorded(o)])
  /\ UNCHANGED <<friends, plan, outbox, host, seen, now, crashes>>

WriteRecorded(o) ==
  /\ Is(o, "record", "open")
  /\ WriteMission(Agt(o), call[o].at, call[o].was)
  /\ Go(o, [call[o] EXCEPT !.pc = "done", !.ok = TRUE, !.was = None])
  /\ UNCHANGED <<friends, plan, outbox, host, seen, now, crashes, raced>>

\* share_profile and share_mission: the envelope is dated after the consent was looked
\* up, and the host writes it to the outbox of the agent.
Envelope(o) ==
  IF Plan[o].kind = "share_profile" THEN ProfileEnvelope(call[o].was, Plan[o].scope, Agt(o))
  ELSE MissionEnvelope(call[o].was, Plan[o].scope, Agt(o))

Send(o) ==
  /\ Is(o, "share_profile", "read") \/ Is(o, "share_mission", "read")
  /\ outbox' = [outbox EXCEPT ![o] = BuildOutgoing(o, Plan[o].rank, Agt(o), Plan[o].to, now, Plan[o].kind, Envelope(o))]
  /\ Go(o, [call[o] EXCEPT !.pc = "done", !.ok = TRUE, !.was = None])
  /\ UNCHANGED <<friends, missions, plan, host, seen, now, crashes, raced>>

-----------------------------------------------------------------------------
(* The host.                                                               *)

Sent(a) == {o \in Op : outbox[o] # None /\ outbox[o].to = a}

\* Copies and alterations of a message, in the outbox it was written to.
Altered(s) ==
  LET f == outbox[s.of]
  IN  CASE s.as = "copy"      -> [f EXCEPT !.copy = TRUE]
        [] s.as = "spoof"     -> [f EXCEPT !.from = s.by]
        [] s.as = "misrouted" -> [f EXCEPT !.to = s.by]
        [] s.as = "broken"    -> [f EXCEPT !.parses = FALSE]
        [] s.as = "future"    -> [f EXCEPT !.version = Supported + 1]

Files == {outbox[o] : o \in {o \in Op : outbox[o] # None}} \cup {Altered(s) : s \in {s \in Stray : outbox[s.of] # None}}

Hosts(a, h) == host' = [host EXCEPT ![a] = h]

\* The host pulls, and readIncoming sorts out what there is.
Poll(a) ==
  /\ host[a].batch = {} /\ host[a].import.pc = "idle"
  /\ LET ready == ReadIncoming(Files, a, seen[a])
     IN  ready # {} /\ Hosts(a, [batch |-> ready, import |-> NoImport])
  /\ UNCHANGED <<friends, missions, plan, call, outbox, seen, now, crashes, raced>>

\* Where an import may land: a record that was found, or a new one if the source may seed.
FriendTargets(a, f) ==
  LET found == ResolveSubject(Held(a), f.env.ids, f.from)
  IN  IF found # {} THEN {<<r, friends[a][r]>> : r \in found}
      ELSE {<<r, None>> : r \in {r \in Fresh(Rec \ Records(a)) : MaySeed(Trust[a][f.from])}}

MissionTargets(a, f) == {t \in Found(a) : t[2] # None \/ MaySeed(Trust[a][f.from])}

Targets(a, f) == IF f.kind = "share_profile" THEN FriendTargets(a, f) ELSE MissionTargets(a, f)

\* There is an id left for a new record.
Room(a, f) ==
  IF f.kind = "share_profile"
  THEN ResolveSubject(Held(a), f.env.ids, f.from) # {} \/ Rec \ Records(a) # {}
  ELSE Found(a) # {}

\* The next message: refused, or the record it is about is read.
StartImport(a) ==
  /\ host[a].import.pc = "idle"
  /\ \E f \in First(host[a].batch) :
       /\ Room(a, f)
       /\ \/ /\ ~ Accepted(Trust[a][f.from]) \/ Targets(a, f) = {}
             /\ Hosts(a, [host[a] EXCEPT !.import = [NoImport EXCEPT !.pc = "imported", !.file = f]])
          \/ /\ Accepted(Trust[a][f.from])
             /\ \E t \in Targets(a, f) :
                  Hosts(a, [host[a] EXCEPT !.import = [pc |-> "read", at |-> t[1], was |-> t[2], file |-> f]])
  /\ UNCHANGED <<friends, missions, plan, call, outbox, seen, now, crashes, raced>>

ImportProfile(a) ==
  LET i == host[a].import
  IN  /\ i.pc = "read" /\ i.file.kind = "share_profile"
      /\ PutFriend(a, i.at, i.was,
           ApplyToRecord(IF i.was = None THEN SeedRecord(i.file.env, i.file.from) ELSE i.was, i.file.env, i.file.from))
      /\ Hosts(a, [host[a] EXCEPT !.import = [i EXCEPT !.pc = "imported", !.was = None]])
      /\ UNCHANGED <<missions, plan, call, outbox, seen, now, crashes>>

OpenImported(a) ==
  LET i == host[a].import
  IN  /\ i.pc = "read" /\ i.file.kind = "share_mission"
      /\ OpenMission(a, i.at, i.was)
      /\ Hosts(a, [host[a] EXCEPT !.import =
           [i EXCEPT !.pc = "open", !.was = ApplyToMission(IF i.was = None THEN NewMission ELSE i.was, i.file.env, i.file.from)]])
      /\ UNCHANGED <<friends, plan, call, outbox, seen, now, crashes>>

WriteImported(a) ==
  LET i == host[a].import
  IN  /\ i.pc = "open"
      /\ WriteMission(a, i.at, i.was)
      /\ Hosts(a, [host[a] EXCEPT !.import = [i EXCEPT !.pc = "imported", !.was = None]])
      /\ UNCHANGED <<friends, plan, call, outbox, seen, now, crashes, raced>>

Marks(a, file, rest) ==
  /\ seen' = [seen EXCEPT ![a] = MarkSeen(@, file.id)]
  /\ Hosts(a, [batch |-> rest, import |-> NoImport])
  /\ UNCHANGED <<friends, missions, plan, call, outbox, now, crashes, raced>>

\* MUTANT: a message is marked before it is imported.
MarkFirst(a) ==
  \/ host[a].import.pc = "imported" /\ Marks(a, host[a].import.file, host[a].batch \ {host[a].import.file})
  \/ /\ host[a].import.pc = "read" /\ ~ IsSeen(seen[a], host[a].import.file.id)
     /\ seen' = [seen EXCEPT ![a] = MarkSeen(@, host[a].import.file.id)]
     /\ UNCHANGED <<friends, missions, plan, call, outbox, host, now, crashes, raced>>

\* The message is marked and the ledger saved.
Mark(a) ==
  /\ host[a].import.pc = "imported"
  /\ Marks(a, host[a].import.file, host[a].batch \ {host[a].import.file})

-----------------------------------------------------------------------------
\* The process ends, with its calls and its batch; a file it was writing is left torn.
Crash(a) ==
  /\ crashes < MaxCrashes /\ crashes' = crashes + 1
  /\ call' = [o \in Op |-> IF Agt(o) = a /\ call[o].pc \in {"read", "open"}
                           THEN [call[o] EXCEPT !.pc = "done", !.was = None] ELSE call[o]]
  /\ host' = [host EXCEPT ![a] = [batch |-> {}, import |-> NoImport]]
  /\ raced' = raced \cup {<<a, r>> : r \in {r \in Mis : missions[a][r] = Torn}}
  /\ UNCHANGED <<friends, missions, plan, outbox, seen, now>>

Tick ==
  /\ now < MaxTime /\ now' = now + 1
  /\ UNCHANGED <<friends, missions, plan, call, outbox, host, seen, crashes, raced>>

CallStep(o) ==
  \/ \E r \in Rec : GetFriend(o, r)
  \/ SaveNote(o) \/ RecordInteraction(o) \/ ChangeIds(o)
  \/ GetMission(o) \/ OpenRecorded(o) \/ WriteRecorded(o)
  \/ Send(o)

HostStep(a) ==
  \/ Poll(a) \/ StartImport(a)
  \/ ImportProfile(a) \/ OpenImported(a) \/ WriteImported(a)
  \/ Mark(a)

Next ==
  \/ \E o \in Op : CallStep(o)
  \/ \E a \in Agent : HostStep(a)
  \/ \E a \in Agent : Crash(a)
  \/ Tick

Spec == Init /\ [][Next]_vars

-----------------------------------------------------------------------------
(* Properties.                                                             *)

Message == UNION {{outbox[o], [outbox[o] EXCEPT !.copy = TRUE]} : o \in {o \in Op : outbox[o] # None}}

TypeOK ==
  /\ friends \in [Agent -> [Rec -> FriendRecord \cup {None}]]
  /\ missions \in [Agent -> [Mis -> MissionRecord \cup {None, Torn}]]
  /\ plan \in Seq(Op)
  /\ call \in [Op -> [pc : {"todo", "read", "open", "done"}, at : Rec \cup Mis \cup {None},
                      was : FriendRecord \cup MissionRecord \cup {None}, ok : BOOLEAN]]
  /\ seen \in [Agent -> SUBSET Op]
  /\ now \in 0..MaxTime /\ crashes \in 0..MaxCrashes
  /\ raced \subseteq Agent \X (Rec \cup Mis)

\* A host works only on messages that were written to it, and on none that its ledger has.
ImportsInv ==
  /\ TypeOK
  /\ \A a \in Agent :
       /\ host[a].batch \subseteq Message
       /\ \A f \in host[a].batch : f.to = a
       /\ host[a].import.pc # "idle" => host[a].import.file \in host[a].batch

\* What the records of an agent say was said by whom they name: a note without a source
\* is the agent's own observation, a note or an import with one goes back to the agent
\* that made the observation, over however many hands it came (README: no laundering),
\* and what is held as a peer's was in a message the peer wrote to this agent.
TrueNotes(a, notes) ==
  \A k \in Key : notes[k] # None => Origin[notes[k].value] = IF notes[k].from = None THEN a ELSE notes[k].from

Said(s, a, k, told) ==
  \E o \in Op : /\ outbox[o] # None /\ Agt(o) = s /\ outbox[o].to = a
                /\ k \in DOMAIN outbox[o].env.notes /\ outbox[o].env.notes[k] = told

TrueImports(a, imported) ==
  \A s \in Agent, k \in Key : imported[s][k] # None =>
    Origin[imported[s][k].value] = imported[s][k].originally /\ Said(s, a, k, imported[s][k])

OriginsAreTrue ==
  \A a \in Agent :
    /\ \A r \in Records(a) : TrueNotes(a, friends[a][r].notes) /\ TrueImports(a, friends[a][r].imported)
    /\ \A r \in Missions(a) : TrueImports(a, missions[a][r].imported)

\* What an agent recorded first-hand is there until it records something else, whatever
\* was imported since: "first-party is inviolable" (README), as long as no put of the
\* record was overtaken.
Kept(a, r) == <<a, r>> \notin raced
Twin(o, p) == p \in Planned /\ Plan[p].kind = Plan[o].kind /\ call[p].ok /\ call[p].at = call[o].at /\ Agt(p) = Agt(o)

NoteStands(o) ==
  LET n == friends[Agt(o)][call[o].at].notes[Plan[o].key]
  IN  n # None /\ \E p \in Op : /\ Twin(o, p) /\ Plan[p].key = Plan[o].key
                                /\ IF Plan[p].from = None THEN n.value = Plan[p].value /\ n.from = None ELSE n.from # None

RecordStands(o) ==
  LET m   == missions[Agt(o)][call[o].at]
      own == {n \in DOMAIN m.outcomes : m.outcomes[n].by = None}
  IN  m # Torn =>
        /\ Plan[o].to \in m.participants
        /\ \E p \in Op : Twin(o, p) /\ Plan[p].status = m.status
        /\ m.learnings[Plan[o].key] # None
        /\ \E n \in own : m.outcomes[n].value = Plan[o].value
        /\ Cardinality(own) = Cardinality({p \in Op : Twin(o, p)})

FirstHandStands ==
  \A o \in Planned : call[o].ok /\ Kept(Agt(o), call[o].at) =>
    /\ Plan[o].kind = "note" => NoteStands(o)
    /\ Plan[o].kind = "record" => RecordStands(o)

\* A message that a friend wrote and the ledger has was imported, and nothing older has
\* replaced it: what it said is there, or what the same peer said later, in spite of
\* crashes, of a replay, and of files that are pulled in any order.
Landed(a, f, told) ==
  \E r \in Records(a) : ~ Kept(a, r) \/
    \E k \in {told}, g \in Message :
      /\ g.from = f.from /\ g.to = a /\ g.kind = f.kind /\ g.at >= f.at
      /\ k \in DOMAIN g.env.notes /\ friends[a][r].imported[f.from][k] = g.env.notes[k]

RowLanded(a, f, row) ==
  \E r \in Mis : missions[a][r] = Torn \/ ~ Kept(a, r) \/
    (missions[a][r] # None /\ \E n \in DOMAIN missions[a][r].outcomes :
       missions[a][r].outcomes[n].by = f.from /\ missions[a][r].outcomes[n].at = row.at)

NothingMissed ==
  \A a \in Agent : \A o \in seen[a] :
    LET f == outbox[o]
    IN  Trust[a][f.from] >= Friend =>
          IF f.kind = "share_profile" THEN \A k \in DOMAIN f.env.notes : Landed(a, f, k)
          ELSE \A n \in DOMAIN f.env.outcomes : RowLanded(a, f, f.env.outcomes[n])

\* Nothing is taken for two: an id is claimed once, an outcome of a moment is held once
\* per peer, and a repeat share finds the record that an earlier one seeded, as long as
\* the peer names the earlier ids again and no more of them than the bound, and no record
\* loses the last id that it is known by (it would look seeded by what peers claim of it,
\* and a share that names fewer ids would seed another).
Named(a, s) == {f \in Message : f.from = s /\ f.to = a /\ f.kind = "share_profile" /\ f.env.ids # {}}
Grows(a, s) == /\ \A f, g \in Named(a, s) : f.env.ids \subseteq g.env.ids \/ g.env.ids \subseteq f.env.ids
               /\ \A f \in Named(a, s) : Cardinality(f.env.ids) <= MaxClaims
Seeded(a, s, i) == {r \in Records(a) : friends[a][r].ids = {} /\ i \in Claims(friends[a][r], s)}

LastIdStays == \A o \in Op : Plan[o].kind = "ids" => Plan[o].ids # {}

NothingTwice ==
  \A a \in Agent :
    /\ \A r \in Records(a) : IsInjective(friends[a][r].claims)
    /\ \A r \in Missions(a) : LET rows == missions[a][r].outcomes IN
         \A m, n \in DOMAIN rows : rows[m].by # None /\ rows[m].by = rows[n].by /\ rows[m].at = rows[n].at => m = n
    /\ \A s \in Agent, i \in Id : Grows(a, s) /\ (\A r \in Records(a) : Kept(a, r)) /\ LastIdStays =>
         Cardinality(Seeded(a, s, i)) <= 1

\* "One peer may hold at most this many unverified id claims on a record" (share.ts:372):
\* it holds more only on a record as the peer's own share has seeded it.
ClaimsBounded ==
  \A a \in Agent, s \in Agent : \A r \in Records(a) :
    LET claimed == Claims(friends[a][r], s)
    IN  Cardinality(claimed) <= MaxClaims \/ \E f \in Message : f.from = s /\ f.to = a /\ f.env.ids = claimed

\* Standing is earned: an agent's standing with another moves only when it records an
\* outcome of its own, never with what it was told or imported (standing.ts: the
\* firewalls), unless a put of the record was overtaken; and recording what another
\* has told moves it only where that takes the familiarity over its threshold.
Crosses(familiarity, delta) ==
  (familiarity >= FamiliarityThreshold) # (familiarity + delta >= FamiliarityThreshold)

StandingIsEarned ==
  [][\A a \in Agent : \A r \in Records(a) :
       AssessStanding(friends'[a][r]) # AssessStanding(friends[a][r]) =>
         \/ <<a, r>> \in raced'
         \/ \E o \in Planned : /\ Plan[o].kind = "outcome" /\ Agt(o) = a
                             /\ call'[o].at = r /\ call'[o].ok /\ ~ call[o].ok
                             /\ (Plan[o].from = None \/ Crosses(friends[a][r].familiarity, Plan[o].delta))]_vars
=============================================================================
