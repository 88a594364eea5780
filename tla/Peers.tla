------------------------------- MODULE Peers -------------------------------
(***************************************************************************)
(* Who a friend record speaks for, and what it may do: onboarding an agent *)
(* peer (agent-peer.ts), connecting one (connect.ts), setting trust        *)
(* (trust-mutation.ts), group context (group-context.ts) and the resolver  *)
(* (resolver.ts), over one friend store and its control-plane audit log.   *)
(*                                                                         *)
(* Every operation reads a record, awaits, and puts the record back whole; *)
(* calls of the host interleave between the two and may be cut short.  The *)
(* store's put is one step here: its claims are the ClaimStore module's.   *)
(***************************************************************************)
EXTENDS AccountRoster, FiniteSets, Sequences

CONSTANTS
  Rec,       \* friend ids
  Existing,  \* [Rec -> the record found at the start]: a file of earlier versions
  AgentId,   \* a2a-agent ids
  HumanId,   \* ids of human friends
  LocalId,   \* local user names
  OwnerId,   \* the ones that name the OS user running the host
  Legacy,    \* [LocalId -> its former user@host id]
  GroupId,   \* group ids, which participants' records hold beside their own
  Level,     \* trust levels callers ask for; 0 when they name none
  Candidate, \* the DIDs whose membership is asked
  Sense,     \* the management senses connect_to is called from
  Crashers,  \* calls that may be cut short
  Op,        \* the operations of this instance
  MaxCalls,  \* bound: calls started
  NoRec,
  NoId

Stranger     == 1
Acquaintance == 2
Friend       == 3
Family       == 4

Ext == AgentId \cup HumanId \cup LocalId \cup {Legacy[x] : x \in LocalId} \cup GroupId

\* A friend record: its external ids, trust, durable DID, whether a DID change has
\* reset it, its legacy delegation grant, and its other authority (a capability
\* profile or an active admission).
Record == [ext : SUBSET Ext, trust : 0..4, did : Did \cup {NoDid},
           reset : BOOLEAN, grant : BOOLEAN, profile : BOOLEAN]

\* A record of its external ids and trust alone; trust 0 is no record.
Newcomer(ext, trust) ==
  [ext |-> ext, trust |-> trust, did |-> NoDid, reset |-> FALSE, grant |-> FALSE, profile |-> FALSE]
Absent == Newcomer({}, 0)

\* Whom an agent's word or the owner's gave authority at which record.
Gift == Rec \X (Did \cup {NoDid}) \X (1..4)

ASSUME PeersAssumption ==
  /\ Existing \in [Rec -> Record]
  /\ \A r \in Rec : Existing[r].trust = 0 => Existing[r] = Absent
  /\ \A r \in Rec : Existing[r].grant => Existing[r].trust = Family
  /\ \A r \in Rec : ~ Existing[r].reset
  /\ OwnerId \subseteq LocalId
  /\ Level \subseteq 0..4
  /\ Candidate \subseteq Did
  /\ MaxCalls \in Nat
  /\ NoRec \notin Rec

VARIABLES
  file,   \* [Rec -> the record in its file]
  call,   \* [Proc -> the call it runs]
  audit,  \* the last line of the control-plane log: <<record, DID, level>>
  calls,  \* how many calls were started
  given   \* history: the levels that were given to a record's DID

vars == <<rosterVars, file, call, audit, calls, given>>

NoCall == [pc |-> "idle", op |-> "none", r |-> NoRec, old |-> Absent, new |-> Absent,
           id |-> NoId, did |-> NoDid, level |-> 0, first |-> FALSE, todo |-> <<>>]

TypeOK ==
  /\ RosterTypeOK
  /\ file \in [Rec -> Record]
  /\ call \in [Proc -> [pc : {"idle", "introduce", "next", "imprint", "roster", "seat", "put", "audit"},
                        op : {"none", "onboard", "connect", "set_trust", "group", "resolve", "touch"},
                        r : Rec \cup {NoRec}, old : Record, new : Record,
                        id : Ext \cup {NoId}, did : Did \cup {NoDid}, level : 0..4,
                        first : BOOLEAN, todo : Seq(HumanId)]]
  /\ audit \in Gift \cup {<<>>}
  /\ calls \in 0..MaxCalls
  /\ given \subseteq Gift

Init ==
  /\ RosterInit
  /\ file = Existing
  /\ call = [p \in Proc |-> NoCall]
  /\ audit = <<>>
  /\ calls = 0
  /\ given = {<<r, Existing[r].did, Existing[r].trust>> : r \in {q \in Rec : Existing[q].trust > 0}}

-----------------------------------------------------------------------------
There(r)   == file[r].trust > 0
Holders(x) == {r \in Rec : x \in file[r].ext}

\* A record id nobody has: randomUUID.
Fresh(r) == ~ There(r) /\ \A q \in Proc : call[q].r # r

Do(p, c) == call' = [call EXCEPT ![p] = c]
End(p)   == Do(p, NoCall)
Idle(p)  == call[p].pc = "idle" /\ check[p].pc = "idle"

\* The call goes on to put the record it has made of the one it read.
Putting(p, op, r, new, id, level) ==
  Do(p, [pc |-> "put", op |-> op, r |-> r, old |-> file[r], new |-> new, id |-> id, did |-> NoDid,
         level |-> level, first |-> FALSE, todo |-> <<>>])

\* The call has read no record yet.
Await(p, pc, op, id, did, level, todo) ==
  Do(p, [pc |-> pc, op |-> op, r |-> NoRec, old |-> Absent, new |-> Absent, id |-> id, did |-> did,
         level |-> level, first |-> FALSE, todo |-> todo])

\* The caller gives the record's DID this level.
Gave(r, new) == given' = given \cup {<<r, new.did, new.trust>>}

-----------------------------------------------------------------------------
(* upsertAgentPeer                                                         *)

Authority(rec) == rec.trust > Stranger \/ rec.profile \/ rec.grant

\* MUTANT: a DID adopted by a record that had none is no change.
DroppedIfNamed(old, d) == old.trust > 0 /\ d # NoDid /\ old.did # NoDid /\ d # old.did

\* A record is somebody else's now: another DID than the stored one, or the first
\* DID for a record that already holds authority.
Dropped(old, d) ==
  /\ old.trust > 0 /\ d # NoDid
  /\ IF old.did # NoDid THEN d # old.did ELSE Authority(old)

\* The stored level wins while a reset is pending, then the level asked for, then the
\* stored one; a new peer is a stranger.
TrustOf(old, level) ==
  IF old.reset THEN old.trust
  ELSE IF level > 0 THEN level
  ELSE IF old.trust > 0 THEN old.trust ELSE Stranger

\* MUTANT: the legacy grant is carried along whatever the level.
KeepGrant(rec) == rec

\* The legacy grant is never carried below family.
DropGrantBelowFamily(rec) == IF rec.trust = Family THEN rec ELSE [rec EXCEPT !.grant = FALSE]

Upserted(old, a, d, level) ==
  LET ext == old.ext \cup {a}
  IN  IF Dropped(old, d)
      THEN [ext |-> ext, trust |-> Stranger, did |-> d, reset |-> TRUE, grant |-> FALSE, profile |-> FALSE]
      ELSE DropGrantBelowFamily([old EXCEPT !.ext = ext, !.did = IF d = NoDid THEN @ ELSE d,
                                            !.trust = TrustOf(old, level)])

\* The record found by the agent id, or a fresh one; two holders make the lookup throw.
Upsert(p, op, a, d, level) ==
  \E r \in Rec :
    /\ Holders(a) = {r} \/ (Holders(a) = {} /\ Fresh(r))
    /\ LET new == Upserted(file[r], a, d, level)
       IN  /\ Putting(p, op, r, new, a, level)
           /\ IF level > 0 /\ ~ Dropped(file[r], d) THEN Gave(r, new) ELSE UNCHANGED given

Onboard(p, a, d, level) ==
  /\ Idle(p)
  /\ Upsert(p, "onboard", a, d, level)
  /\ UNCHANGED <<rosterVars, file, audit>>

-----------------------------------------------------------------------------
(* connectAgents                                                           *)

\* The owner's local sense commits; a closed one for a member of the account; an open
\* or internal one never.
Commits(sense) == sense = "local" \/ (sense = "closed" /\ family # {})

\* The peer is resolved to an agent id: named outright, or the id of a record found by
\* DID or by name, whose coordinates (and DID) are passed on to the upsert.
Connect(p, sense, a, level) ==
  /\ Idle(p) /\ Commits(sense)
  /\ \E d \in IF Holders(a) = {} THEN {NoDid} ELSE {file[r].did : r \in Holders(a)} :
       Await(p, "introduce", "connect", a, d, IF level = 0 THEN Family ELSE level, <<>>)
  /\ UNCHANGED <<rosterVars, file, audit, given>>

Introduce(p) ==
  LET c == call[p]
  IN  /\ c.pc = "introduce"
      /\ \/ Upsert(p, "connect", c.id, c.did, c.level)
         \/ Cardinality(Holders(c.id)) > 1 /\ End(p) /\ UNCHANGED given
      /\ UNCHANGED <<rosterVars, file, audit>>

-----------------------------------------------------------------------------
(* setFriendTrust                                                          *)

\* MUTANT: every set_trust clears the reset.
TrustedClears(old, level) ==
  [old EXCEPT !.trust = level, !.grant = @ /\ level = Family, !.reset = FALSE]

\* A raise clears the reset; a move below family drops the legacy grant.
Trusted(old, level) ==
  [old EXCEPT !.trust = level, !.grant = @ /\ level = Family, !.reset = @ /\ level <= old.trust]

SetTrust(p, r, level) ==
  /\ Idle(p) /\ There(r) /\ level > 0
  /\ LET new == Trusted(file[r], level)
     IN  Putting(p, "set_trust", r, new, NoId, level) /\ Gave(r, new)
  /\ UNCHANGED <<rosterVars, file, audit>>

\* save_note, record_interaction and an import read the record and put it back whole
\* with other fields changed.
Touch(p, r) ==
  /\ Idle(p) /\ There(r)
  /\ Putting(p, "touch", r, file[r], NoId, 0)
  /\ UNCHANGED <<rosterVars, file, audit, given>>

-----------------------------------------------------------------------------
(* upsertGroupContextParticipants                                          *)

\* Each participant once, in the order of the message.
Deduped(s) == Len(s) = Cardinality({s[i] : i \in DOMAIN s})

Group(p, g, people) ==
  /\ Idle(p) /\ Deduped(people)
  /\ Await(p, "next", "group", g, NoDid, 0, people)
  /\ UNCHANGED <<rosterVars, file, audit, given>>

ShouldPromote(rec) == rec.trust = Stranger /\ ~ rec.reset

InGroup(rec, h, g) ==
  IF rec.trust = 0 THEN Newcomer({h, g}, Acquaintance)
  ELSE [rec EXCEPT !.ext = @ \cup {g}, !.trust = IF ShouldPromote(rec) THEN Acquaintance ELSE @]

\* The next participant: a new acquaintance, a stranger promoted, the group id added,
\* or nothing to do.
Participant(p) ==
  LET c == call[p]
      h == Head(c.todo)
  IN  /\ c.pc = "next" /\ c.todo # <<>>
      /\ \/ \E r \in Rec :
              /\ Holders(h) = {r} \/ (Holders(h) = {} /\ Fresh(r))
              /\ LET new == InGroup(file[r], h, c.id)
                     go  == [c EXCEPT !.todo = Tail(@)]
                 IN  IF new = file[r] THEN Do(p, go) /\ UNCHANGED given
                     ELSE /\ Do(p, [go EXCEPT !.pc = "put", !.r = r, !.old = file[r], !.new = new])
                          /\ IF new.trust # file[r].trust THEN Gave(r, new) ELSE UNCHANGED given
         \/ Cardinality(Holders(h)) > 1 /\ End(p) /\ UNCHANGED given
      /\ UNCHANGED <<rosterVars, file, audit>>

GroupDone(p) ==
  /\ call[p].pc = "next" /\ call[p].todo = <<>>
  /\ End(p)
  /\ UNCHANGED <<rosterVars, file, audit, given>>

-----------------------------------------------------------------------------
(* FriendResolver.resolve                                                  *)

\* Nobody holds the id, or the lookup throws because two do.
Resolve(p, x, d) ==
  /\ Idle(p) /\ Cardinality(Holders(x)) # 1
  /\ Await(p, "imprint", "resolve", x, d, 0, <<>>)
  /\ UNCHANGED <<rosterVars, file, audit, given>>

\* A local user's record from before user names stood alone.
Former(x) == IF x \in LocalId THEN Holders(Legacy[x]) ELSE {}

\* It gets the new id.
Migrate(p) ==
  LET c == call[p]
  IN  /\ c.pc = "imprint"
      /\ \E r \in Former(c.id) : Putting(p, "resolve", r, [file[r] EXCEPT !.ext = @ \cup {c.id}], c.id, 0)
      /\ UNCHANGED <<rosterVars, file, audit, given>>

\* hasAnyFriends; then the account roster, if the host has wired one.
Imprint(p) ==
  LET c == call[p]
  IN  /\ c.pc = "imprint" /\ Former(c.id) = {}
      /\ IF c.did # NoDid /\ roster # NoRoster
         THEN FromStore(p, c.did) /\ Do(p, [c EXCEPT !.pc = "roster", !.first = \A r \in Rec : ~ There(r)])
         ELSE Do(p, [c EXCEPT !.pc = "seat", !.first = \A r \in Rec : ~ There(r)]) /\ UNCHANGED rosterVars
      /\ UNCHANGED <<file, audit, given>>

\* The trust of a new record: family for a member of the account, a stranger for any
\* other agent, family for the first friend and for the machine's owner.
SeatTrust(x, first, member) ==
  IF member THEN Family
  ELSE IF x \in AgentId THEN Stranger
  ELSE IF first \/ x \in OwnerId THEN Family ELSE Stranger

Seated(p, member) ==
  LET c   == call[p]
      new == Newcomer({c.id}, SeatTrust(c.id, c.first, member))
  IN  \E r \in Rec :
        /\ Fresh(r)
        /\ Do(p, [c EXCEPT !.pc = "put", !.r = r, !.new = new])
        /\ Gave(r, new)

\* Every path but a plain human's puts the record without a claim: a group handle's,
\* too.
Direct(c) == c.first \/ c.id \in AgentId \cup OwnerId \cup GroupId

Seat(p) ==
  /\ call[p].pc = "seat" /\ Direct(call[p])
  /\ Seated(p, FALSE)
  /\ UNCHANGED <<rosterVars, file, audit>>

\* The verification has passed: the record is seated as family.
SeatMember(p) ==
  /\ call[p].pc = "roster" /\ check[p].pc = "decide" /\ Member(check[p])
  /\ Seated(p, TRUE)
  /\ Decide(p)
  /\ UNCHANGED <<file, audit>>

\* No pin, another key, a bad signature or no member: the default applies.
NoMember(p) ==
  /\ call[p].pc = "roster"
  /\ \/ check[p].pc = "decide" /\ ~ Member(check[p]) /\ Decide(p)
     \/ NotPinned(p) /\ Check(p, NoCheck) /\ UNCHANGED <<roster, pin, family, contested>>
     \/ check[p].pc = "idle" /\ UNCHANGED rosterVars
  /\ Do(p, [call[p] EXCEPT !.pc = "seat"])
  /\ UNCHANGED <<file, audit, given>>

\* A plain human's id is claimed: the store creates one holder or answers with the
\* one there is (ClaimStore).
SeatClaimed(p) ==
  LET c == call[p]
  IN  /\ c.pc = "seat" /\ ~ Direct(c)
      /\ \/ Holders(c.id) # {} /\ UNCHANGED <<file, given>>
         \/ /\ Holders(c.id) = {}
            /\ \E r \in Rec :
                 LET new == Newcomer({c.id}, Stranger)
                 IN  Fresh(r) /\ file' = [file EXCEPT ![r] = new] /\ Gave(r, new)
      /\ End(p)
      /\ UNCHANGED <<rosterVars, audit>>

-----------------------------------------------------------------------------
\* Which calls write the control-plane log: a set_trust, a connect, and an onboard
\* that names a level.
Audited(c) == c.op \in {"set_trust", "connect"} \/ (c.op = "onboard" /\ c.level > 0)

\* The record goes back whole.
Put(p) ==
  LET c == call[p]
  IN  /\ c.pc = "put"
      /\ file' = [file EXCEPT ![c.r] = c.new]
      /\ IF Audited(c) THEN Do(p, [c EXCEPT !.pc = "audit"])
         ELSE IF c.op = "group" THEN Do(p, [c EXCEPT !.pc = "next", !.r = NoRec, !.old = Absent, !.new = Absent])
         ELSE End(p)
      /\ UNCHANGED <<rosterVars, audit, given>>

\* MUTANT: the log says what was asked for.
EntryAsked(c) == <<c.r, c.new.did, c.level>>

\* The level the record holds, which a pending reset may have kept.
Entry(c) == <<c.r, c.new.did, c.new.trust>>

Append2Log(p) ==
  /\ call[p].pc = "audit"
  /\ audit' = Entry(call[p])
  /\ End(p)
  /\ UNCHANGED <<rosterVars, file, given>>

Crash(p) ==
  /\ p \in Crashers /\ ~ Idle(p)
  /\ End(p) /\ StopCheck(p)
  /\ UNCHANGED <<file, audit, given>>

\* A membership check the host runs at explicit onboarding, or the one inside resolve.
CheckStep(p) ==
  /\ \/ ReadPin(p) \/ OpenPin(p) \/ WritePin(p)
     \/ StoredPin(p)
     \/ call[p].pc = "idle" /\ Decide(p)
  /\ UNCHANGED <<file, call, audit, given>>

CallStep(p) ==
  \/ Introduce(p) \/ Participant(p) \/ GroupDone(p)
  \/ Migrate(p) \/ Imprint(p) \/ Seat(p) \/ SeatMember(p) \/ NoMember(p) \/ SeatClaimed(p)
  \/ Put(p) \/ Append2Log(p)

Start(p) ==
  \/ "onboard" \in Op /\ \E a \in AgentId, d \in Did \cup {NoDid}, l \in Level : Onboard(p, a, d, l)
  \/ "connect" \in Op /\ \E s \in Sense, a \in AgentId, l \in Level : Connect(p, s, a, l)
  \/ "set_trust" \in Op /\ \E r \in Rec, l \in Level : SetTrust(p, r, l)
  \/ "touch" \in Op /\ \E r \in Rec : Touch(p, r)
  \/ "group" \in Op /\ \E g \in GroupId, n \in 1..2 : \E s \in [1..n -> HumanId] : Group(p, g, s)
  \/ "resolve" \in Op /\ \E x \in Ext, d \in Candidate \cup {NoDid} : Resolve(p, x, d)
  \/ /\ "roster" \in Op /\ call[p].pc = "idle"
     /\ \E ro \in Roster, k \in Key, d \in Candidate : Present(p, ro, k, d)
     /\ UNCHANGED <<file, call, audit, given>>

Next ==
  \/ \E p \in Proc : calls < MaxCalls /\ Start(p) /\ calls' = calls + 1
  \/ \E p \in Proc : (CallStep(p) \/ CheckStep(p) \/ Crash(p)) /\ UNCHANGED calls
  \/ /\ "roster" \in Op /\ StoreRoster
     /\ UNCHANGED <<file, call, audit, calls, given>>

Spec == Init /\ [][Next]_vars

-----------------------------------------------------------------------------
(* Properties.                                                             *)

\* Authority belongs to a DID.  A record's trust is a level that was given to the
\* very DID the record names; its legacy grant and its other authority are the DID's
\* that had them, the grant at family only; and after a reset there is none.
Sound(r, rec) ==
  /\ rec.trust = 0 => rec = Absent
  /\ rec.trust > Stranger => <<r, rec.did, rec.trust>> \in given
  /\ rec.grant \/ rec.profile => rec.did = Existing[r].did
  /\ rec.grant => rec.trust = Family
  /\ rec.reset => ~ Authority(rec)

\* "A different DID on an existing record is a different peer: authority resets and no
\* caller option can exempt it" (agent-peer.ts:51): whatever overlaps, a record in its
\* file is sound.
AuthorityWasGiven == \A r \in Rec : Sound(r, file[r])

\* The inductive invariant: the records that calls hold are as sound.
CallsSound ==
  \A p \in Proc : LET c == call[p] IN
    c.pc \in {"put", "audit"} =>
      /\ c.r \in Rec /\ Sound(c.r, c.old) /\ Sound(c.r, c.new) /\ c.new.trust > 0

PeersInv == TypeOK /\ CallsSound /\ UnderThePin

\* The control-plane log does not claim more than was given: an entry above stranger
\* names a level its DID was really given at that record.
LogIsTrue == audit # <<>> /\ audit[3] > Stranger => audit \in given

\* Trust rises, and a reset is lifted, only by a call that says so (set_trust; an
\* onboard or connect that names a level, and not over a reset; a group for a stranger
\* without one), or by one that read the record before it was last changed.
Says(c, rec) ==
  \/ c.op = "set_trust" /\ c.level > rec.trust
  \/ c.op \in {"onboard", "connect"} /\ c.level > rec.trust /\ ~ rec.reset
  \/ c.op = "group" /\ c.new.trust = Acquaintance /\ ~ rec.reset

RaisesAreDeliberate ==
  [][\A r \in Rec : There(r) /\ (file'[r].trust > file[r].trust \/ (file[r].reset /\ ~ file'[r].reset))
       => \E p \in Proc : /\ call[p].pc = "put" /\ call[p].r = r
                          /\ Says(call[p], file[r]) \/ call[p].old # file[r]]_vars
=============================================================================
