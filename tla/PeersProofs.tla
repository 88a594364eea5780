---------------------------- MODULE PeersProofs ----------------------------
(***************************************************************************)
(* Authority, the audit log and the account's pin, proved for any number   *)
(* of calls, records, DIDs, rosters and keys.                              *)
(*                                                                         *)
(* The invariant has two halves that meet only in the resolver's roster    *)
(* check: the membership checks with their pin (RosterInv), and the        *)
(* records, the calls that hold copies of them and the log (StoreInv).     *)
(***************************************************************************)
EXTENDS Peers, TLAPS

CallType ==
  [pc : {"idle", "introduce", "next", "imprint", "roster", "seat", "put", "audit"},
   op : {"none", "onboard", "connect", "set_trust", "group", "resolve", "touch"},
   r : Rec \cup {NoRec}, old : Record, new : Record,
   id : Ext \cup {NoId}, did : Did \cup {NoDid}, level : 0..4,
   first : BOOLEAN, todo : Seq(HumanId)]

-----------------------------------------------------------------------------
(* The membership checks.                                                  *)

\* A check under way has a roster, a DID and, once it is past the stored pin, a key.
ChecksAreWhole ==
  \A p \in Proc :
    /\ check[p].pc # "idle" => check[p].roster \in Roster /\ check[p].did \in Did
    /\ check[p].pc \in {"pin", "open", "write", "decide"} => check[p].key \in Key

RosterInv == RosterTypeOK /\ ChecksAreWhole /\ UnderThePin

\* What a call may do to the roster's variables.
RosterStep ==
  \/ StoreRoster
  \/ \E p \in Proc :
       \/ ReadPin(p) \/ OpenPin(p) \/ WritePin(p) \/ StoredPin(p) \/ Decide(p) \/ StopCheck(p)
       \/ \E d \in Did : FromStore(p, d)
       \/ \E ro \in Roster, k \in Key, d \in Did : Present(p, ro, k, d)
       \/ Check(p, NoCheck) /\ UNCHANGED <<roster, pin, family, contested>>
  \/ UNCHANGED rosterVars

\* No step on the roster's variables disturbs the checks or the pin.
LEMMA RosterStepInv == RosterInv /\ RosterStep => RosterInv'
  <1> SUFFICES ASSUME RosterInv, RosterStep PROVE RosterInv'
    OBVIOUS
  <1> USE RosterAssumption DEF RosterInv, RosterTypeOK, ChecksAreWhole, UnderThePin, Check, NoCheck
  <1>1. CASE StoreRoster
    BY <1>1 DEF StoreRoster
  <1>2. CASE UNCHANGED rosterVars
    BY <1>2 DEF rosterVars
  <1>3. ASSUME NEW p \in Proc, ReadPin(p) PROVE RosterInv'
    BY <1>3 DEF ReadPin, Matches
  <1>4. ASSUME NEW p \in Proc, OpenPin(p) PROVE RosterInv'
    BY <1>4 DEF OpenPin
  <1>5. ASSUME NEW p \in Proc, WritePin(p) PROVE RosterInv'
    <2>1. /\ check[p].pc = "write" /\ check[p].key \in Key
          /\ pin' = check[p].key
          /\ check' = [check EXCEPT ![p] = [check[p] EXCEPT !.pc = "decide"]]
          /\ contested' = (contested \/ pin # NoKey)
          /\ UNCHANGED <<roster, family>>
      BY <1>5 DEF WritePin
    <2>2. \A f \in family : f[1] \in Key
      OBVIOUS
    <2>3. ASSUME ~ contested' PROVE family = {} /\ \A q \in Proc : check[q].pc # "decide"
      <3>1. ~ contested /\ pin = NoKey
        BY <2>1, <2>3, Zenon
      <3>2. family = {}
        BY <2>2, <3>1
      <3>3. QED
        BY <3>1, <3>2
    <2>4. contested' \in BOOLEAN
      BY <2>1, Zenon
    <2>5. RosterTypeOK' /\ ChecksAreWhole'
      <3>1. check' \in [Proc -> [pc : {"idle", "pinned", "pin", "open", "write", "decide"},
                                 roster : Roster \cup {NoRoster}, key : Key \cup {NoKey},
                                 did : Did \cup {NoDid}]]
        BY <2>1
      <3>2. ChecksAreWhole'
        BY <2>1
      <3>3. QED
        BY <2>1, <2>4, <3>1, <3>2
    <2>6. UnderThePin'
      <3>1. SUFFICES ASSUME ~ contested'
                     PROVE  /\ \A q \in Proc : check'[q].pc = "decide" => check'[q].key = pin'
                            /\ \A f \in family' : f[1] = pin'
        BY Zenon
      <3>2. QED
        BY <2>1, <2>3, <3>1
    <2>7. QED
      BY <2>5, <2>6
  <1>6. ASSUME NEW p \in Proc, StoredPin(p) PROVE RosterInv'
    BY <1>6 DEF StoredPin
  <1>7. ASSUME NEW p \in Proc, Decide(p) PROVE RosterInv'
    <2> DEFINE answer == <<check[p].key, check[p].did>>
    <2>1. /\ check[p].key \in Key /\ check[p].did \in Did
          /\ ~ contested => check[p].key = pin
      BY <1>7 DEF Decide
    <2>2. answer \in Key \X Did /\ answer[1] = check[p].key
      BY <2>1
    <2>3. family' \in {family, family \cup {answer}}
      BY <1>7 DEF Decide
    <2>4. family' \subseteq Key \X Did /\ (~ contested => \A f \in family' : f[1] = pin)
      BY <2>1, <2>2, <2>3
    <2>5. /\ check' = [check EXCEPT ![p] = NoCheck]
          /\ UNCHANGED <<roster, pin, contested>>
      BY <1>7 DEF Decide
    <2> HIDE DEF answer
    <2>6. QED
      BY <2>4, <2>5
  <1>8. ASSUME NEW p \in Proc, StopCheck(p) PROVE RosterInv'
    BY <1>8 DEF StopCheck
  <1>9. ASSUME NEW p \in Proc, NEW d \in Did, FromStore(p, d) PROVE RosterInv'
    BY <1>9 DEF FromStore
  <1>10. ASSUME NEW p \in Proc, NEW ro \in Roster, NEW k \in Key, NEW d \in Did, Present(p, ro, k, d)
         PROVE  RosterInv'
    BY <1>10 DEF Present
  <1>11. ASSUME NEW p \in Proc, Check(p, NoCheck), UNCHANGED <<roster, pin, family, contested>>
         PROVE  RosterInv'
    BY <1>11
  <1>12. QED
    BY <1>1, <1>2, <1>3, <1>4, <1>5, <1>6, <1>7, <1>8, <1>9, <1>10, <1>11 DEF RosterStep

-----------------------------------------------------------------------------
(* Records, the calls that hold them, and the log.                         *)

\* Sound, with g for the levels that were given.
SoundIn(g, r, rec) ==
  /\ rec.trust = 0 => rec = Absent
  /\ rec.trust > Stranger => <<r, rec.did, rec.trust>> \in g
  /\ rec.grant \/ rec.profile => rec.did = Existing[r].did
  /\ rec.grant => rec.trust = Family
  /\ rec.reset => ~ Authority(rec)

\* A change of a record raises trust, or lifts a reset.
Raises(old, new) ==
  old.trust > 0 /\ (new.trust > old.trust \/ (old.reset /\ ~ new.reset))

\* A call about to raise the trust it has read, or to lift a reset, says so.
SaysIt(c) == c.pc = "put" /\ Raises(c.old, c.new) => Says(c, c.old)

\* What holds of a call at each of its awaits.
CallIn(g, c) ==
  /\ c \in CallType
  /\ c.pc = "introduce" => c.op = "connect"
  /\ c.pc = "next" => c.op = "group"
  /\ c.pc \in {"imprint", "roster", "seat"} => c.op = "resolve"
  /\ c.pc \notin {"put", "audit"} => c.old = Absent
  /\ c.op = "connect" => c.id \in AgentId
  /\ c.op = "group" => c.id \in GroupId
  /\ c.op = "resolve" => c.id \in Ext
  /\ c.pc \in {"put", "audit"} =>
       c.r \in Rec /\ SoundIn(g, c.r, c.old) /\ SoundIn(g, c.r, c.new) /\ c.new.trust > 0
  /\ SaysIt(c)

LogIn(g, line) == line = <<>> \/ (line \in Gift /\ (line[3] > Stranger => line \in g))

StoreInv ==
  /\ calls \in 0..MaxCalls
  /\ given \subseteq Gift
  /\ file \in [Rec -> Record]
  /\ \A r \in Rec : SoundIn(given, r, file[r])
  /\ call \in [Proc -> CallType]
  /\ \A p \in Proc : CallIn(given, call[p])
  /\ LogIn(given, audit)

\* What was given stays given: soundness is kept.
LEMMA SoundStays ==
  ASSUME NEW g, NEW h, g \subseteq h, NEW r, NEW rec, SoundIn(g, r, rec)
  PROVE  SoundIn(h, r, rec)
  BY DEF SoundIn

\* ... and so is what a call holds, whatever it is.
LEMMA CallStays ==
  ASSUME NEW g, NEW h, g \subseteq h, NEW c, CallIn(g, c)
  PROVE  CallIn(h, c)
  <1> USE DEF CallIn
  <1>1. c.pc \in {"put", "audit"} => SoundIn(h, c.r, c.old) /\ SoundIn(h, c.r, c.new)
    BY SoundStays
  <1>2. QED
    BY <1>1

\* An idle call holds nothing.
LEMMA IdleCall == \A g : CallIn(g, NoCall)
  <1>1. Absent \in Record /\ <<>> \in Seq(HumanId)
    BY DEF Absent, Newcomer, Record
  <1>2. NoCall \in CallType
    BY <1>1 DEF NoCall, CallType
  <1>3. QED
    BY <1>2 DEF NoCall, CallIn, SaysIt, Raises

\* A step of one call that gives, writes and logs only what is sound.
LEMMA OneCall ==
  ASSUME StoreInv, NEW p \in Proc, NEW c,
         call' = [call EXCEPT ![p] = c], CallIn(given', c),
         given \subseteq given', given' \subseteq Gift,
         calls' \in 0..MaxCalls,
         file' \in [Rec -> Record],
         \A r \in Rec : file'[r] = file[r] \/ SoundIn(given', r, file'[r]),
         audit' = audit \/ LogIn(given', audit')
  PROVE  StoreInv'
  <1> USE DEF StoreInv
  <1>1. \A r \in Rec : SoundIn(given', r, file'[r])
    BY SoundStays
  <1>2. c \in CallType
    BY DEF CallIn
  <1>3. call' \in [Proc -> CallType]
    BY <1>2
  <1>4. ASSUME NEW q \in Proc PROVE CallIn(given', call'[q])
    <2>1. CASE q = p
      BY <2>1
    <2>2. CASE q # p
      BY <2>2, CallStays
    <2>3. QED
      BY <2>1, <2>2
  <1>5. LogIn(given', audit')
    BY DEF LogIn
  <1>6. QED
    BY <1>1, <1>3, <1>4, <1>5

-----------------------------------------------------------------------------
(* What each operation makes of the record it read.                        *)

\* upsertAgentPeer: g holds the levels given before, h those and the one this call
\* gives, if it gives one.
LEMMA UpsertedIsSound ==
  ASSUME NEW r \in Rec, NEW old \in Record, NEW a \in AgentId, NEW d \in Did \cup {NoDid},
         NEW level \in 0..4, NEW g, NEW h, SoundIn(g, r, old), g \subseteq h,
         level > 0 /\ ~ Dropped(old, d) =>
           <<r, Upserted(old, a, d, level).did, Upserted(old, a, d, level).trust>> \in h
  PROVE  LET new == Upserted(old, a, d, level)
         IN  /\ new \in Record /\ new.trust > 0
             /\ SoundIn(h, r, new)
             /\ Raises(old, new) => level > old.trust /\ ~ old.reset
  <1> DEFINE new == Upserted(old, a, d, level)
             ext == old.ext \cup {a}
             kept == [old EXCEPT !.ext = ext, !.did = IF d = NoDid THEN @ ELSE d,
                                 !.trust = TrustOf(old, level)]
  <1> USE DEF Stranger, Acquaintance, Friend, Family
  <1>1. ext \in SUBSET Ext
    BY DEF Record, Ext
  <1>2. CASE Dropped(old, d)
    <2>1. new = [ext |-> ext, trust |-> Stranger, did |-> d, reset |-> TRUE,
                 grant |-> FALSE, profile |-> FALSE]
      BY <1>2 DEF Upserted
    <2>2. new \in Record /\ new.trust = 1
      BY <1>1, <2>1 DEF Record
    <2>3. SoundIn(h, r, new)
      BY <2>1 DEF SoundIn, Authority
    <2>4. ~ Raises(old, new)
      BY <2>1 DEF Raises, Record
    <2>5. QED
      BY <2>2, <2>3, <2>4
  <1>3. CASE ~ Dropped(old, d)
    <2>1. /\ new \in {kept, [kept EXCEPT !.grant = FALSE]}
          /\ kept.trust # Family => ~ new.grant
      BY <1>1, <1>3 DEF Upserted, DropGrantBelowFamily, Record, TrustOf
    <2>2. TrustOf(old, level) \in 1..4
      BY DEF TrustOf, Record, SoundIn, Absent, Newcomer
    <2>3. /\ new \in Record /\ new.trust = TrustOf(old, level)
          /\ new.did = (IF d = NoDid THEN old.did ELSE d)
          /\ new.reset = old.reset /\ new.profile = old.profile
          /\ new.grant => old.grant /\ new.trust = Family
      <3> DEFINE did == IF d = NoDid THEN old.did ELSE d
                 trust == TrustOf(old, level)
      <3>1. did \in Did \cup {NoDid} /\ trust \in 0..4
        BY <2>2 DEF Record
      <3>2. kept = [old EXCEPT !.ext = ext, !.did = did, !.trust = trust]
        OBVIOUS
      <3> HIDE DEF did, trust, ext
      <3>3. /\ kept \in Record /\ kept.trust = trust /\ kept.did = did
            /\ kept.reset = old.reset /\ kept.profile = old.profile /\ kept.grant = old.grant
        BY <1>1, <3>1, <3>2 DEF Record
      <3> HIDE DEF kept, new
      <3>4. CASE new = kept
        BY <2>1, <3>3, <3>4 DEF did, trust
      <3>5. CASE new = [kept EXCEPT !.grant = FALSE]
        BY <3>3, <3>5 DEF did, trust, Record
      <3>6. QED
        BY <2>1, <3>4, <3>5
    <2>4. Authority(old) => new.did = old.did
      BY <1>3, <2>3 DEF Dropped, Authority, SoundIn, Absent, Newcomer, Record
    <2>5. new.grant \/ new.profile => new.did = Existing[r].did
      BY <2>3, <2>4 DEF SoundIn, Authority
    <2>6. old.reset => ~ Authority(new)
      BY <2>3 DEF SoundIn, Authority, TrustOf, Record
    <2>7. new.trust > Stranger => <<r, new.did, new.trust>> \in h
      <3>1. CASE level > 0
        BY <1>3, <3>1
      <3>2. CASE level = 0
        BY <2>3, <2>4, <3>2 DEF TrustOf, Authority, SoundIn, Record
      <3>3. QED
        BY <3>1, <3>2
    <2>8. SoundIn(h, r, new)
      BY <2>2, <2>3, <2>5, <2>6, <2>7 DEF SoundIn
    <2>9. Raises(old, new) => level > old.trust /\ ~ old.reset
      BY <2>3 DEF Raises, TrustOf, Record
    <2>10. QED
      BY <2>2, <2>3, <2>8, <2>9
  <1>4. QED
    BY <1>2, <1>3

\* setFriendTrust.
LEMMA TrustedIsSound ==
  ASSUME NEW r \in Rec, NEW old \in Record, old.trust > 0, NEW level \in 1..4,
         NEW g, NEW h, SoundIn(g, r, old), g \subseteq h,
         <<r, Trusted(old, level).did, Trusted(old, level).trust>> \in h
  PROVE  LET new == Trusted(old, level)
         IN  /\ new \in Record /\ new.trust > 0
             /\ SoundIn(h, r, new)
             /\ Raises(old, new) => level > old.trust
  <1> DEFINE new == Trusted(old, level)
  <1> USE DEF Stranger, Acquaintance, Friend, Family
  <1>1. /\ new \in Record /\ new.trust = level /\ new.did = old.did
        /\ new.profile = old.profile
    <2> DEFINE grant == old.grant /\ level = Family
               reset == old.reset /\ level <= old.trust
    <2>1. grant \in BOOLEAN /\ reset \in BOOLEAN
      OBVIOUS
    <2> DEFINE one == [old EXCEPT !.trust = level]
               two == [one EXCEPT !.grant = grant]
    <2>2. new = [two EXCEPT !.reset = reset]
      BY DEF Trusted
    <2> HIDE DEF grant, reset, new
    <2>3. one \in Record /\ one.trust = level /\ one.did = old.did /\ one.profile = old.profile
      BY DEF Record
    <2> HIDE DEF one
    <2>4. two \in Record /\ two.trust = level /\ two.did = old.did /\ two.profile = old.profile
      BY <2>1, <2>3 DEF Record
    <2> HIDE DEF two
    <2>5. QED
      BY <2>1, <2>2, <2>4 DEF Record
  <1>2. /\ new.grant => old.grant /\ level = Family
        /\ new.reset => old.reset /\ level <= old.trust
        /\ old.reset /\ ~ new.reset => ~ (level <= old.trust)
    BY DEF Trusted, Record
  <1>3. SoundIn(h, r, new)
    BY <1>1, <1>2 DEF SoundIn, Authority, Record
  <1>4. Raises(old, new) => level > old.trust
    BY <1>1, <1>2 DEF Raises, Record
  <1>5. QED
    BY <1>1, <1>3, <1>4

\* upsertGroupContextParticipants.
LEMMA InGroupIsSound ==
  ASSUME NEW r \in Rec, NEW old \in Record, NEW x \in HumanId, NEW y \in GroupId,
         NEW g, NEW h, SoundIn(g, r, old), g \subseteq h,
         InGroup(old, x, y).trust # old.trust =>
           <<r, InGroup(old, x, y).did, InGroup(old, x, y).trust>> \in h
  PROVE  LET new == InGroup(old, x, y)
         IN  /\ new \in Record /\ new.trust > 0
             /\ SoundIn(h, r, new)
             /\ Raises(old, new) => new.trust = Acquaintance /\ ~ old.reset
  <1> DEFINE new == InGroup(old, x, y)
  <1> USE DEF Stranger, Acquaintance, Friend, Family
  <1>1. CASE old.trust = 0
    <2>1. new = [ext |-> {x, y}, trust |-> Acquaintance, did |-> NoDid, reset |-> FALSE,
                 grant |-> FALSE, profile |-> FALSE]
      BY <1>1 DEF InGroup, Absent, Newcomer
    <2>2. new \in Record /\ new.trust = Acquaintance
      BY <2>1 DEF Record, Ext
    <2>3. SoundIn(h, r, new)
      BY <1>1, <2>1 DEF SoundIn, Authority
    <2>4. QED
      BY <1>1, <2>2, <2>3 DEF Raises
  <1>2. CASE old.trust # 0
    <2>1. /\ new \in Record /\ new.did = old.did /\ new.grant = old.grant
          /\ new.profile = old.profile /\ new.reset = old.reset
          /\ new.trust = (IF ShouldPromote(old) THEN Acquaintance ELSE old.trust)
      <3> DEFINE ext == old.ext \cup {y}
                 trust == IF ShouldPromote(old) THEN Acquaintance ELSE old.trust
      <3>1. ext \in SUBSET Ext /\ trust \in 0..4
        BY DEF Record, Ext
      <3>2. new = [old EXCEPT !.ext = ext, !.trust = trust]
        BY <1>2 DEF InGroup
      <3> HIDE DEF ext, trust, new
      <3>3. /\ new \in Record /\ new.did = old.did /\ new.grant = old.grant
            /\ new.profile = old.profile /\ new.reset = old.reset /\ new.trust = trust
        BY <3>1, <3>2 DEF Record
      <3>4. QED
        BY <3>3 DEF trust
    <2>2. ShouldPromote(old) => old.trust = Stranger /\ ~ old.reset
      BY DEF ShouldPromote
    <2>3. SoundIn(h, r, new)
      BY <1>2, <2>1, <2>2 DEF SoundIn, Authority, Record
    <2>4. QED
      BY <1>2, <2>1, <2>2, <2>3 DEF Raises, Record
  <1>3. QED
    BY <1>1, <1>2
-----------------------------------------------------------------------------
(* The calls an operation leaves behind at its awaits.                     *)

\* A call about to put a record, made of a sound one it read.
LEMMA PutCall ==
  ASSUME NEW g, NEW op \in {"onboard", "connect", "set_trust", "touch", "resolve"},
         NEW r \in Rec, NEW old \in Record, NEW new \in Record,
         NEW id \in Ext \cup {NoId}, NEW level \in 0..4,
         SoundIn(g, r, old), SoundIn(g, r, new), new.trust > 0,
         op = "connect" => id \in AgentId,
         op = "resolve" => id \in Ext,
         Raises(old, new) => \/ op = "set_trust" /\ level > old.trust
                             \/ op \in {"onboard", "connect"} /\ level > old.trust /\ ~ old.reset
  PROVE  CallIn(g, [pc |-> "put", op |-> op, r |-> r, old |-> old, new |-> new, id |-> id,
                    did |-> NoDid, level |-> level, first |-> FALSE, todo |-> <<>>])
  <1> DEFINE c == [pc |-> "put", op |-> op, r |-> r, old |-> old, new |-> new, id |-> id,
                   did |-> NoDid, level |-> level, first |-> FALSE, todo |-> <<>>]
  <1>1. c \in CallType
    BY DEF CallType
  <1>2. SaysIt(c)
    BY DEF SaysIt, Says
  <1>3. QED
    BY <1>1, <1>2 DEF CallIn

\* A call that has read no record yet.
LEMMA WaitCall ==
  ASSUME NEW g, NEW id \in Ext, NEW did \in Did \cup {NoDid}, NEW level \in 0..4,
         NEW todo \in Seq(HumanId), NEW pc, NEW op,
         \/ pc = "introduce" /\ op = "connect" /\ id \in AgentId
         \/ pc = "next" /\ op = "group" /\ id \in GroupId
         \/ pc = "imprint" /\ op = "resolve"
  PROVE  CallIn(g, [pc |-> pc, op |-> op, r |-> NoRec, old |-> Absent, new |-> Absent, id |-> id,
                    did |-> did, level |-> level, first |-> FALSE, todo |-> todo])
  <1> DEFINE c == [pc |-> pc, op |-> op, r |-> NoRec, old |-> Absent, new |-> Absent, id |-> id,
                   did |-> did, level |-> level, first |-> FALSE, todo |-> todo]
  <1>1. Absent \in Record
    BY DEF Absent, Newcomer, Record
  <1>2. c \in CallType
    BY <1>1 DEF CallType
  <1>3. QED
    BY <1>2 DEF CallIn, SaysIt

\* A step that gives no level and touches no record: only the call moves on.
LEMMA MoveOn ==
  ASSUME StoreInv, NEW p \in Proc, NEW c, CallIn(given, c), Do(p, c),
         UNCHANGED <<file, audit, given>>, calls' \in 0..MaxCalls
  PROVE  StoreInv'
  BY OneCall DEF StoreInv, Do

\* A step that ends a call, and nothing else.
LEMMA EndIsSound ==
  ASSUME StoreInv, NEW p \in Proc, End(p), UNCHANGED <<file, audit, given>>, calls' \in 0..MaxCalls
  PROVE  StoreInv'
  BY MoveOn, IdleCall DEF End

\* A step of the roster or of a check: no call moves.
LEMMA NoCallMoves ==
  ASSUME StoreInv, UNCHANGED <<file, call, audit, given>>, calls' \in 0..MaxCalls
  PROVE  StoreInv'
  BY DEF StoreInv

\* A level given to a record's DID is a gift.
LEMMA GaveIsGift ==
  ASSUME StoreInv, NEW r \in Rec, NEW new \in Record, new.trust > 0, Gave(r, new)
  PROVE  given \subseteq given' /\ given' \subseteq Gift /\ <<r, new.did, new.trust>> \in given'
  <1>1. <<r, new.did, new.trust>> \in Gift
    BY DEF Gift, Record
  <1>2. QED
    BY <1>1 DEF StoreInv, Gave

-----------------------------------------------------------------------------
(* The operations, action by action.                                       *)

\* upsertAgentPeer up to its put: the peer found, or a fresh record.
LEMMA UpsertStep ==
  ASSUME StoreInv, NEW p \in Proc, NEW op \in {"onboard", "connect"}, NEW a \in AgentId,
         NEW d \in Did \cup {NoDid}, NEW level \in 0..4, Upsert(p, op, a, d, level),
         UNCHANGED <<file, audit>>, calls' \in 0..MaxCalls
  PROVE  StoreInv'
  <1>1. PICK r \in Rec :
          LET new == Upserted(file[r], a, d, level)
          IN  /\ Putting(p, op, r, new, a, level)
              /\ IF level > 0 /\ ~ Dropped(file[r], d) THEN Gave(r, new) ELSE UNCHANGED given
    BY DEF Upsert
  <1> DEFINE old == file[r]
             new == Upserted(old, a, d, level)
             gift == <<r, new.did, new.trust>>
  <1>2. old \in Record /\ SoundIn(given, r, old) /\ given \subseteq Gift
    BY DEF StoreInv
  <1>3. new \in Record /\ new.trust > 0
    <2>1. level > 0 /\ ~ Dropped(old, d) => gift \in given \cup {gift}
      OBVIOUS
    <2> HIDE DEF old, gift
    <2>2. QED
      BY <1>2, <2>1, UpsertedIsSound DEF gift
  <1>4. /\ given \subseteq given' /\ given' \subseteq Gift
        /\ level > 0 /\ ~ Dropped(old, d) => gift \in given'
    <2>1. CASE level > 0 /\ ~ Dropped(old, d)
      BY <1>1, <1>3, <2>1, GaveIsGift
    <2>2. CASE ~ (level > 0 /\ ~ Dropped(old, d))
      BY <1>1, <1>2, <2>2
    <2>3. QED
      BY <2>1, <2>2
  <1> DEFINE c == [pc |-> "put", op |-> op, r |-> r, old |-> old, new |-> new, id |-> a,
                   did |-> NoDid, level |-> level, first |-> FALSE, todo |-> <<>>]
  <1>5. Do(p, c)
    BY <1>1 DEF Putting
  <1> HIDE DEF old
  <1>6. SoundIn(given', r, new) /\ (Raises(old, new) => level > old.trust /\ ~ old.reset)
    BY <1>2, <1>4, UpsertedIsSound
  <1>7. SoundIn(given', r, old)
    BY <1>2, <1>4, SoundStays
  <1> HIDE DEF new, gift
  <1>8. CallIn(given', c)
    <2>1. a \in Ext \cup {NoId}
      BY DEF Ext
    <2>2. QED
      BY <1>2, <1>3, <1>6, <1>7, <2>1, PutCall
  <1> HIDE DEF c
  <1>9. QED
    BY <1>4, <1>5, <1>8, OneCall DEF Do, StoreInv

\* onboardAgent begins with the upsert.
LEMMA OnboardStep ==
  ASSUME StoreInv, calls' \in 0..MaxCalls, NEW p \in Proc, NEW a \in AgentId,
         NEW d \in Did \cup {NoDid}, NEW level \in Level, Onboard(p, a, d, level)
  PROVE  StoreInv'
  BY UpsertStep, PeersAssumption DEF Onboard

\* connectAgents resolves the peer to an agent id first.
LEMMA ConnectStep ==
  ASSUME StoreInv, calls' \in 0..MaxCalls, NEW p \in Proc, NEW sense, NEW a \in AgentId,
         NEW level \in Level, Connect(p, sense, a, level)
  PROVE  StoreInv'
  <1>1. PICK d \in IF Holders(a) = {} THEN {NoDid} ELSE {file[r].did : r \in Holders(a)} :
          Await(p, "introduce", "connect", a, d, IF level = 0 THEN Family ELSE level, <<>>)
    BY DEF Connect
  <1> DEFINE asked == IF level = 0 THEN Family ELSE level
  <1>2. d \in Did \cup {NoDid}
    BY <1>1 DEF StoreInv, Record, Holders
  <1>3. asked \in 0..4
    BY PeersAssumption DEF Family
  <1> HIDE DEF asked
  <1> DEFINE c == [pc |-> "introduce", op |-> "connect", r |-> NoRec, old |-> Absent, new |-> Absent,
                   id |-> a, did |-> d, level |-> asked, first |-> FALSE, todo |-> <<>>]
  <1>4. Do(p, c)
    BY <1>1 DEF Await, asked
  <1>5. CallIn(given, c)
    <2>1. <<>> \in Seq(HumanId) /\ a \in Ext
      BY DEF Ext
    <2>2. QED
      BY <1>2, <1>3, <2>1, WaitCall
  <1> HIDE DEF c
  <1>6. QED
    BY <1>4, <1>5, MoveOn DEF Connect

\* ... and then upserts it, unless two records hold the id.
LEMMA IntroduceStep ==
  ASSUME StoreInv, calls' \in 0..MaxCalls, NEW p \in Proc, Introduce(p)
  PROVE  StoreInv'
  <1> DEFINE c == call[p]
  <1>1. c \in CallType /\ CallIn(given, c) /\ c.pc = "introduce"
    BY DEF StoreInv, Introduce
  <1>2. c.id \in AgentId /\ c.did \in Did \cup {NoDid} /\ c.level \in 0..4
    BY <1>1 DEF CallIn, CallType
  <1>3. CASE Upsert(p, "connect", c.id, c.did, c.level)
    BY <1>2, <1>3, UpsertStep DEF Introduce
  <1>4. CASE End(p) /\ UNCHANGED given
    BY <1>4, EndIsSound DEF Introduce
  <1>5. QED
    BY <1>3, <1>4 DEF Introduce

\* setFriendTrust up to its put.
LEMMA SetTrustStep ==
  ASSUME StoreInv, calls' \in 0..MaxCalls, NEW p \in Proc, NEW r \in Rec, NEW level \in Level,
         SetTrust(p, r, level)
  PROVE  StoreInv'
  <1> DEFINE old == file[r]
             new == Trusted(old, level)
             gift == <<r, new.did, new.trust>>
  <1>1. old \in Record /\ SoundIn(given, r, old) /\ old.trust > 0 /\ level \in 1..4 /\ Gave(r, new)
    BY PeersAssumption DEF StoreInv, SetTrust, There
  <1> DEFINE c == [pc |-> "put", op |-> "set_trust", r |-> r, old |-> old, new |-> new, id |-> NoId,
                   did |-> NoDid, level |-> level, first |-> FALSE, todo |-> <<>>]
  <1>2. Do(p, c)
    BY DEF SetTrust, Putting
  <1> HIDE DEF old
  <1>3. new \in Record /\ new.trust > 0
    BY <1>1, TrustedIsSound, gift \in given \cup {gift}
  <1>4. given \subseteq given' /\ given' \subseteq Gift /\ gift \in given'
    BY <1>1, <1>3, GaveIsGift
  <1>5. SoundIn(given', r, new) /\ (Raises(old, new) => level > old.trust)
    BY <1>1, <1>4, TrustedIsSound
  <1>6. SoundIn(given', r, old)
    BY <1>1, <1>4, SoundStays
  <1> HIDE DEF new, gift
  <1>7. CallIn(given', c)
    <2>1. /\ "set_trust" \in {"onboard", "connect", "set_trust", "touch", "resolve"}
          /\ "set_trust" # "connect" /\ "set_trust" # "resolve"
          /\ NoId \in Ext \cup {NoId} /\ level \in 0..4
      BY <1>1
    <2>2. QED
      BY <1>1, <1>3, <1>5, <1>6, <2>1, PutCall
  <1> HIDE DEF c
  <1>8. QED
    BY <1>2, <1>4, <1>7, OneCall DEF Do, StoreInv, SetTrust

\* save_note and its like put back the authority they read.
LEMMA TouchStep ==
  ASSUME StoreInv, calls' \in 0..MaxCalls, NEW p \in Proc, NEW r \in Rec, Touch(p, r)
  PROVE  StoreInv'
  <1> DEFINE old == file[r]
  <1>1. old \in Record /\ SoundIn(given, r, old) /\ old.trust > 0
    BY DEF StoreInv, Touch, There
  <1> DEFINE c == [pc |-> "put", op |-> "touch", r |-> r, old |-> old, new |-> old, id |-> NoId,
                   did |-> NoDid, level |-> 0, first |-> FALSE, todo |-> <<>>]
  <1>2. Do(p, c)
    BY DEF Touch, Putting
  <1> HIDE DEF old
  <1>3. ~ Raises(old, old)
    BY <1>1 DEF Raises, Record
  <1>4. CallIn(given, c)
    <2>1. /\ "touch" \in {"onboard", "connect", "set_trust", "touch", "resolve"}
          /\ "touch" # "connect" /\ "touch" # "resolve"
          /\ NoId \in Ext \cup {NoId} /\ 0 \in 0..4
      OBVIOUS
    <2>2. QED
      BY <1>1, <1>3, <2>1, PutCall
  <1> HIDE DEF c
  <1>5. QED
    BY <1>2, <1>4, MoveOn DEF Touch

\* upsertGroupContextParticipants begins.
LEMMA GroupStep ==
  ASSUME StoreInv, calls' \in 0..MaxCalls, NEW p \in Proc, NEW y \in GroupId, NEW n \in 1..2,
         NEW people \in [1..n -> HumanId], Group(p, y, people)
  PROVE  StoreInv'
  <1> DEFINE c == [pc |-> "next", op |-> "group", r |-> NoRec, old |-> Absent, new |-> Absent,
                   id |-> y, did |-> NoDid, level |-> 0, first |-> FALSE, todo |-> people]
  <1>1. people \in Seq(HumanId) /\ y \in Ext
    BY DEF Ext
  <1>2. Do(p, c)
    BY DEF Group, Await
  <1>3. CallIn(given, c)
    BY <1>1, WaitCall
  <1> HIDE DEF c
  <1>4. QED
    BY <1>2, <1>3, MoveOn DEF Group

\* FriendResolver.resolve finds no single holder.
LEMMA ResolveStep ==
  ASSUME StoreInv, calls' \in 0..MaxCalls, NEW p \in Proc, NEW x \in Ext,
         NEW d \in Did \cup {NoDid}, Resolve(p, x, d)
  PROVE  StoreInv'
  <1> DEFINE c == [pc |-> "imprint", op |-> "resolve", r |-> NoRec, old |-> Absent, new |-> Absent,
                   id |-> x, did |-> d, level |-> 0, first |-> FALSE, todo |-> <<>>]
  <1>1. Do(p, c)
    BY DEF Resolve, Await
  <1>2. CallIn(given, c)
    <2>1. <<>> \in Seq(HumanId) /\ 0 \in 0..4
      OBVIOUS
    <2>2. QED
      BY <2>1, WaitCall
  <1> HIDE DEF c
  <1>3. QED
    BY <1>1, <1>2, MoveOn DEF Resolve

\* A group context has no participant left.
LEMMA GroupDoneStep ==
  ASSUME StoreInv, calls' \in 0..MaxCalls, NEW p \in Proc, GroupDone(p)
  PROVE  StoreInv'
  BY EndIsSound DEF GroupDone

\* A group call goes to its next participant.
LEMMA GroupCall ==
  ASSUME NEW g, NEW c \in CallType, CallIn(g, c), c.pc = "next", c.todo # <<>>
  PROVE  LET go == [c EXCEPT !.todo = Tail(@)]
         IN  /\ CallIn(g, go)
             /\ go.pc = "next" /\ go.op = "group" /\ go.id \in GroupId
  <1> DEFINE go == [c EXCEPT !.todo = Tail(@)]
  <1>1. c.op = "group" /\ c.id \in GroupId /\ c.old = Absent
    BY DEF CallIn
  <1>2. Tail(c.todo) \in Seq(HumanId)
    BY DEF CallType
  <1>3. /\ go \in CallType /\ go.pc = "next" /\ go.op = "group" /\ go.id \in GroupId
        /\ go.old = Absent
    BY <1>1, <1>2 DEF CallType
  <1> HIDE DEF go
  <1>4. CallIn(g, go)
    BY <1>3 DEF CallIn, SaysIt
  <1>5. QED
    BY <1>3, <1>4 DEF go

\* It holds the record of that participant on the way.
LEMMA GroupPutCall ==
  ASSUME NEW g, NEW go, CallIn(g, go), go.op = "group", go.id \in GroupId,
         NEW r \in Rec, NEW old \in Record, NEW new \in Record,
         SoundIn(g, r, old), SoundIn(g, r, new), new.trust > 0,
         Raises(old, new) => new.trust = Acquaintance /\ ~ old.reset
  PROVE  CallIn(g, [go EXCEPT !.pc = "put", !.r = r, !.old = old, !.new = new])
  <1> DEFINE one == [go EXCEPT !.pc = "put"]
             two == [one EXCEPT !.r = r]
             three == [two EXCEPT !.old = old]
             put == [three EXCEPT !.new = new]
  <1>1. go \in CallType
    BY DEF CallIn
  <1>2. one \in CallType /\ one.pc = "put" /\ one.op = "group" /\ one.id \in GroupId
    BY <1>1 DEF CallType
  <1>3. put = [go EXCEPT !.pc = "put", !.r = r, !.old = old, !.new = new]
    OBVIOUS
  <1> HIDE DEF one
  <1>4. two \in CallType /\ two.pc = "put" /\ two.op = "group" /\ two.id \in GroupId /\ two.r = r
    BY <1>2 DEF CallType
  <1> HIDE DEF two
  <1>5. /\ three \in CallType /\ three.pc = "put" /\ three.op = "group" /\ three.id \in GroupId
        /\ three.r = r /\ three.old = old
    BY <1>4 DEF CallType
  <1> HIDE DEF three
  <1>6. /\ put \in CallType /\ put.pc = "put" /\ put.op = "group" /\ put.id \in GroupId
        /\ put.r = r /\ put.old = old /\ put.new = new
    BY <1>5 DEF CallType
  <1> HIDE DEF put
  <1>7. SaysIt(put)
    BY <1>6 DEF SaysIt, Says
  <1>8. CallIn(g, put)
    BY <1>6, <1>7 DEF CallIn
  <1>9. QED
    BY <1>3, <1>8

\* The next participant: a newcomer, a promotion, the group id, or nothing.
LEMMA ParticipantStep ==
  ASSUME StoreInv, calls' \in 0..MaxCalls, NEW p \in Proc, Participant(p)
  PROVE  StoreInv'
  <1> DEFINE c == call[p]
             h == Head(c.todo)
             go == [c EXCEPT !.todo = Tail(@)]
  <1>1. /\ c \in CallType /\ CallIn(given, c) /\ c.pc = "next" /\ c.todo # <<>>
        /\ UNCHANGED <<file, audit>>
    BY DEF StoreInv, Participant
  <1>2. h \in HumanId /\ c.id \in GroupId
    BY <1>1 DEF CallType, CallIn
  <1>3. CASE End(p) /\ UNCHANGED given
    BY <1>1, <1>3, EndIsSound
  <1>4. ASSUME NEW r \in Rec,
               LET new == InGroup(file[r], h, c.id)
               IN  IF new = file[r] THEN Do(p, go) /\ UNCHANGED given
                   ELSE /\ Do(p, [go EXCEPT !.pc = "put", !.r = r, !.old = file[r], !.new = new])
                        /\ IF new.trust # file[r].trust THEN Gave(r, new) ELSE UNCHANGED given
        PROVE  StoreInv'
    <2> DEFINE old == file[r]
               new == InGroup(old, h, c.id)
               gift == <<r, new.did, new.trust>>
               put == [go EXCEPT !.pc = "put", !.r = r, !.old = old, !.new = new]
    <2>1. old \in Record /\ SoundIn(given, r, old) /\ given \subseteq Gift
      BY DEF StoreInv
    <2>2. CASE new = old
      <3>1. Do(p, go) /\ UNCHANGED given
        BY <1>4, <2>2
      <3>2. CallIn(given, go)
        BY <1>1, GroupCall
      <3> HIDE DEF go
      <3>3. QED
        BY <1>1, <3>1, <3>2, MoveOn
    <2>3. CASE new # old
      <3>1. /\ Do(p, put)
            /\ IF new.trust # old.trust THEN Gave(r, new) ELSE UNCHANGED given
        BY <1>4, <2>3
      <3> HIDE DEF old, go, put, h, c
      <3>2. new \in Record /\ new.trust > 0
        BY <1>2, <2>1, InGroupIsSound, gift \in given \cup {gift}
      <3>3. /\ given \subseteq given' /\ given' \subseteq Gift
            /\ new.trust # old.trust => gift \in given'
        <4>1. CASE new.trust # old.trust
          BY <3>1, <3>2, <4>1, GaveIsGift
        <4>2. CASE new.trust = old.trust
          BY <2>1, <3>1, <4>2
        <4>3. QED
          BY <4>1, <4>2
      <3>4. /\ SoundIn(given', r, new)
            /\ Raises(old, new) => new.trust = Acquaintance /\ ~ old.reset
        BY <1>2, <2>1, <3>3, InGroupIsSound
      <3>5. SoundIn(given', r, old) /\ CallIn(given', c)
        BY <1>1, <2>1, <3>3, SoundStays, CallStays
      <3> HIDE DEF new, gift
      <3>6. CallIn(given', put)
        <4>1. CallIn(given', go) /\ go.op = "group" /\ go.id \in GroupId
          BY <1>1, <3>5, GroupCall DEF go
        <4> HIDE DEF go
        <4>2. QED
          BY <2>1, <3>2, <3>4, <3>5, <4>1, GroupPutCall DEF put
      <3>7. QED
        BY <1>1, <3>1, <3>3, <3>6, OneCall DEF Do, StoreInv
    <2>4. QED
      BY <2>2, <2>3
  <1>5. QED
    BY <1>3, <1>4 DEF Participant

\* A local user's record of an earlier version gets the new id.
LEMMA MigrateStep ==
  ASSUME StoreInv, calls' \in 0..MaxCalls, NEW p \in Proc, Migrate(p)
  PROVE  StoreInv'
  <1> DEFINE x == call[p].id
  <1>1. CallIn(given, call[p]) /\ call[p].pc = "imprint" /\ UNCHANGED <<file, audit, given>>
    BY DEF StoreInv, Migrate
  <1>2. x \in Ext
    BY <1>1 DEF CallIn
  <1>3. PICK r \in Former(x) : Putting(p, "resolve", r, [file[r] EXCEPT !.ext = @ \cup {x}], x, 0)
    BY DEF Migrate
  <1>4. r \in Rec /\ file[r].ext # {}
    BY <1>3 DEF Former, Holders
  <1> DEFINE old == file[r]
             new == [old EXCEPT !.ext = @ \cup {x}]
  <1>5. old \in Record /\ SoundIn(given, r, old) /\ old.trust > 0
    BY <1>4 DEF StoreInv, SoundIn, Absent, Newcomer, Record
  <1> DEFINE c == [pc |-> "put", op |-> "resolve", r |-> r, old |-> old, new |-> new, id |-> x,
                   did |-> NoDid, level |-> 0, first |-> FALSE, todo |-> <<>>]
  <1>6. Do(p, c)
    BY <1>3 DEF Putting
  <1> HIDE DEF x, old
  <1>7. /\ new \in Record /\ new.trust = old.trust /\ new.did = old.did
        /\ new.reset = old.reset /\ new.grant = old.grant /\ new.profile = old.profile
    BY <1>2, <1>5 DEF Record
  <1> HIDE DEF new
  <1>8. SoundIn(given, r, new) /\ ~ Raises(old, new)
    BY <1>5, <1>7 DEF SoundIn, Authority, Raises, Record
  <1>9. CallIn(given, c)
    <2>1. /\ "resolve" \in {"onboard", "connect", "set_trust", "touch", "resolve"}
          /\ "resolve" # "connect" /\ x \in Ext \cup {NoId} /\ 0 \in 0..4
      BY <1>2
    <2>2. QED
      BY <1>2, <1>4, <1>5, <1>7, <1>8, <2>1, PutCall
  <1> HIDE DEF c
  <1>10. QED
    BY <1>1, <1>6, <1>9, MoveOn

\* The resolver's call goes on without a record.
LEMMA ResolverCall ==
  ASSUME NEW g, NEW c \in CallType, CallIn(g, c), c.pc \in {"imprint", "roster", "seat"},
         NEW pc \in {"roster", "seat"}, NEW first \in BOOLEAN
  PROVE  CallIn(g, [c EXCEPT !.pc = pc, !.first = first]) /\ CallIn(g, [c EXCEPT !.pc = pc])
  <1> DEFINE one == [c EXCEPT !.pc = pc]
             two == [one EXCEPT !.first = first]
  <1>1. c.op = "resolve" /\ c.id \in Ext /\ c.old = Absent
    BY DEF CallIn
  <1>2. two = [c EXCEPT !.pc = pc, !.first = first]
    OBVIOUS
  <1>3. /\ one \in CallType /\ one.pc = pc /\ one.op = "resolve" /\ one.id \in Ext
        /\ one.old = Absent
    BY <1>1 DEF CallType
  <1> HIDE DEF one
  <1>4. CallIn(g, one)
    BY <1>3 DEF CallIn, SaysIt
  <1>5. /\ two \in CallType /\ two.pc = pc /\ two.op = "resolve" /\ two.id \in Ext
        /\ two.old = Absent
    BY <1>3 DEF CallType
  <1> HIDE DEF two
  <1>6. CallIn(g, two)
    BY <1>5 DEF CallIn, SaysIt
  <1>7. QED
    BY <1>2, <1>4, <1>6 DEF one

\* The resolver counts the friends and may turn to the roster.
LEMMA ImprintStep ==
  ASSUME StoreInv, calls' \in 0..MaxCalls, NEW p \in Proc, Imprint(p)
  PROVE  StoreInv'
  <1> DEFINE c == call[p]
             empty == \A r \in Rec : ~ There(r)
  <1>1. c \in CallType /\ CallIn(given, c) /\ c.pc = "imprint" /\ UNCHANGED <<file, audit, given>>
    BY DEF StoreInv, Imprint
  <1>2. \/ Do(p, [c EXCEPT !.pc = "roster", !.first = empty])
        \/ Do(p, [c EXCEPT !.pc = "seat", !.first = empty])
    BY DEF Imprint
  <1>3. /\ empty \in BOOLEAN
        /\ c.pc \in {"imprint", "roster", "seat"}
        /\ "roster" \in {"roster", "seat"} /\ "seat" \in {"roster", "seat"}
    BY <1>1
  <1> HIDE DEF c, empty
  <1>4. CallIn(given, [c EXCEPT !.pc = "roster", !.first = empty])
    BY <1>1, <1>3, ResolverCall, Zenon
  <1>5. CallIn(given, [c EXCEPT !.pc = "seat", !.first = empty])
    BY <1>1, <1>3, ResolverCall, Zenon
  <1>6. QED
    BY <1>1, <1>2, <1>4, <1>5, MoveOn, Zenon

\* A new record, of the id alone.
LEMMA NewIsSound ==
  ASSUME NEW r \in Rec, NEW x \in Ext, NEW level \in 1..4, NEW g, <<r, NoDid, level>> \in g
  PROVE  LET new == Newcomer({x}, level)
         IN  new \in Record /\ new.trust > 0 /\ SoundIn(g, r, new)
  <1> DEFINE new == Newcomer({x}, level)
  <1>1. new = [ext |-> {x}, trust |-> level, did |-> NoDid, reset |-> FALSE, grant |-> FALSE,
               profile |-> FALSE]
    BY DEF Newcomer
  <1> HIDE DEF new
  <1>2. new \in Record
    BY <1>1 DEF Record
  <1>3. SoundIn(g, r, new)
    BY <1>1 DEF SoundIn, Authority, Stranger
  <1>4. QED
    BY <1>1, <1>2, <1>3 DEF new

\* A new record on its way to the store, at the trust that was decided.
LEMMA SeatedStep ==
  ASSUME StoreInv, calls' \in 0..MaxCalls, NEW p \in Proc, NEW member \in BOOLEAN,
         call[p].pc \in {"roster", "seat"}, Seated(p, member), UNCHANGED <<file, audit>>
  PROVE  StoreInv'
  <1> DEFINE c == call[p]
             level == SeatTrust(c.id, c.first, member)
             new == Newcomer({c.id}, level)
  <1>1. c \in CallType /\ CallIn(given, c)
    BY DEF StoreInv
  <1>2. c.op = "resolve" /\ c.id \in Ext /\ c.old = Absent
    BY <1>1 DEF CallIn
  <1>3. PICK r \in Rec : Do(p, [c EXCEPT !.pc = "put", !.r = r, !.new = new]) /\ Gave(r, new)
    BY DEF Seated
  <1>4. level \in 1..4
    BY DEF SeatTrust, Family, Stranger
  <1> HIDE DEF c, level
  <1>5. new \in Record /\ new.trust > 0 /\ new.did = NoDid /\ new.trust = level
    BY <1>2, <1>4, NewIsSound, <<r, NoDid, level>> \in given \cup {<<r, NoDid, level>>} DEF Absent, Newcomer
  <1> HIDE DEF new
  <1>6. /\ given \subseteq given' /\ given' \subseteq Gift
        /\ <<r, NoDid, level>> \in given'
    BY <1>3, <1>5, GaveIsGift
  <1>7. SoundIn(given', r, new)
    BY <1>2, <1>4, <1>6, NewIsSound DEF new
  <1>8. SoundIn(given', r, Absent) /\ Absent.trust = 0
    BY DEF SoundIn, Absent, Newcomer, Stranger, Authority
  <1> DEFINE one == [c EXCEPT !.pc = "put"]
             two == [one EXCEPT !.r = r]
             put == [two EXCEPT !.new = new]
  <1>9. put = [c EXCEPT !.pc = "put", !.r = r, !.new = new]
    OBVIOUS
  <1>10. /\ one \in CallType /\ one.pc = "put" /\ one.op = "resolve" /\ one.id \in Ext
         /\ one.old = Absent
    BY <1>1, <1>2 DEF CallType
  <1> HIDE DEF one
  <1>11. /\ two \in CallType /\ two.pc = "put" /\ two.op = "resolve" /\ two.id \in Ext
         /\ two.old = Absent /\ two.r = r
    BY <1>10 DEF CallType
  <1> HIDE DEF two
  <1>12. /\ put \in CallType /\ put.pc = "put" /\ put.op = "resolve" /\ put.id \in Ext
         /\ put.old = Absent /\ put.r = r /\ put.new = new
    BY <1>5, <1>11 DEF CallType
  <1> HIDE DEF put
  <1>13. CallIn(given', put)
    BY <1>5, <1>7, <1>8, <1>12 DEF CallIn, SaysIt, Raises
  <1>14. QED
    BY <1>3, <1>6, <1>9, <1>13, OneCall DEF Do, StoreInv

\* ... by the default, or as a member of the account.
LEMMA SeatStep ==
  ASSUME StoreInv, calls' \in 0..MaxCalls, NEW p \in Proc, Seat(p) \/ SeatMember(p)
  PROVE  StoreInv'
  BY SeatedStep DEF Seat, SeatMember

\* No membership: the default applies.
LEMMA NoMemberStep ==
  ASSUME StoreInv, calls' \in 0..MaxCalls, NEW p \in Proc, NoMember(p)
  PROVE  StoreInv'
  <1> DEFINE c == call[p]
  <1>1. /\ c \in CallType /\ CallIn(given, c) /\ c.pc = "roster" /\ UNCHANGED <<file, audit, given>>
        /\ Do(p, [c EXCEPT !.pc = "seat"])
    BY DEF StoreInv, NoMember
  <1> HIDE DEF c
  <1>2. CallIn(given, [c EXCEPT !.pc = "seat"])
    BY <1>1, ResolverCall
  <1>3. QED
    BY <1>1, <1>2, MoveOn

\* A plain human's record is created by its claim, or found.
LEMMA SeatClaimedStep ==
  ASSUME StoreInv, calls' \in 0..MaxCalls, NEW p \in Proc, SeatClaimed(p)
  PROVE  StoreInv'
  <1> DEFINE x == call[p].id
  <1>1. /\ CallIn(given, call[p]) /\ call[p].pc = "seat" /\ UNCHANGED audit
        /\ call' = [call EXCEPT ![p] = NoCall]
    BY DEF StoreInv, SeatClaimed, End, Do
  <1>2. x \in Ext
    BY <1>1 DEF CallIn
  <1>3. CASE UNCHANGED <<file, given>>
    BY <1>3, EndIsSound DEF SeatClaimed
  <1>4. ASSUME NEW r \in Rec,
               LET new == Newcomer({x}, Stranger)
               IN  file' = [file EXCEPT ![r] = new] /\ Gave(r, new)
        PROVE  StoreInv'
    <2> DEFINE new == Newcomer({x}, Stranger)
    <2>1. Stranger \in 1..4
      BY DEF Stranger
    <2> HIDE DEF x
    <2>2. new \in Record /\ new.trust > 0 /\ new.did = NoDid /\ new.trust = Stranger
      BY <1>2, <2>1, NewIsSound, <<r, NoDid, Stranger>> \in given \cup {<<r, NoDid, Stranger>>} DEF Absent, Newcomer
    <2>3. file' = [file EXCEPT ![r] = new] /\ Gave(r, new)
      BY <1>4
    <2> HIDE DEF new
    <2>4. /\ given \subseteq given' /\ given' \subseteq Gift
          /\ <<r, NoDid, Stranger>> \in given'
      BY <2>2, <2>3, GaveIsGift
    <2>5. SoundIn(given', r, new)
      BY <1>2, <2>1, <2>4, NewIsSound DEF new
    <2>6. CallIn(given', NoCall)
      BY IdleCall
    <2>7. /\ file' \in [Rec -> Record]
          /\ \A q \in Rec : file'[q] = file[q] \/ SoundIn(given', q, file'[q])
      BY <2>2, <2>3, <2>5 DEF StoreInv
    <2>8. QED
      BY <1>1, <2>4, <2>6, <2>7, OneCall
  <1>5. QED
    BY <1>3, <1>4 DEF SeatClaimed

\* The record goes back whole: it was sound when it was made, and still is.
LEMMA PutStep ==
  ASSUME StoreInv, calls' \in 0..MaxCalls, NEW p \in Proc, Put(p)
  PROVE  StoreInv'
  <1> DEFINE c == call[p]
  <1>1. /\ c \in CallType /\ CallIn(given, c) /\ c.pc = "put"
        /\ file' = [file EXCEPT ![c.r] = c.new] /\ UNCHANGED <<audit, given>>
    BY DEF StoreInv, Put
  <1>2. /\ c.r \in Rec /\ SoundIn(given, c.r, c.old) /\ SoundIn(given, c.r, c.new) /\ c.new.trust > 0
        /\ c.new \in Record
        /\ c.op = "connect" => c.id \in AgentId
        /\ c.op = "group" => c.id \in GroupId
        /\ c.op = "resolve" => c.id \in Ext
    BY <1>1 DEF CallIn, CallType
  <1>3. \/ Do(p, [c EXCEPT !.pc = "audit"])
        \/ c.op = "group" /\ Do(p, [c EXCEPT !.pc = "next", !.r = NoRec, !.old = Absent, !.new = Absent])
        \/ End(p)
    BY DEF Put
  <1>4. /\ file' \in [Rec -> Record]
        /\ \A r \in Rec : file'[r] = file[r] \/ SoundIn(given', r, file'[r])
    BY <1>1, <1>2 DEF StoreInv
  <1>5. ASSUME NEW d, CallIn(given', d), Do(p, d) PROVE StoreInv'
    BY <1>1, <1>4, <1>5, OneCall DEF Do, StoreInv
  <1> HIDE DEF c
  <1>6. CallIn(given', [c EXCEPT !.pc = "audit"])
    <2> DEFINE d == [c EXCEPT !.pc = "audit"]
    <2>1. /\ d \in CallType /\ d.pc = "audit" /\ d.op = c.op /\ d.id = c.id
          /\ d.r = c.r /\ d.old = c.old /\ d.new = c.new
      BY <1>1 DEF CallType
    <2> HIDE DEF d
    <2>2. CallIn(given, d)
      BY <1>2, <2>1 DEF CallIn, SaysIt
    <2>3. QED
      BY <1>1, <2>2 DEF d
  <1>7. ASSUME c.op = "group"
        PROVE  CallIn(given', [c EXCEPT !.pc = "next", !.r = NoRec, !.old = Absent, !.new = Absent])
    <2> DEFINE one == [c EXCEPT !.pc = "next"]
               two == [one EXCEPT !.r = NoRec]
               three == [two EXCEPT !.old = Absent]
               d == [three EXCEPT !.new = Absent]
    <2>1. Absent \in Record
      BY DEF Absent, Newcomer, Record
    <2>2. d = [c EXCEPT !.pc = "next", !.r = NoRec, !.old = Absent, !.new = Absent]
      OBVIOUS
    <2>3. one \in CallType /\ one.pc = "next" /\ one.op = "group" /\ one.id \in GroupId
      BY <1>1, <1>2, <1>7 DEF CallType
    <2> HIDE DEF one
    <2>4. two \in CallType /\ two.pc = "next" /\ two.op = "group" /\ two.id \in GroupId
      BY <2>3 DEF CallType
    <2> HIDE DEF two
    <2>5. /\ three \in CallType /\ three.pc = "next" /\ three.op = "group" /\ three.id \in GroupId
          /\ three.old = Absent
      BY <2>1, <2>4 DEF CallType
    <2> HIDE DEF three
    <2>6. d \in CallType /\ d.pc = "next" /\ d.op = "group" /\ d.id \in GroupId /\ d.old = Absent
      BY <2>1, <2>5 DEF CallType
    <2> HIDE DEF d
    <2>7. CallIn(given', d)
      BY <2>6 DEF CallIn, SaysIt
    <2>8. QED
      BY <2>2, <2>7
  <1>8. QED
    BY <1>3, <1>5, <1>6, <1>7, IdleCall DEF End

\* The line of the log is the level the record was put with.
LEMMA Append2LogStep ==
  ASSUME StoreInv, calls' \in 0..MaxCalls, NEW p \in Proc, Append2Log(p)
  PROVE  StoreInv'
  <1> DEFINE c == call[p]
             line == <<c.r, c.new.did, c.new.trust>>
  <1>1. /\ c \in CallType /\ CallIn(given, c) /\ c.pc = "audit"
        /\ audit' = line /\ End(p) /\ UNCHANGED <<file, given>>
    BY DEF StoreInv, Append2Log, Entry
  <1>2. c.r \in Rec /\ SoundIn(given, c.r, c.new) /\ c.new.trust > 0 /\ c.new \in Record
    BY <1>1 DEF CallIn, CallType
  <1>3. line \in Gift
    BY <1>2 DEF Gift, Record
  <1>4. line[3] > Stranger => line \in given
    BY <1>2 DEF SoundIn
  <1>5. LogIn(given', audit')
    BY <1>1, <1>3, <1>4 DEF LogIn
  <1>6. QED
    BY <1>1, <1>5, IdleCall, OneCall DEF End, Do, StoreInv

\* A call that is cut short holds nothing any more.
LEMMA CrashStep ==
  ASSUME StoreInv, calls' \in 0..MaxCalls, NEW p \in Proc, Crash(p)
  PROVE  StoreInv'
  BY EndIsSound DEF Crash

\* Every step of a call, and a start of one, keeps the store's half.
LEMMA StoreNext == StoreInv /\ [Next]_vars => StoreInv'
  <1> SUFFICES ASSUME StoreInv, [Next]_vars PROVE StoreInv'
    OBVIOUS
  <1>1. calls' \in 0..MaxCalls
    BY PeersAssumption DEF Next, vars, StoreInv
  <1>2. ASSUME NEW p \in Proc, Start(p) PROVE StoreInv'
    <2>1. ASSUME NEW a \in AgentId, NEW d \in Did \cup {NoDid}, NEW l \in Level, Onboard(p, a, d, l)
          PROVE  StoreInv'
      BY <1>1, <2>1, OnboardStep
    <2>2. ASSUME NEW sense \in Sense, NEW a \in AgentId, NEW l \in Level, Connect(p, sense, a, l)
          PROVE  StoreInv'
      BY <1>1, <2>2, ConnectStep
    <2>3. ASSUME NEW r \in Rec, NEW l \in Level, SetTrust(p, r, l) PROVE StoreInv'
      BY <1>1, <2>3, SetTrustStep
    <2>4. ASSUME NEW r \in Rec, Touch(p, r) PROVE StoreInv'
      BY <1>1, <2>4, TouchStep
    <2>5. ASSUME NEW y \in GroupId, NEW n \in 1..2, NEW people \in [1..n -> HumanId],
                 Group(p, y, people)
          PROVE  StoreInv'
      BY <1>1, <2>5, GroupStep
    <2>6. ASSUME NEW x \in Ext, NEW d \in Candidate \cup {NoDid}, Resolve(p, x, d) PROVE StoreInv'
      BY <1>1, <2>6, ResolveStep, PeersAssumption
    <2>7. CASE UNCHANGED <<file, call, audit, given>>
      BY <1>1, <2>7, NoCallMoves
    <2>8. QED
      BY <1>2, <2>1, <2>2, <2>3, <2>4, <2>5, <2>6, <2>7 DEF Start
  <1>3. ASSUME NEW p \in Proc, CallStep(p) PROVE StoreInv'
    <2>1. CASE Introduce(p)
      BY <1>1, <2>1, IntroduceStep
    <2>2. CASE Participant(p)
      BY <1>1, <2>2, ParticipantStep
    <2>3. CASE GroupDone(p)
      BY <1>1, <2>3, GroupDoneStep
    <2>4. CASE Migrate(p)
      BY <1>1, <2>4, MigrateStep
    <2>5. CASE Imprint(p)
      BY <1>1, <2>5, ImprintStep
    <2>6. CASE Seat(p) \/ SeatMember(p)
      BY <1>1, <2>6, SeatStep
    <2>7. CASE NoMember(p)
      BY <1>1, <2>7, NoMemberStep
    <2>8. CASE SeatClaimed(p)
      BY <1>1, <2>8, SeatClaimedStep
    <2>9. CASE Put(p)
      BY <1>1, <2>9, PutStep
    <2>10. CASE Append2Log(p)
      BY <1>1, <2>10, Append2LogStep
    <2>11. QED
      BY <1>3, <2>1, <2>2, <2>3, <2>4, <2>5, <2>6, <2>7, <2>8, <2>9, <2>10 DEF CallStep
  <1>4. ASSUME NEW p \in Proc, CheckStep(p) PROVE StoreInv'
    BY <1>1, <1>4, NoCallMoves DEF CheckStep
  <1>5. ASSUME NEW p \in Proc, Crash(p) PROVE StoreInv'
    BY <1>1, <1>5, CrashStep
  <1>6. CASE StoreRoster /\ UNCHANGED <<file, call, audit, calls, given>>
    BY <1>1, <1>6, NoCallMoves
  <1>7. CASE UNCHANGED vars
    BY <1>1, <1>7, NoCallMoves DEF vars
  <1>8. QED
    BY <1>2, <1>3, <1>4, <1>5, <1>6, <1>7 DEF Next

\* So far as the roster's variables go, every step is one that RosterStepInv covers.
LEMMA RosterNext == StoreInv /\ [Next]_vars => RosterStep
  <1> SUFFICES ASSUME StoreInv, [Next]_vars PROVE RosterStep
    OBVIOUS
  <1> USE DEF RosterStep
  <1>1. ASSUME NEW p \in Proc, Start(p) PROVE RosterStep
    BY <1>1, PeersAssumption DEF Start, Onboard, Connect, SetTrust, Touch, Group, Resolve
  <1>2. ASSUME NEW p \in Proc, CallStep(p) PROVE RosterStep
    <2>1. CASE Imprint(p)
      <3>1. call[p].did \in Did \cup {NoDid}
        BY DEF StoreInv, CallType
      <3>2. QED
        BY <2>1, <3>1 DEF Imprint
    <2>2. CASE SeatMember(p)
      BY <2>2 DEF SeatMember
    <2>3. CASE NoMember(p)
      BY <2>3 DEF NoMember
    <2>4. CASE ~ (Imprint(p) \/ SeatMember(p) \/ NoMember(p))
      BY <1>2, <2>4 DEF CallStep, Introduce, Participant, GroupDone, Migrate, Seat, SeatClaimed,
                        Put, Append2Log
    <2>5. QED
      BY <2>1, <2>2, <2>3, <2>4
  <1>3. ASSUME NEW p \in Proc, CheckStep(p) PROVE RosterStep
    BY <1>3 DEF CheckStep
  <1>4. ASSUME NEW p \in Proc, Crash(p) PROVE RosterStep
    BY <1>4 DEF Crash
  <1>5. CASE UNCHANGED vars
    BY <1>5 DEF vars
  <1>6. QED
    BY <1>1, <1>2, <1>3, <1>4, <1>5 DEF Next

-----------------------------------------------------------------------------
(* The theorems.                                                           *)

IInv == RosterInv /\ StoreInv

\* The records a store starts with are sound: their levels count as given.
LEMMA InitIInv == Init => IInv
  <1> SUFFICES ASSUME Init PROVE IInv
    OBVIOUS
  <1>1. RosterInv
    BY DEF Init, RosterInit, RosterInv, RosterTypeOK, ChecksAreWhole, UnderThePin, NoCheck
  <1>2. \A r \in Rec : file[r] = Existing[r] /\ Existing[r] \in Record
    BY PeersAssumption DEF Init
  <1>3. given \subseteq Gift
    <2>1. ASSUME NEW r \in Rec, Existing[r].trust > 0
          PROVE  <<r, Existing[r].did, Existing[r].trust>> \in Gift
      BY <1>2, <2>1 DEF Gift, Record
    <2>2. QED
      BY <2>1 DEF Init
  <1>4. ASSUME NEW r \in Rec PROVE SoundIn(given, r, file[r])
    <2>1. Existing[r].trust > Stranger => <<r, Existing[r].did, Existing[r].trust>> \in given
      BY <1>2 DEF Init, Record, Stranger
    <2>2. QED
      BY <1>2, <2>1, PeersAssumption DEF SoundIn
  <1>5. call \in [Proc -> CallType] /\ \A p \in Proc : CallIn(given, call[p])
    <2>1. CallIn(given, NoCall) /\ NoCall \in CallType
      BY IdleCall DEF CallIn
    <2>2. QED
      BY <2>1 DEF Init
  <1>6. QED
    BY <1>1, <1>3, <1>4, <1>5, PeersAssumption DEF Init, IInv, StoreInv, LogIn

\* Every record, every record a call holds, the log and the pin stay as they should.
LEMMA InductiveInv == Spec => []IInv
  <1>1. IInv /\ [Next]_vars => IInv'
    BY StoreNext, RosterNext, RosterStepInv DEF IInv
  <1>2. QED
    BY InitIInv, <1>1, PTL DEF Spec

\* The invariant the runs check: types, sound records in every call's hands, and
\* answers under the pinned key alone (account-roster.ts, agent-peer.ts).
THEOREM PeersInductive == Spec => []PeersInv
  <1>1. IInv => PeersInv
    <2> SUFFICES ASSUME IInv PROVE PeersInv
      OBVIOUS
    <2>1. TypeOK
      BY DEF IInv, RosterInv, StoreInv, TypeOK, CallType, LogIn
    <2>2. CallsSound
      BY DEF IInv, StoreInv, CallIn, SoundIn, CallsSound, Sound
    <2>3. QED
      BY <2>1, <2>2 DEF PeersInv, IInv, RosterInv
  <1>2. QED
    BY InductiveInv, <1>1, PTL

\* Whatever calls overlap, a record's trust was given to the DID it names, and its
\* other authority is the DID's that had it (upsertAgentPeer, setFriendTrust).
THEOREM AuthorityIsGiven == Spec => []AuthorityWasGiven
  <1>1. IInv => AuthorityWasGiven
    BY DEF IInv, StoreInv, SoundIn, AuthorityWasGiven, Sound
  <1>2. QED
    BY InductiveInv, <1>1, PTL

\* The control-plane log claims no level that was not given (appendControlPlaneAudit).
THEOREM LogTells == Spec => []LogIsTrue
  <1>1. IInv => LogIsTrue
    BY DEF IInv, StoreInv, LogIn, LogIsTrue
  <1>2. QED
    BY InductiveInv, <1>1, PTL

\* While no pin was raced or torn, family is answered under one key, ever
\* (evaluateAccountMembership).
THEOREM OneKey == Spec => []OneKeyGrantsFamily
  <1>1. IInv => OneKeyGrantsFamily
    BY DEF IInv, RosterInv, UnderThePin, OneKeyGrantsFamily
  <1>2. QED
    BY InductiveInv, <1>1, PTL

\* A record in its file changes only when a call puts the one it holds, or when an id
\* nobody holds is claimed for a new one.
LEMMA FileChanges ==
  [Next]_vars => \/ UNCHANGED file
                 \/ \E p \in Proc : Put(p)
                 \/ \E r \in Rec : \E new :
                      ~ There(r) /\ file' = [file EXCEPT ![r] = new]
  BY DEF Next, Start, Onboard, Connect, SetTrust, Touch, Group, Resolve, CallStep, Introduce,
         Participant, GroupDone, Migrate, Imprint, Seat, SeatMember, NoMember, SeatClaimed, Fresh,
         Append2Log, CheckStep, Crash, vars

\* Nobody's trust rises, and no reset is lifted, by a call that did not set out to do
\* so, unless it had read the record before the last change of it.
THEOREM DeliberateRaises == Spec => RaisesAreDeliberate
  <1>1. ASSUME IInv, [Next]_vars, NEW r \in Rec, There(r),
               file'[r].trust > file[r].trust \/ (file[r].reset /\ ~ file'[r].reset)
        PROVE  \E p \in Proc : /\ call[p].pc = "put" /\ call[p].r = r
                               /\ Says(call[p], file[r]) \/ call[p].old # file[r]
    <2>1. file'[r] # file[r] /\ file \in [Rec -> Record]
      BY <1>1 DEF IInv, StoreInv, Record
    <2>2. PICK p \in Proc : Put(p)
      BY <1>1, <2>1, FileChanges
    <2>3. call[p].pc = "put" /\ call[p].r = r /\ file'[r] = call[p].new
      BY <2>1, <2>2 DEF Put
    <2>4. CASE call[p].old = file[r]
      <3>1. SaysIt(call[p])
        BY <1>1 DEF IInv, StoreInv, CallIn
      <3>2. Raises(call[p].old, call[p].new)
        BY <1>1, <2>3, <2>4 DEF Raises, There
      <3>3. QED
        BY <2>3, <2>4, <3>1, <3>2 DEF SaysIt
    <2>5. CASE call[p].old # file[r]
      BY <2>3, <2>5
    <2>6. QED
      BY <2>4, <2>5
  <1>2. IInv /\ [Next]_vars =>
          [\A r \in Rec : There(r) /\ (file'[r].trust > file[r].trust \/ (file[r].reset /\ ~ file'[r].reset))
             => \E p \in Proc : /\ call[p].pc = "put" /\ call[p].r = r
                                /\ Says(call[p], file[r]) \/ call[p].old # file[r]]_vars
    BY <1>1
  <1>3. QED
    BY InductiveInv, <1>2, PTL DEF Spec, RaisesAreDeliberate
=============================================================================
