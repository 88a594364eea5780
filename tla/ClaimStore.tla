----------------------------- MODULE ClaimStore -----------------------------
(***************************************************************************)
(* External identities in the file store (src/store-file.ts) and the calls *)
(* that move them: claimExternalId, unlinkExternalId, linkExternalId, the  *)
(* resolver's direct seating of a new friend, and every other tool's       *)
(* read-modify-write of a record.                                          *)
(*                                                                         *)
(* Friends are files replaced by rename.  A claim journal holds one file   *)
(* per external id, published with a hard link (the first writer wins) and *)
(* later replaced by its committed form.  A record is read as the ids in   *)
(* its file plus the ids of the journals that name it.  Store instances in *)
(* one or several processes share the directory and nothing else: each     *)
(* await of a call is a step of its own.                                   *)
(***************************************************************************)
EXTENDS Naturals, FiniteSets

CONSTANTS
  Proc,      \* concurrent calls, in one process or in several
  Friend,    \* record ids
  Ext,       \* external ids
  Op,        \* the operations the calls perform
  Existing,  \* the friends whose file exists at the start
  Held,      \* [Friend -> the ids in its file at the start]: ids nobody claimed
  MaxInc,    \* bound: incarnations of one record
  MaxTries,  \* reconcile attempts of one claim (32 in the code)
  Crashers,  \* the calls that may die between two awaits
  NoFriend,
  NoExt

AllOps == {"claim", "update", "delete", "unlink", "link", "seat"}

ASSUME ClaimAssumption ==
  /\ Op \subseteq AllOps
  /\ Existing \subseteq Friend
  /\ Held \in [Friend -> SUBSET Ext]
  /\ \A f, g \in Existing : f # g => Held[f] \cap Held[g] = {}
  /\ NoFriend \notin Friend
  /\ NoExt \notin Ext
  /\ MaxInc \in Nat
  /\ MaxTries \in Nat

VARIABLES
  file,     \* [Friend -> its file: incarnation and ids, or Absent]
  lastInc,  \* [Friend -> the last incarnation minted for it]
  journal,  \* [Ext -> its claim journal, or NoClaim]
  me,       \* [Proc -> the call it runs: its locals and where it stands]
  granted   \* history: <<id, friend>> answered ok, not detached since

vars == <<file, lastInc, journal, me, granted>>

Absent  == [inc |-> 0, ids |-> {}]
NoClaim == [state |-> "none", friend |-> NoFriend, inc |-> 0, create |-> FALSE]

Idle ==
  [pc |-> "idle", op |-> "none", ext |-> NoExt, friend |-> NoFriend,
   create |-> FALSE,   \* target.kind = "create"
   jrn |-> NoClaim,    \* the journal as the call last read or wrote it
   todo |-> {},        \* directory entries still to visit
   found |-> {},       \* the friends a scan saw with the id
   cur |-> NoFriend,   \* the record in hand: its id,
   rec |-> Absent,     \*   its content,
   tgt |-> Absent,     \*   and the copy the call started from
   tries |-> 0]

Do(p, m) == me' = [me EXCEPT ![p] = m]

\* MUTANT: a record is read without its journals.
VisibleRaw(f, r) == r.ids

\* The ids record r of friend f is read with: its own and its journals'.
Visible(f, r) ==
  r.ids \cup {e \in Ext : /\ journal[e].state # "none"
                          /\ journal[e].friend = f
                          /\ journal[e].inc = r.inc}

Holders(e) == {f \in Friend : file[f] # Absent /\ e \in Visible(f, file[f])}

-----------------------------------------------------------------------------
Record  == [inc : Nat, ids : SUBSET Ext]
Journal == [state : {"none", "pending", "committed"}, friend : Friend \cup {NoFriend},
            inc : Nat, create : BOOLEAN]
Label   == {"idle", "list", "scan", "claims", "publish", "winner", "target",
            "reconcile", "merge", "write", "verify", "settle", "commit",
            "load", "act", "release", "detach", "put", "orphans"}

Call    ==
  [pc : Label, op : AllOps \cup {"none"}, ext : Ext \cup {NoExt},
   friend : Friend \cup {NoFriend}, create : BOOLEAN, jrn : Journal,
   todo : SUBSET Friend, found : SUBSET [f : Friend, rec : Record],
   cur : Friend \cup {NoFriend}, rec : Record, tgt : Record, tries : Nat]

TypeOK ==
  /\ file \in [Friend -> Record]
  /\ lastInc \in [Friend -> Nat]
  /\ journal \in [Ext -> Journal]
  /\ me \in [Proc -> Call]
  /\ granted \subseteq Ext \X Friend

Init ==
  /\ file = [f \in Friend |->
       IF f \in Existing THEN [inc |-> 1, ids |-> Held[f]] ELSE Absent]
  /\ lastInc = [f \in Friend |-> IF f \in Existing THEN 1 ELSE 0]
  /\ journal = [e \in Ext |-> NoClaim]
  /\ me = [p \in Proc |-> Idle]
  /\ granted = {}

-----------------------------------------------------------------------------
(* Starting a call: its first await is part of the step.                   *)

\* randomUUID(): an id that no file, journal or call knows.
Fresh(f) ==
  /\ file[f] = Absent
  /\ lastInc[f] < MaxInc
  /\ \A e \in Ext : journal[e].friend # f
  /\ \A p \in Proc : f \notin {me[p].friend, me[p].cur}

StartClaim(p, e, f, create) ==
  /\ me[p].pc = "idle" /\ "claim" \in Op
  /\ create => Fresh(f)
  /\ Do(p, [Idle EXCEPT !.pc = "list", !.op = "claim", !.ext = e, !.friend = f,
                        !.create = create, !.jrn = journal[e]])
  /\ UNCHANGED <<file, lastInc, journal, granted>>

\* The resolver seats a first imprint, the machine owner, a roster member or an
\* agent itself: findByExternalId, then put.
StartSeat(p, e, f) ==
  /\ me[p].pc = "idle" /\ "seat" \in Op
  /\ Fresh(f)
  /\ Do(p, [Idle EXCEPT !.pc = "list", !.op = "seat", !.ext = e, !.friend = f])
  /\ UNCHANGED <<file, lastInc, journal, granted>>

\* A call that begins with store.get(f).
StartLoad(p, op, e, f) ==
  /\ me[p].pc = "idle" /\ op \in Op \cap {"update", "unlink", "link"}
  /\ Do(p, [Idle EXCEPT !.pc = "load", !.op = op, !.ext = e, !.friend = f,
                        !.cur = f, !.rec = file[f]])
  /\ UNCHANGED <<file, lastInc, journal, granted>>

\* store.delete(f): the file goes, its journals stay.
Delete(p, f) ==
  /\ me[p].pc = "idle" /\ "delete" \in Op
  /\ file[f] # Absent
  /\ file' = [file EXCEPT ![f] = Absent]
  /\ granted' = {g \in granted : g[2] # f}
  /\ UNCHANGED <<lastInc, journal, me>>

End(p) == Do(p, Idle)

-----------------------------------------------------------------------------
(* Reading the directory: readdir, then each file and its journals.        *)

List(p) ==
  /\ me[p].pc = "list"
  /\ Do(p, [me[p] EXCEPT !.pc = "scan", !.todo = {f \in Friend : file[f] # Absent},
                          !.found = {}])
  /\ UNCHANGED <<file, lastInc, journal, granted>>

ScanFile(p) ==
  /\ me[p].pc = "scan"
  /\ \E f \in me[p].todo :
       Do(p, [me[p] EXCEPT !.pc = IF file[f] = Absent THEN "scan" ELSE "claims",
                           !.todo = @ \ {f}, !.cur = f, !.rec = file[f]])
  /\ UNCHANGED <<file, lastInc, journal, granted>>

ScanClaims(p) ==
  LET m == me[p]
      r == [m.rec EXCEPT !.ids = Visible(m.cur, m.rec)]
  IN  /\ m.pc = "claims"
      /\ Do(p, [m EXCEPT !.pc = "scan",
                         !.found = IF m.ext \in r.ids THEN @ \cup {[f |-> m.cur, rec |-> r]}
                                   ELSE @])
      /\ UNCHANGED <<file, lastInc, journal, granted>>

Scanned(p, op) == me[p].pc = "scan" /\ me[p].todo = {} /\ me[p].op = op

-----------------------------------------------------------------------------
(* claimExternalId after its scan.                                         *)

\* MUTANT: a pending journal is taken for a settled one.
AnswerFromScanPending(p) ==
  LET m == me[p]
  IN  /\ Scanned(p, "claim")
      /\ m.found # {}
      /\ granted' = granted \cup {<<m.ext, h.f>> : h \in m.found}
      /\ End(p)
      /\ UNCHANGED <<file, lastInc, journal>>

\* Answers from what it read, without touching the journal: the id is held and
\* no pending journal asks to be finished.  Two holders, or a holder that is not
\* the one the committed journal names, throw; a link to another friend is a
\* collision; the rest is already_claimed.
AnswerFromScan(p) ==
  LET m == me[p]
      named(h) == m.jrn.state = "none" \/ (h.f = m.jrn.friend /\ h.rec.inc = m.jrn.inc)
      ok(h)    == Cardinality(m.found) = 1 /\ named(h) /\ (m.create \/ h.f = m.friend)
  IN  /\ Scanned(p, "claim")
      /\ m.found # {}
      /\ Cardinality(m.found) > 1 \/ m.jrn.state # "pending"
      /\ granted' = granted \cup {<<m.ext, h.f>> : h \in {h \in m.found : ok(h)}}
      /\ End(p)
      /\ UNCHANGED <<file, lastInc, journal>>

\* MUTANT: the friends that hold the id already are not looked at.
RequestedUnscanned(p) ==
  LET m == me[p]
  IN  /\ Scanned(p, "claim")
      /\ IF file[m.friend] = Absent /\ ~ m.create
           THEN End(p)
           ELSE Do(p, [m EXCEPT !.pc = IF m.jrn.state = "none" THEN "publish" ELSE "target",
                                !.rec = file[m.friend]])
      /\ UNCHANGED <<file, lastInc, journal, granted>>

\* resolveRequestedTarget: a link needs the friend's file, a create proposes a
\* record of its own.  An existing journal is taken over as it is.
Requested(p) ==
  LET m == me[p]
  IN  /\ Scanned(p, "claim")
      /\ m.found = {} \/ (Cardinality(m.found) = 1 /\ m.jrn.state = "pending")
      /\ IF file[m.friend] = Absent /\ ~ m.create
           THEN End(p)
           ELSE Do(p, [m EXCEPT !.pc = IF m.jrn.state = "none" THEN "publish" ELSE "target",
                                !.rec = file[m.friend]])
      /\ UNCHANGED <<file, lastInc, journal, granted>>

\* MUTANT: the journal is written with a rename, which replaces a rival's.
PublishOverwrites(p) ==
  LET m   == me[p]
      inc == IF m.rec = Absent THEN lastInc[m.friend] + 1 ELSE m.rec.inc
      c   == [state |-> "pending", friend |-> m.friend, inc |-> inc, create |-> m.create]
  IN  /\ m.pc = "publish"
      /\ journal' = [journal EXCEPT ![m.ext] = c]
      /\ lastInc' = [lastInc EXCEPT ![m.friend] = IF m.rec = Absent THEN inc ELSE @]
      /\ Do(p, [m EXCEPT !.pc = "target", !.jrn = c])
      /\ UNCHANGED <<file, granted>>

\* MUTANT: a claim that lost the race goes on with its own proposal.
PublishIgnoresRival(p) ==
  LET m   == me[p]
      inc == IF m.rec = Absent THEN lastInc[m.friend] + 1 ELSE m.rec.inc
      c   == [state |-> "pending", friend |-> m.friend, inc |-> inc, create |-> m.create]
  IN  /\ m.pc = "publish"
      /\ journal' = [journal EXCEPT ![m.ext] = IF @.state = "none" THEN c ELSE @]
      /\ lastInc' = [lastInc EXCEPT ![m.friend] = IF m.rec = Absent THEN inc ELSE @]
      /\ Do(p, [m EXCEPT !.pc = "target", !.jrn = c])
      /\ UNCHANGED <<file, granted>>

\* createOrReadPendingClaim: link(temp, journal) fails with EEXIST when a rival
\* was first.
Publish(p) ==
  LET m   == me[p]
      inc == IF m.rec = Absent THEN lastInc[m.friend] + 1 ELSE m.rec.inc
      c   == [state |-> "pending", friend |-> m.friend, inc |-> inc, create |-> m.create]
  IN  /\ m.pc = "publish"
      /\ IF journal[m.ext].state = "none"
           THEN /\ journal' = [journal EXCEPT ![m.ext] = c]
                /\ lastInc' = [lastInc EXCEPT ![m.friend] = IF m.rec = Absent THEN inc ELSE @]
                /\ Do(p, [m EXCEPT !.pc = "target", !.jrn = c])
           ELSE Do(p, [m EXCEPT !.pc = "winner"]) /\ UNCHANGED <<journal, lastInc>>
      /\ UNCHANGED <<file, granted>>

\* The rival's journal is read; it throws when an unlink has removed it.
ReadWinner(p) ==
  LET m == me[p]
  IN  /\ m.pc = "winner"
      /\ IF journal[m.ext].state = "none" THEN End(p)
         ELSE Do(p, [m EXCEPT !.pc = "target", !.jrn = journal[m.ext]])
      /\ UNCHANGED <<file, lastInc, journal, granted>>

\* resolveJournalTarget: the friend the journal names, or the record a pending
\* create carries; not_found when there is neither, a throw when the
\* incarnation is another.
JournalTarget(p) ==
  LET m == me[p]
      r == IF file[m.jrn.friend] = Absent /\ m.jrn.state = "pending" /\ m.jrn.create
             THEN [inc |-> m.jrn.inc, ids |-> {}]
             ELSE [file[m.jrn.friend] EXCEPT !.ids = Visible(m.jrn.friend, file[m.jrn.friend])]
  IN  /\ m.pc = "target"
      /\ IF r.inc # m.jrn.inc THEN End(p)
         ELSE Do(p, [m EXCEPT !.pc = "reconcile", !.cur = m.jrn.friend, !.tgt = r])
      /\ UNCHANGED <<file, lastInc, journal, granted>>

\* reconcileClaimedExternalIds: read the record (or fall back to the target),
Reconcile(p) ==
  LET m == me[p]
      r == IF file[m.cur] = Absent THEN m.tgt ELSE file[m.cur]
  IN  /\ m.pc = "reconcile"
      /\ IF m.tries = MaxTries \/ r.inc # m.jrn.inc THEN End(p)
         ELSE Do(p, [m EXCEPT !.pc = "merge", !.rec = r])
      /\ UNCHANGED <<file, lastInc, journal, granted>>

\* add the ids of its journals,
MergeClaims(p) ==
  LET m == me[p]
  IN  /\ m.pc = "merge"
      /\ Do(p, [m EXCEPT !.pc = "write", !.rec.ids = Visible(m.cur, m.rec)])
      /\ UNCHANGED <<file, lastInc, journal, granted>>

\* replace the file,
Write(p) ==
  LET m == me[p]
  IN  /\ m.pc = "write"
      /\ file' = [file EXCEPT ![m.cur] = m.rec]
      /\ Do(p, [m EXCEPT !.pc = "verify"])
      /\ UNCHANGED <<lastInc, journal, granted>>

\* read it back,
Verify(p) ==
  LET m == me[p]
      r == file[m.cur]
  IN  /\ m.pc = "verify"
      /\ Do(p, [m EXCEPT !.pc = "settle",
                         !.rec = IF r = Absent THEN r ELSE [r EXCEPT !.ids = Visible(m.cur, r)]])
      /\ UNCHANGED <<file, lastInc, journal, granted>>

\* and start over unless every journal of the friend is in it by now.
Settle(p) ==
  LET m == me[p]
  IN  /\ m.pc = "settle"
      /\ Do(p, IF m.rec # Absent /\ Visible(m.cur, [m.tgt EXCEPT !.ids = {}]) \subseteq m.rec.ids
                 THEN [m EXCEPT !.pc = "commit"]
                 ELSE [m EXCEPT !.pc = "reconcile", !.tries = @ + 1])
      /\ UNCHANGED <<file, lastInc, journal, granted>>

\* commitClaimIndex: an unconditional rename over the journal; then the answer.
Commit(p) ==
  LET m == me[p]
  IN  /\ m.pc = "commit"
      /\ journal' = [journal EXCEPT ![m.ext] = [m.jrn EXCEPT !.state = "committed"]]
      /\ granted' = IF m.create \/ m.cur = m.friend
                      THEN granted \cup {<<m.ext, m.cur>>} ELSE granted
      /\ End(p)
      /\ UNCHANGED <<file, lastInc>>

-----------------------------------------------------------------------------
(* The calls that get a record, change it and put it back.                 *)

\* get(): the journals, after the file.
Loaded(p) ==
  LET m == me[p]
  IN  /\ m.pc = "load"
      /\ IF m.rec = Absent THEN End(p)
         ELSE Do(p, [m EXCEPT !.pc = "act", !.rec.ids = Visible(m.cur, m.rec)])
      /\ UNCHANGED <<file, lastInc, journal, granted>>

\* put() reads the file for its incarnation, and then replaces it.
Put(p, m, ids) ==
  Do(p, [m EXCEPT !.pc = "put", !.cur = m.friend,
                  !.rec = [inc |-> file[m.friend].inc, ids |-> ids]])

Update(p) ==
  /\ me[p].pc = "act" /\ me[p].op = "update"
  /\ Put(p, me[p], me[p].rec.ids)
  /\ UNCHANGED <<file, lastInc, journal, granted>>

\* unlinkExternalId releases the claim first: releaseExternalId reads the
\* journal, and removes whatever is there if it was this friend's.
Unlink(p) ==
  LET m == me[p]
  IN  /\ m.pc = "act" /\ m.op = "unlink"
      /\ IF m.ext \notin m.rec.ids THEN End(p)
         ELSE Do(p, [m EXCEPT !.jrn = journal[m.ext],
                              !.pc = IF journal[m.ext].friend = m.friend THEN "release"
                                     ELSE "detach"])
      /\ UNCHANGED <<file, lastInc, journal, granted>>

Release(p) ==
  /\ me[p].pc = "release"
  /\ journal' = [journal EXCEPT ![me[p].ext] = NoClaim]
  /\ Do(p, [me[p] EXCEPT !.pc = "detach"])
  /\ UNCHANGED <<file, lastInc, granted>>

Detach(p) ==
  /\ me[p].pc = "detach"
  /\ Put(p, me[p], me[p].rec.ids \ {me[p].ext})
  /\ UNCHANGED <<file, lastInc, journal, granted>>

\* linkExternalId looks for the records that hold the id already.
Link(p) ==
  /\ me[p].pc = "act" /\ me[p].op = "link"
  /\ Do(p, [me[p] EXCEPT !.pc = "list", !.tgt = me[p].rec])
  /\ UNCHANGED <<file, lastInc, journal, granted>>

Orphans(p) == {h \in me[p].found : h.f # me[p].friend}

\* Refused: the lookup is ambiguous, an orphan's standing needs the operator,
\* or a link already made has nothing left to merge.
LinkRefused(p) ==
  LET m == me[p]
  IN  /\ Scanned(p, "link")
      /\ m.ext \in m.tgt.ids \/ Orphans(p) # {}
      /\ End(p)
      /\ UNCHANGED <<file, lastInc, journal, granted>>

\* MUTANT: the orphan's other ids are not folded into the target.
LinkMergeDropsIds(p) ==
  LET m == me[p]
  IN  /\ Scanned(p, "link")
      /\ IF m.ext \in m.tgt.ids THEN Orphans(p) # {} ELSE Cardinality(m.found) <= 1
      /\ Put(p, [m EXCEPT !.todo = {h.f : h \in Orphans(p)}], m.tgt.ids \cup {m.ext})
      /\ UNCHANGED <<file, lastInc, journal, granted>>

\* The merged target is written before the orphans are deleted.
LinkMerge(p) ==
  LET m == me[p]
  IN  /\ Scanned(p, "link")
      /\ IF m.ext \in m.tgt.ids THEN Orphans(p) # {} ELSE Cardinality(m.found) <= 1
      /\ Put(p, [m EXCEPT !.todo = {h.f : h \in Orphans(p)}],
             m.tgt.ids \cup {m.ext} \cup UNION {h.rec.ids : h \in Orphans(p)})
      /\ UNCHANGED <<file, lastInc, journal, granted>>

DeleteOrphan(p) ==
  /\ me[p].pc = "orphans"
  /\ \E f \in me[p].todo :
       /\ file' = [file EXCEPT ![f] = Absent]
       /\ granted' = {g \in granted : g[2] # f}
       /\ Do(p, IF me[p].todo = {f} THEN Idle ELSE [me[p] EXCEPT !.todo = @ \ {f}])
  /\ UNCHANGED <<lastInc, journal>>

\* The resolver returns the friend it found; on none, and on an ambiguous
\* lookup, whose error it swallows, it puts a new one.
SeatFound(p) ==
  /\ Scanned(p, "seat")
  /\ Cardinality(me[p].found) = 1
  /\ End(p)
  /\ UNCHANGED <<file, lastInc, journal, granted>>

SeatNew(p) ==
  /\ Scanned(p, "seat")
  /\ Cardinality(me[p].found) # 1
  /\ Put(p, me[p], {me[p].ext})
  /\ UNCHANGED <<file, lastInc, journal, granted>>

\* put() replaces the file; a record that was not there gets an incarnation.
PutWrite(p) ==
  LET m   == me[p]
      inc == IF m.rec.inc = 0 THEN lastInc[m.cur] + 1 ELSE m.rec.inc
  IN  /\ m.pc = "put"
      /\ inc <= MaxInc
      /\ file' = [file EXCEPT ![m.cur] = [m.rec EXCEPT !.inc = inc]]
      /\ lastInc' = [lastInc EXCEPT ![m.cur] = IF m.rec.inc = 0 THEN inc ELSE @]
      /\ granted' = IF m.op = "unlink" THEN granted \ {<<m.ext, m.cur>>} ELSE granted
      /\ Do(p, IF m.op = "link" /\ m.todo # {} THEN [m EXCEPT !.pc = "orphans"] ELSE Idle)
      /\ UNCHANGED journal

\* The process dies, or the call fails, between two awaits.
Crash(p) ==
  /\ p \in Crashers
  /\ me[p].pc # "idle"
  /\ End(p)
  /\ UNCHANGED <<file, lastInc, journal, granted>>

-----------------------------------------------------------------------------
ClaimStep(p) ==
  \/ List(p) \/ ScanFile(p) \/ ScanClaims(p)
  \/ AnswerFromScan(p) \/ Requested(p)
  \/ Publish(p) \/ ReadWinner(p) \/ JournalTarget(p)
  \/ Reconcile(p) \/ MergeClaims(p) \/ Write(p)
  \/ Verify(p) \/ Settle(p) \/ Commit(p)

RecordStep(p) ==
  \/ Loaded(p) \/ Update(p)
  \/ Unlink(p) \/ Release(p) \/ Detach(p)
  \/ Link(p) \/ LinkRefused(p) \/ LinkMerge(p) \/ DeleteOrphan(p)
  \/ SeatFound(p) \/ SeatNew(p) \/ PutWrite(p)

Start(p) ==
  \E e \in Ext, f \in Friend :
    \/ \E create \in BOOLEAN : StartClaim(p, e, f, create)
    \/ StartSeat(p, e, f)
    \/ \E op \in {"update", "unlink", "link"} : StartLoad(p, op, e, f)
    \/ Delete(p, f)

Next == \E p \in Proc : Start(p) \/ ClaimStep(p) \/ RecordStep(p) \/ Crash(p)

Spec == Init /\ [][Next]_vars

\* Calls that do not die finish.
FairSpec == Spec /\ \A p \in Proc \ Crashers : WF_vars(ClaimStep(p) \/ RecordStep(p))

\* The id keeps arriving at a process that stays up, which claims it again for
\* a friend that exists.
RetrySpec ==
  /\ FairSpec
  /\ \A p \in Proc \ Crashers, e \in Ext :
       SF_vars(\E f \in Existing : StartClaim(p, e, f, FALSE))

-----------------------------------------------------------------------------
(* Properties.                                                             *)

\* findByExternalId never throws "ambiguously bound to multiple friends".
Unambiguous == \A e \in Ext : \A f, g \in Holders(e) : f = g

\* An id granted to a friend is read with that friend from then on, whatever
\* stale copies of the record are put back and whatever crashes.
GrantsHold == \A g \in granted : g[2] \in Holders(g[1])

\* The inductive invariant behind both, for stores that only claim and update.
\* Journals are written once and name a friend for good; whatever record a call
\* holds, old or new, has the ids it always had and ids bound to its friend; and
\* a call that is about to publish a journal has not missed a holder.
Real(e)    == journal[e].state # "none"
Present(f) == file[f] # Absent
Old(f)     == IF f \in Existing THEN Held[f] ELSE {}
Bound(e, f) == (Real(e) /\ journal[e].friend = f) \/ e \in Old(f)

Good(f, r) == r.inc = 1 /\ Old(f) \subseteq r.ids /\ \A e \in r.ids : Bound(e, f)

FilesGood ==
  /\ \A f \in Friend : Present(f) => Good(f, file[f])
  /\ \A f \in Existing : Present(f)

JournalsGood ==
  \A e \in Ext : Real(e) =>
    /\ journal[e].friend \in Friend
    /\ journal[e].inc = 1
    /\ \A f \in Existing : e \notin Held[f]
    /\ Present(journal[e].friend) \/ (journal[e].state = "pending" /\ journal[e].create)

Minted ==
  \A f \in Friend :
    /\ lastInc[f] \in {0, 1}
    /\ lastInc[f] = 1 <=> Present(f) \/ \E e \in Ext : Real(e) /\ journal[e].friend = f

Proposing(p) == me[p].create /\ me[p].pc \in {"list", "scan", "claims", "publish"}

ProposalsFresh ==
  \A p \in Proc : Proposing(p) =>
    /\ ~ Present(me[p].friend) /\ lastInc[me[p].friend] = 0
    /\ \A q \in Proc : Proposing(q) /\ me[q].friend = me[p].friend => q = p

\* A journal in hand is the one on disk, but for its state.
Current(m) ==
  /\ Real(m.ext)
  /\ m.jrn.friend = journal[m.ext].friend
  /\ m.jrn.inc = journal[m.ext].inc
  /\ m.jrn.create = journal[m.ext].create
  /\ m.jrn.state # "none"
  /\ m.jrn.state = "committed" => journal[m.ext].state = "committed"

ScanGood(m) ==
  /\ m.jrn.state # "none" => Current(m)
  /\ m.pc = "claims" => m.cur \in Friend /\ Present(m.cur) /\ Good(m.cur, m.rec)
  /\ m.pc \in {"scan", "claims"} =>
       /\ \A h \in m.found : Present(h.f) /\ Bound(m.ext, h.f)
       /\ \A f \in Existing : m.ext \in Held[f] =>
            f \in m.todo \/ (m.pc = "claims" /\ m.cur = f) \/ \E h \in m.found : h.f = f

PublishGood(m) ==
  /\ \A f \in Existing : m.ext \notin Held[f]
  /\ IF m.create THEN m.rec = Absent ELSE m.rec.inc = 1 /\ Present(m.friend)

CommitGood(m) ==
  /\ Current(m)
  /\ m.pc # "target" => m.cur = m.jrn.friend /\ Good(m.cur, m.tgt)
  /\ m.pc \in {"merge", "write"} => Good(m.cur, m.rec)
  /\ m.pc \in {"verify", "settle", "commit"} => Present(m.cur)

UpdateGood(m) ==
  /\ m.cur = m.friend
  /\ m.pc = "load" => m.rec = Absent \/ (Present(m.cur) /\ Good(m.cur, m.rec))
  /\ m.pc # "load" => Present(m.cur) /\ Good(m.cur, m.rec)

CallGood(m) ==
  \/ m.pc = "idle"
  \/ /\ m.ext \in Ext /\ m.friend \in Friend
     /\ \/ m.op = "claim" /\ m.pc \in {"list", "scan", "claims"} /\ ScanGood(m)
        \/ m.op = "claim" /\ m.pc = "publish" /\ PublishGood(m)
        \/ m.op = "claim" /\ m.pc = "winner" /\ Real(m.ext)
        \/ /\ m.op = "claim"
           /\ m.pc \in {"target", "reconcile", "merge", "write", "verify", "settle", "commit"}
           /\ CommitGood(m)
        \/ m.op = "update" /\ m.pc \in {"load", "act", "put"} /\ UpdateGood(m)

CallsGood == \A p \in Proc : CallGood(me[p])

GrantsGood == \A g \in granted : Present(g[2]) /\ Bound(g[1], g[2])

ClaimInv ==
  /\ TypeOK
  /\ FilesGood
  /\ JournalsGood
  /\ Minted
  /\ ProposalsFresh
  /\ CallsGood
  /\ GrantsGood

\* An id belongs to the friend its journal names; without a journal, to the
\* friend that has held it since before there were claims.
Owner(e) ==
  IF Real(e) THEN journal[e].friend
  ELSE IF \E f \in Existing : e \in Held[f] THEN CHOOSE f \in Existing : e \in Held[f]
  ELSE NoFriend

\* Claims and record updates, interleaved and crashed at will, bind each id once
\* and for good (store.ts: ExternalIdClaimStore).
Binding == INSTANCE IdentityBinding WITH owner <- [e \in Ext |-> Owner(e)]
ImplementsBinding == Binding!Spec

\* A claim that a crashed writer left pending is finished by the next one.
PendingSettles ==
  \A e \in Ext : journal[e].state = "pending" ~> journal[e].state = "committed"

\* A merge writes the target before it deletes the orphan: while nothing is
\* unlinked or deleted, an id that had a holder keeps one.
NoIdLost ==
  [][\A e \in Ext : Holders(e) # {} =>
       \/ Holders(e)' # {}
       \/ \E p \in Proc : me[p].op = "unlink" /\ me[p].ext = e
       \/ \E p \in Proc, f \in Friend : Delete(p, f)]_vars

\* When an unlink has succeeded, no journal of the id is left to bring it back.
UnlinkClearsJournal ==
  [][\A p \in Proc :
       me[p].pc = "put" /\ me[p].op = "unlink" /\ file' # file /\ me'[p].pc = "idle"
         => journal[me[p].ext].state = "none"]_vars
=============================================================================
