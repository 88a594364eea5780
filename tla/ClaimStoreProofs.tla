-------------------------- MODULE ClaimStoreProofs --------------------------
(***************************************************************************)
(* What holds of ClaimStore for every number of calls, friends and ids, in *)
(* a store whose calls claim ids and update records.                       *)
(***************************************************************************)
EXTENDS ClaimStore, TLAPS

ClaimsOnly == Op \subseteq {"claim", "update"}

\* What no such step takes back.
Keeps ==
  /\ \A f \in Friend : Present(f) => file'[f] # Absent
  /\ \A e \in Ext : Real(e) =>
       /\ journal'[e].state # "none"
       /\ journal'[e].friend = journal[e].friend
       /\ journal'[e].inc = journal[e].inc
       /\ journal'[e].create = journal[e].create
       /\ journal[e].state = "committed" => journal'[e].state = "committed"

\* A call that does not move stays good while nothing is taken back.
LEMMA OthersGood ==
  ASSUME TypeOK, JournalsGood, Keeps, NEW q \in Proc, me'[q] = me[q], CallGood(me[q])
  PROVE  CallGood(me[q])'
<1> DEFINE m == me[q]
<1>0. m \in Call
  BY DEF TypeOK
<1>a. me'[q] = m
  OBVIOUS
<1>b. ASSUME NEW e \in Ext, NEW f \in Friend, Bound(e, f)
      PROVE  (journal'[e].state # "none" /\ journal'[e].friend = f) \/ e \in Old(f)
  BY <1>b DEF Bound, Real, Keeps
<1>c. ASSUME NEW f \in Friend, NEW r \in Record, Good(f, r)
      PROVE  /\ r.inc = 1 /\ Old(f) \subseteq r.ids
             /\ \A e \in r.ids : (journal'[e].state # "none" /\ journal'[e].friend = f) \/ e \in Old(f)
  BY <1>b, <1>c DEF Good, Record
<1>d. ASSUME m.ext \in Ext, Current(m)
      PROVE  /\ journal'[m.ext].state # "none"
             /\ m.jrn.friend = journal'[m.ext].friend
             /\ m.jrn.inc = journal'[m.ext].inc
             /\ m.jrn.create = journal'[m.ext].create
             /\ m.jrn.state # "none"
             /\ m.jrn.state = "committed" => journal'[m.ext].state = "committed"
  BY <1>d DEF Current, Real, Keeps
<1>1. CASE m.pc = "idle"
  BY <1>1 DEF CallGood
<1>2. CASE m.op = "claim" /\ m.pc \in {"list", "scan", "claims"} /\ ScanGood(m)
                /\ m.ext \in Ext /\ m.friend \in Friend
  <2>1. m.jrn.state # "none" => Current(me[q])'
    BY <1>2, <1>a, <1>d DEF ScanGood, Current, Real
  <2>2. m.pc = "claims" => m.cur \in Friend /\ file'[m.cur] # Absent /\ Good(me[q].cur, me[q].rec)'
    BY <1>0, <1>2, <1>a, <1>c DEF ScanGood, Good, Bound, Real, Keeps, Call, Present
  <2>3. m.pc \in {"scan", "claims"} => \A h \in m.found : file'[h.f] # Absent /\ Bound(me[q].ext, h.f)'
    BY <1>0, <1>2, <1>a, <1>b DEF ScanGood, Bound, Real, Keeps, Call, Present
  <2>4. ScanGood(me[q])'
    BY <1>2, <1>a, <2>1, <2>2, <2>3 DEF ScanGood, Present
  <2> QED
    BY <1>2, <1>a, <2>4 DEF CallGood
<1>3. CASE m.op = "claim" /\ m.pc = "publish" /\ PublishGood(m)
                /\ m.ext \in Ext /\ m.friend \in Friend
  BY <1>0, <1>3 DEF CallGood, PublishGood, Present, Keeps, Call
<1>4. CASE m.op = "claim" /\ m.pc = "winner" /\ Real(m.ext)
                /\ m.ext \in Ext /\ m.friend \in Friend
  BY <1>0, <1>4 DEF CallGood, Real, Keeps, Call
<1>5. CASE /\ m.op = "claim" /\ m.ext \in Ext /\ m.friend \in Friend
           /\ m.pc \in {"target", "reconcile", "merge", "write", "verify", "settle", "commit"}
           /\ CommitGood(m)
  <2>0. m.pc # "target" => m.cur \in Friend
    BY <1>5 DEF CommitGood, Current, JournalsGood, Real
  <2>1. Current(me[q])'
    BY <1>5, <1>a, <1>d DEF CommitGood, Current, Real
  <2>2. m.pc # "target" => m.cur = m.jrn.friend /\ Good(me[q].cur, me[q].tgt)'
    BY <2>0, <1>0, <1>5, <1>a, <1>c DEF CommitGood, Good, Bound, Real, Call
  <2>3. m.pc \in {"merge", "write"} => Good(me[q].cur, me[q].rec)'
    BY <2>0, <1>0, <1>5, <1>a, <1>c DEF CommitGood, Good, Bound, Real, Call
  <2>4. m.pc \in {"verify", "settle", "commit"} => file'[m.cur] # Absent
    BY <2>0, <1>0, <1>5 DEF CommitGood, Keeps, Present, Call
  <2> QED
    BY <1>5, <1>a, <2>1, <2>2, <2>3, <2>4 DEF CallGood, CommitGood, Present
<1>6. CASE m.op = "update" /\ m.pc \in {"load", "act", "put"} /\ UpdateGood(m)
                /\ m.ext \in Ext /\ m.friend \in Friend
  <2>1. Good(me[q].cur, me[q].rec) => Good(me[q].cur, me[q].rec)'
    BY <1>0, <1>6, <1>a, <1>c DEF UpdateGood, Good, Bound, Real, Call
  <2> QED
    BY <1>0, <1>6, <1>a, <2>1 DEF CallGood, UpdateGood, Present, Keeps, Call
<1> QED
  BY <1>1, <1>2, <1>3, <1>4, <1>5, <1>6 DEF CallGood

-----------------------------------------------------------------------------
(* Steps that leave the disk alone.                                        *)

Early == {"list", "scan", "claims", "publish"}

\* A call that goes on to m, where m is good and proposes nothing new.
LEMMA QuietStep ==
  ASSUME ClaimInv, NEW p \in Proc, NEW m \in Call, Do(p, m),
         UNCHANGED <<file, lastInc, journal>>,
         CallGood(m),
         GrantsGood', granted' \subseteq Ext \X Friend,
         m.create /\ m.pc \in Early =>
           (Proposing(p) /\ m.friend = me[p].friend) \/ (m.friend \in Friend /\ Fresh(m.friend))
  PROVE  ClaimInv'
<1>1. me' = [me EXCEPT ![p] = m] /\ me \in [Proc -> Call]
  BY DEF Do, ClaimInv, TypeOK
<1>2. me'[p] = m /\ \A q \in Proc \ {p} : me'[q] = me[q]
  BY <1>1
<1>3. TypeOK'
  BY <1>1 DEF ClaimInv, TypeOK
<1>4. FilesGood' /\ JournalsGood' /\ Minted'
  BY DEF ClaimInv, FilesGood, JournalsGood, Minted, Good, Bound, Real, Present
<1>5. Keeps
  BY DEF Keeps, Present, Real
<1>6. ASSUME NEW q \in Proc PROVE CallGood(me[q])'
  <2>1. CASE q = p
    BY <1>2, <2>1 DEF CallGood, ScanGood, PublishGood, CommitGood, UpdateGood, Current,
                      Good, Bound, Real, Present
  <2>2. CASE q # p
    BY <1>2, <1>5, <2>2, OthersGood DEF ClaimInv, CallsGood
  <2> QED
    BY <2>1, <2>2
<1>7. ProposalsFresh'
  <2> SUFFICES ASSUME NEW q \in Proc, Proposing(q)'
               PROVE  /\ ~ Present(me'[q].friend) /\ lastInc[me'[q].friend] = 0
                      /\ \A r \in Proc : Proposing(r)' /\ me'[r].friend = me'[q].friend => r = q
    BY DEF ProposalsFresh, Present
  <2>1. \A r \in Proc : Proposing(r)' <=> me'[r].create /\ me'[r].pc \in Early
    BY DEF Proposing, Early
  <2>2. \A r \in Proc : Proposing(r) <=> me[r].create /\ me[r].pc \in Early
    BY DEF Proposing, Early
  <2>3. ASSUME NEW f \in Friend, Fresh(f)
        PROVE  ~ Present(f) /\ lastInc[f] = 0 /\ \A r \in Proc : me[r].friend # f
    BY <2>3 DEF Fresh, ClaimInv, Minted, Present
  <2> QED
    BY <1>2, <2>1, <2>2, <2>3 DEF ClaimInv, ProposalsFresh
<1> QED
  BY <1>3, <1>4, <1>6, <1>7 DEF ClaimInv, CallsGood

\* A call that ends.
LEMMA EndStep ==
  ASSUME ClaimInv, NEW p \in Proc, End(p), UNCHANGED <<file, lastInc, journal>>,
         GrantsGood', granted' \subseteq Ext \X Friend
  PROVE  ClaimInv'
<1>1. Idle \in Call /\ Idle.pc = "idle" /\ ~ Idle.create
  BY DEF Idle, Call, Label, NoClaim, Journal, Absent, Record, AllOps
<1>2. CallGood(Idle)
  BY <1>1 DEF CallGood
<1> QED
  BY <1>1, <1>2, QuietStep DEF End

\* Grants stay good while they and the disk are left alone.
LEMMA GrantsKept ==
  ASSUME ClaimInv, UNCHANGED <<file, journal, granted>>
  PROVE  GrantsGood' /\ granted' \subseteq Ext \X Friend
BY DEF ClaimInv, TypeOK, GrantsGood, Present, Bound, Real

LEMMA StartClaimGood ==
  ASSUME ClaimInv, ClaimAssumption, NEW p \in Proc, NEW e \in Ext, NEW f \in Friend,
         NEW create \in BOOLEAN, StartClaim(p, e, f, create)
  PROVE  ClaimInv'
<1> DEFINE m == [Idle EXCEPT !.pc = "list", !.op = "claim", !.ext = e, !.friend = f,
                             !.create = create, !.jrn = journal[e]]
<1>1. Do(p, m) /\ UNCHANGED <<file, lastInc, journal, granted>> /\ (create => Fresh(f))
  BY DEF StartClaim
<1>2. m \in Call /\ m.pc = "list" /\ m.op = "claim" /\ m.ext = e /\ m.friend = f
        /\ m.create = create /\ m.jrn = journal[e]
  BY DEF Idle, Call, Label, NoClaim, Journal, Absent, Record, AllOps, ClaimInv, TypeOK
<1>3. CallGood(m)
  BY <1>2 DEF CallGood, ScanGood, Current, Real
<1> QED
  BY <1>1, <1>2, <1>3, GrantsKept, QuietStep

LEMMA StartLoadGood ==
  ASSUME ClaimInv, ClaimsOnly, NEW p \in Proc, NEW op \in {"update", "unlink", "link"},
         NEW e \in Ext, NEW f \in Friend, StartLoad(p, op, e, f)
  PROVE  ClaimInv'
<1> DEFINE m == [Idle EXCEPT !.pc = "load", !.op = op, !.ext = e, !.friend = f,
                             !.cur = f, !.rec = file[f]]
<1>1. Do(p, m) /\ UNCHANGED <<file, lastInc, journal, granted>> /\ op = "update"
  BY DEF StartLoad, ClaimsOnly
<1>2. m \in Call /\ m.pc = "load" /\ m.op = "update" /\ m.ext = e /\ m.friend = f
        /\ m.cur = f /\ m.rec = file[f] /\ ~ m.create
  BY <1>1 DEF Idle, Call, Label, NoClaim, Journal, Absent, Record, AllOps, ClaimInv, TypeOK
<1>3. m.rec = Absent \/ (Present(m.cur) /\ Good(m.cur, m.rec))
  BY <1>2 DEF ClaimInv, FilesGood, Present
<1>4. CallGood(m)
  BY <1>2, <1>3 DEF CallGood, UpdateGood
<1> QED
  BY <1>1, <1>2, <1>4, GrantsKept, QuietStep

-----------------------------------------------------------------------------
(* The scan.                                                               *)

\* What a call at one of the claim's labels satisfies.
LEMMA CallFacts ==
  ASSUME ClaimInv, NEW p \in Proc
  PROVE  /\ me[p] \in Call
         /\ CallGood(me[p])
         /\ me[p].pc # "idle" => me[p].ext \in Ext /\ me[p].friend \in Friend
         /\ me[p].pc \in {"list", "scan", "claims"} => me[p].op = "claim" /\ ScanGood(me[p])
         /\ me[p].pc = "publish" => me[p].op = "claim" /\ PublishGood(me[p])
         /\ me[p].pc = "winner" => me[p].op = "claim" /\ Real(me[p].ext)
         /\ me[p].pc \in {"target", "reconcile", "merge", "write", "verify", "settle", "commit"}
              => me[p].op = "claim" /\ CommitGood(me[p])
         /\ me[p].pc \in {"load", "act", "put"} => me[p].op = "update" /\ UpdateGood(me[p])
         /\ me[p].pc \notin {"release", "detach", "orphans"}
<1>1. me[p] \in Call /\ CallGood(me[p])
  BY DEF ClaimInv, TypeOK, CallsGood
<1> QED
  BY <1>1 DEF CallGood

LEMMA ListGood ==
  ASSUME ClaimInv, ClaimAssumption, NEW p \in Proc, List(p)
  PROVE  ClaimInv'
<1> DEFINE m == [me[p] EXCEPT !.pc = "scan", !.todo = {f \in Friend : file[f] # Absent},
                              !.found = {}]
<1>1. Do(p, m) /\ UNCHANGED <<file, lastInc, journal, granted>> /\ me[p].pc = "list"
  BY DEF List
<1>0. me[p] \in Call /\ me[p].op = "claim" /\ me[p].ext \in Ext /\ me[p].friend \in Friend
        /\ ScanGood(me[p])
  BY <1>1, CallFacts
<1>2. m \in Call /\ m.pc = "scan" /\ m.op = "claim" /\ m.ext = me[p].ext
        /\ m.friend = me[p].friend /\ m.create = me[p].create /\ m.jrn = me[p].jrn
        /\ m.found = {} /\ m.todo = {f \in Friend : file[f] # Absent}
        /\ m.ext \in Ext /\ m.friend \in Friend
  BY <1>0 DEF Call, Label
<1> HIDE DEF m
<1>3. ScanGood(m)
  BY <1>0, <1>1, <1>2
     DEF ScanGood, Current, ClaimInv, FilesGood, Present, ClaimAssumption
<1>4. CallGood(m)
  BY <1>2, <1>3 DEF CallGood
<1>5. Proposing(p) <=> me[p].create
  BY <1>1 DEF Proposing
<1> QED
  BY <1>1, <1>2, <1>4, <1>5, GrantsKept, QuietStep

\* Reading a record with its journals keeps it good.
LEMMA VisibleGood ==
  ASSUME ClaimInv, NEW f \in Friend, NEW r \in Record, Good(f, r)
  PROVE  /\ [r EXCEPT !.ids = Visible(f, r)] \in Record
         /\ Good(f, [r EXCEPT !.ids = Visible(f, r)])
         /\ \A e \in Visible(f, r) : Bound(e, f)
<1>1. Visible(f, r) \subseteq Ext
  BY DEF Visible, Record
<1>2. \A e \in Visible(f, r) : Bound(e, f)
  BY DEF Visible, Good, Bound, Real
<1>3. r.ids \subseteq Visible(f, r)
  BY DEF Visible
<1>4. /\ [r EXCEPT !.ids = Visible(f, r)] \in Record
      /\ [r EXCEPT !.ids = Visible(f, r)].inc = r.inc
      /\ [r EXCEPT !.ids = Visible(f, r)].ids = Visible(f, r)
  BY <1>1 DEF Record
<1> QED
  BY <1>2, <1>3, <1>4 DEF Good

LEMMA ScanFileGood ==
  ASSUME ClaimInv, ClaimAssumption, NEW p \in Proc, ScanFile(p)
  PROVE  ClaimInv'
<1>0. PICK f \in me[p].todo :
        Do(p, [me[p] EXCEPT !.pc = IF file[f] = Absent THEN "scan" ELSE "claims",
                            !.todo = @ \ {f}, !.cur = f, !.rec = file[f]])
  BY DEF ScanFile
<1>1. UNCHANGED <<file, lastInc, journal, granted>> /\ me[p].pc = "scan"
  BY DEF ScanFile
<1> DEFINE m == [me[p] EXCEPT !.pc = IF file[f] = Absent THEN "scan" ELSE "claims",
                              !.todo = @ \ {f}, !.cur = f, !.rec = file[f]]
<1>2. me[p] \in Call /\ me[p].op = "claim" /\ me[p].ext \in Ext /\ me[p].friend \in Friend
        /\ ScanGood(me[p])
  BY <1>1, CallFacts
<1>3. f \in Friend /\ file[f] \in Record
  BY <1>2 DEF Call, ClaimInv, TypeOK
<1>4. m \in Call /\ m.op = "claim" /\ m.ext = me[p].ext
        /\ m.friend = me[p].friend /\ m.create = me[p].create /\ m.jrn = me[p].jrn
        /\ m.found = me[p].found /\ m.todo = me[p].todo \ {f}
        /\ m.cur = f /\ m.rec = file[f]
        /\ m.pc = IF file[f] = Absent THEN "scan" ELSE "claims"
  BY <1>2, <1>3 DEF Call, Label
<1>5. Do(p, m)
  BY <1>0
<1> HIDE DEF m
<1>6. file[f] = Absent => f \notin Existing
  BY <1>3 DEF ClaimInv, FilesGood, Present
<1>7. file[f] # Absent => Good(f, file[f])
  BY <1>3 DEF ClaimInv, FilesGood, Present
<1>8. m.jrn.state # "none" => Current(m)
  BY <1>1, <1>2, <1>4 DEF ScanGood, Current
<1>9. ScanGood(m)
  BY <1>1, <1>2, <1>3, <1>4, <1>6, <1>7, <1>8 DEF ScanGood, Present
<1>10. CallGood(m)
  BY <1>2, <1>4, <1>9 DEF CallGood
<1>11. Proposing(p) <=> me[p].create
  BY <1>1 DEF Proposing
<1> QED
  BY <1>1, <1>4, <1>5, <1>10, <1>11, GrantsKept, QuietStep

LEMMA ScanClaimsGood ==
  ASSUME ClaimInv, ClaimAssumption, NEW p \in Proc, ScanClaims(p)
  PROVE  ClaimInv'
<1> DEFINE n == me[p]
           r == [n.rec EXCEPT !.ids = Visible(n.cur, n.rec)]
           m == [n EXCEPT !.pc = "scan",
                          !.found = IF n.ext \in r.ids THEN @ \cup {[f |-> n.cur, rec |-> r]}
                                    ELSE @]
<1>1. Do(p, m) /\ UNCHANGED <<file, lastInc, journal, granted>> /\ n.pc = "claims"
  BY DEF ScanClaims
<1>2. n \in Call /\ n.op = "claim" /\ n.ext \in Ext /\ n.friend \in Friend /\ ScanGood(n)
  BY <1>1, CallFacts
<1>3. n.cur \in Friend /\ n.rec \in Record /\ Present(n.cur) /\ Good(n.cur, n.rec)
  BY <1>1, <1>2 DEF ScanGood, Call
<1>4. r \in Record /\ r.ids = Visible(n.cur, n.rec) /\ \A e \in r.ids : Bound(e, n.cur)
  BY <1>3, VisibleGood DEF Record
<1>5. n.cur \in Existing => Held[n.cur] \subseteq r.ids
  BY <1>3, <1>4 DEF Good, Old, Visible
<1> HIDE DEF r
<1> DEFINE h0  == [f |-> n.cur, rec |-> r]
           fnd == IF n.ext \in r.ids THEN n.found \cup {h0} ELSE n.found
<1>a. h0 \in [f : Friend, rec : Record] /\ h0.f = n.cur
  BY <1>3, <1>4
<1>b. fnd \in SUBSET [f : Friend, rec : Record]
  BY <1>2, <1>a DEF Call
<1>c. m = [n EXCEPT !.pc = "scan", !.found = fnd]
  OBVIOUS
<1> HIDE DEF m, h0
<1> HIDE DEF fnd
<1>6. m \in Call /\ m.op = "claim" /\ m.ext = n.ext /\ m.pc = "scan"
        /\ m.friend = n.friend /\ m.create = n.create /\ m.jrn = n.jrn
        /\ m.found = fnd /\ m.todo = n.todo
  BY <1>2, <1>b, <1>c DEF Call, Label
<1>7. m.jrn.state # "none" => Current(m)
  BY <1>1, <1>2, <1>6 DEF ScanGood, Current
<1>8. \A h \in m.found : Present(h.f) /\ Bound(m.ext, h.f)
  BY <1>1, <1>2, <1>3, <1>4, <1>6, <1>a DEF ScanGood, fnd
<1>9. \A f \in Existing : m.ext \in Held[f] => f \in m.todo \/ \E h \in m.found : h.f = f
  BY <1>1, <1>2, <1>5, <1>6, <1>a DEF ScanGood, fnd
<1>10. ScanGood(m)
  BY <1>6, <1>7, <1>8, <1>9 DEF ScanGood
<1>11. CallGood(m)
  BY <1>2, <1>6, <1>10 DEF CallGood
<1>12. Proposing(p) <=> me[p].create
  BY <1>1 DEF Proposing
<1> QED
  BY <1>1, <1>6, <1>11, <1>12, GrantsKept, QuietStep

LEMMA AnswerFromScanGood ==
  ASSUME ClaimInv, NEW p \in Proc, AnswerFromScan(p)
  PROVE  ClaimInv'
<1>1. End(p) /\ UNCHANGED <<file, lastInc, journal>> /\ me[p].pc = "scan"
  BY DEF AnswerFromScan, Scanned
<1>2. me[p] \in Call /\ me[p].ext \in Ext /\ ScanGood(me[p])
  BY <1>1, CallFacts
<1>3. granted' \subseteq granted \cup {<<me[p].ext, h.f>> : h \in me[p].found}
  BY DEF AnswerFromScan
<1>4. \A h \in me[p].found : h.f \in Friend /\ Present(h.f) /\ Bound(me[p].ext, h.f)
  BY <1>1, <1>2 DEF ScanGood, Call
<1>5. \A g \in granted' : g \in Ext \X Friend /\ Present(g[2]) /\ Bound(g[1], g[2])
  BY <1>2, <1>3, <1>4 DEF ClaimInv, GrantsGood, TypeOK
<1>6. GrantsGood'
  BY <1>1, <1>5 DEF GrantsGood, Present, Bound, Real
<1> QED
  BY <1>1, <1>5, <1>6, EndStep

-----------------------------------------------------------------------------
(* Between the scan and the commit.                                        *)

LEMMA RequestedGood ==
  ASSUME ClaimInv, NEW p \in Proc, Requested(p)
  PROVE  ClaimInv'
<1> DEFINE n == me[p]
           m == [n EXCEPT !.pc = IF n.jrn.state = "none" THEN "publish" ELSE "target",
                          !.rec = file[n.friend]]
<1>1. UNCHANGED <<file, lastInc, journal, granted>> /\ n.pc = "scan" /\ n.todo = {}
        /\ (n.found = {} \/ n.jrn.state = "pending")
  BY DEF Requested, Scanned
<1>2. n \in Call /\ n.op = "claim" /\ n.ext \in Ext /\ n.friend \in Friend /\ ScanGood(n)
  BY <1>1, CallFacts
<1>3. CASE file[n.friend] = Absent /\ ~ n.create
  BY <1>1, <1>3, EndStep, GrantsKept DEF Requested
<1>4. CASE Present(n.friend) \/ n.create
  <2>1. Do(p, m)
    BY <1>4 DEF Requested, Present
  <2>2. m \in Call /\ m.op = "claim" /\ m.ext = n.ext /\ m.friend = n.friend
          /\ m.create = n.create /\ m.jrn = n.jrn /\ m.rec = file[n.friend]
          /\ m.pc = IF n.jrn.state = "none" THEN "publish" ELSE "target"
    BY <1>2 DEF Call, Label, ClaimInv, TypeOK
  <2> HIDE DEF m
  <2>3. CASE n.jrn.state = "none"
    <3>1. \A f \in Existing : m.ext \notin Held[f]
      BY <1>1, <1>2, <2>2, <2>3 DEF ScanGood
    <3>2. n.create => file[n.friend] = Absent
      BY <1>1, <1>2 DEF ClaimInv, ProposalsFresh, Proposing, Present
    <3>3. ~ n.create => Present(n.friend) /\ file[n.friend].inc = 1
      BY <1>2, <1>4 DEF ClaimInv, FilesGood, Good
    <3>4. PublishGood(m)
      BY <2>2, <3>1, <3>2, <3>3 DEF PublishGood
    <3>5. CallGood(m)
      BY <1>2, <2>2, <2>3, <3>4 DEF CallGood
    <3>6. Proposing(p) <=> n.create
      BY <1>1 DEF Proposing
    <3> QED
      BY <1>1, <2>1, <2>2, <3>5, <3>6, GrantsKept, QuietStep
  <2>4. CASE n.jrn.state # "none"
    <3>1. CommitGood(m)
      BY <1>2, <2>2, <2>4 DEF CommitGood, ScanGood, Current
    <3>2. CallGood(m)
      BY <1>2, <2>2, <2>4, <3>1 DEF CallGood
    <3> QED
      BY <1>1, <2>1, <2>2, <2>4, <3>2, GrantsKept, QuietStep DEF Early
  <2> QED
    BY <2>3, <2>4
<1> QED
  BY <1>3, <1>4 DEF Present

LEMMA ReadWinnerGood ==
  ASSUME ClaimInv, NEW p \in Proc, ReadWinner(p)
  PROVE  ClaimInv'
<1> DEFINE n == me[p]
           m == [n EXCEPT !.pc = "target", !.jrn = journal[n.ext]]
<1>1. UNCHANGED <<file, lastInc, journal, granted>> /\ n.pc = "winner"
  BY DEF ReadWinner
<1>2. n \in Call /\ n.op = "claim" /\ n.ext \in Ext /\ n.friend \in Friend /\ Real(n.ext)
  BY <1>1, CallFacts
<1>3. Do(p, m)
  BY <1>2 DEF ReadWinner, Real
<1>4. m \in Call /\ m.op = "claim" /\ m.ext = n.ext /\ m.friend = n.friend
        /\ m.jrn = journal[n.ext] /\ m.pc = "target"
  BY <1>2 DEF Call, Label, ClaimInv, TypeOK
<1> HIDE DEF m
<1>5. CommitGood(m)
  BY <1>2, <1>4 DEF CommitGood, Current, Real
<1>6. CallGood(m)
  BY <1>2, <1>4, <1>5 DEF CallGood
<1> QED
  BY <1>1, <1>3, <1>4, <1>6, GrantsKept, QuietStep DEF Early

\* The record a call reconciles is a friend's, with incarnation 1 and ids of its own.
LEMMA CommitFacts ==
  ASSUME ClaimInv, NEW p \in Proc,
         me[p].pc \in {"target", "reconcile", "merge", "write", "verify", "settle", "commit"}
  PROVE  /\ me[p] \in Call /\ me[p].op = "claim" /\ me[p].ext \in Ext /\ me[p].friend \in Friend
         /\ CommitGood(me[p])
         /\ me[p].jrn.friend \in Friend /\ me[p].jrn.inc = 1
         /\ journal[me[p].ext].friend = me[p].jrn.friend
         /\ journal[me[p].ext].inc = 1
         /\ Bound(me[p].ext, me[p].jrn.friend)
<1>1. /\ me[p] \in Call /\ me[p].op = "claim" /\ me[p].ext \in Ext /\ me[p].friend \in Friend
      /\ CommitGood(me[p])
  BY CallFacts
<1>2. Current(me[p])
  BY <1>1 DEF CommitGood
<1>3. Real(me[p].ext) /\ me[p].jrn.friend = journal[me[p].ext].friend
        /\ me[p].jrn.inc = journal[me[p].ext].inc
  BY <1>2 DEF Current
<1> QED
  BY <1>1, <1>3 DEF ClaimInv, JournalsGood, Bound

LEMMA JournalTargetGood ==
  ASSUME ClaimInv, NEW p \in Proc, JournalTarget(p)
  PROVE  ClaimInv'
<1> DEFINE n == me[p]
           g == n.jrn.friend
           r == IF file[g] = Absent /\ n.jrn.state = "pending" /\ n.jrn.create
                  THEN [inc |-> n.jrn.inc, ids |-> {}]
                  ELSE [file[g] EXCEPT !.ids = Visible(g, file[g])]
           m == [n EXCEPT !.pc = "reconcile", !.cur = g, !.tgt = r]
<1>1. UNCHANGED <<file, lastInc, journal, granted>> /\ n.pc = "target"
        /\ (r.inc # n.jrn.inc => End(p)) /\ (r.inc = n.jrn.inc => Do(p, m))
  BY DEF JournalTarget
<1>2. n \in Call /\ n.op = "claim" /\ n.ext \in Ext /\ n.friend \in Friend /\ CommitGood(n)
        /\ g \in Friend /\ n.jrn.inc = 1
  BY <1>1, CommitFacts
<1>3. CASE r.inc # n.jrn.inc
  BY <1>1, <1>3, EndStep, GrantsKept
<1>4. CASE r.inc = n.jrn.inc
  <2>3. r \in Record /\ Good(g, r)
    <3>1. CASE file[g] = Absent /\ n.jrn.state = "pending" /\ n.jrn.create
      <4>1. r = [inc |-> n.jrn.inc, ids |-> {}]
        BY <3>1
      <4>2. g \notin Existing
        BY <3>1 DEF ClaimInv, FilesGood, Present
      <4> HIDE DEF r
      <4> QED
        BY <1>2, <4>1, <4>2 DEF Good, Record, Old
    <3>2. CASE ~ (file[g] = Absent /\ n.jrn.state = "pending" /\ n.jrn.create)
      <4>1. r = [file[g] EXCEPT !.ids = Visible(g, file[g])]
        BY <3>2
      <4>2. file[g] \in Record
        BY <1>2 DEF ClaimInv, TypeOK
      <4>3. r.inc = file[g].inc
        BY <4>1, <4>2 DEF Record
      <4>4. Present(g)
        BY <1>2, <1>4, <4>3 DEF Present, Absent
      <4>5. Good(g, file[g])
        BY <1>2, <4>4 DEF ClaimInv, FilesGood
      <4> QED
        BY <1>2, <4>1, <4>2, <4>5, VisibleGood
    <3> QED
      BY <3>1, <3>2
  <2> HIDE DEF r
  <2>4. m \in Call /\ m.op = "claim" /\ m.ext = n.ext /\ m.friend = n.friend
          /\ m.jrn = n.jrn /\ m.pc = "reconcile" /\ m.cur = g /\ m.tgt = r
    BY <1>2, <2>3 DEF Call, Label
  <2>5. Do(p, m)
    BY <1>1, <1>4
  <2> HIDE DEF m
  <2>6. CommitGood(m)
    BY <1>2, <2>3, <2>4 DEF CommitGood, Current
  <2>7. CallGood(m)
    BY <1>2, <2>4, <2>6 DEF CallGood
  <2> QED
    BY <1>1, <2>4, <2>5, <2>7, GrantsKept, QuietStep DEF Early
<1> QED
  BY <1>3, <1>4

LEMMA ReconcileGood ==
  ASSUME ClaimInv, NEW p \in Proc, Reconcile(p)
  PROVE  ClaimInv'
<1> DEFINE n == me[p]
           r == IF file[n.cur] = Absent THEN n.tgt ELSE file[n.cur]
           m == [n EXCEPT !.pc = "merge", !.rec = r]
           bad == n.tries = MaxTries \/ r.inc # n.jrn.inc
<1>1. UNCHANGED <<file, lastInc, journal, granted>> /\ n.pc = "reconcile"
        /\ (bad => End(p)) /\ (~ bad => Do(p, m))
  BY DEF Reconcile
<1>2. n \in Call /\ n.op = "claim" /\ n.ext \in Ext /\ n.friend \in Friend /\ CommitGood(n)
        /\ n.cur \in Friend /\ n.cur = n.jrn.friend /\ Good(n.cur, n.tgt)
  BY <1>1, CommitFacts DEF CommitGood
<1>3. CASE bad
  BY <1>1, <1>3, EndStep, GrantsKept
<1>4. CASE ~ bad
  <2>1. r \in Record /\ Good(n.cur, r)
    BY <1>2 DEF ClaimInv, TypeOK, FilesGood, Present, Call
  <2>2. Do(p, m)
    BY <1>1, <1>4
  <2> HIDE DEF r
  <2>3. m \in Call /\ m.op = "claim" /\ m.ext = n.ext /\ m.friend = n.friend
          /\ m.jrn = n.jrn /\ m.pc = "merge" /\ m.cur = n.cur /\ m.tgt = n.tgt /\ m.rec = r
    BY <1>2, <2>1 DEF Call, Label
  <2> HIDE DEF m
  <2>4. CommitGood(m)
    BY <1>2, <2>1, <2>3 DEF CommitGood, Current
  <2>5. CallGood(m)
    BY <1>2, <2>3, <2>4 DEF CallGood
  <2> QED
    BY <1>1, <2>2, <2>3, <2>5, GrantsKept, QuietStep DEF Early
<1> QED
  BY <1>3, <1>4

LEMMA MergeClaimsGood ==
  ASSUME ClaimInv, NEW p \in Proc, MergeClaims(p)
  PROVE  ClaimInv'
<1> DEFINE n == me[p]
           r == [n.rec EXCEPT !.ids = Visible(n.cur, n.rec)]
           m == [n EXCEPT !.pc = "write", !.rec.ids = Visible(n.cur, n.rec)]
<1>1. Do(p, m) /\ UNCHANGED <<file, lastInc, journal, granted>> /\ n.pc = "merge"
  BY DEF MergeClaims
<1>2. n \in Call /\ n.op = "claim" /\ n.ext \in Ext /\ n.friend \in Friend /\ CommitGood(n)
        /\ n.cur \in Friend /\ n.cur = n.jrn.friend /\ Good(n.cur, n.rec) /\ n.rec \in Record
  BY <1>1, CommitFacts DEF CommitGood, Call
<1>3. r \in Record /\ Good(n.cur, r)
  BY <1>2, VisibleGood
<1>4. m = [n EXCEPT !.pc = "write", !.rec = r]
  BY <1>2 DEF Call
<1> HIDE DEF m
<1> HIDE DEF r
<1>5. m \in Call /\ m.op = "claim" /\ m.ext = n.ext /\ m.friend = n.friend
        /\ m.jrn = n.jrn /\ m.pc = "write" /\ m.cur = n.cur /\ m.tgt = n.tgt /\ m.rec = r
  BY <1>2, <1>3, <1>4 DEF Call, Label
<1>6. CommitGood(m)
  BY <1>1, <1>2, <1>3, <1>5 DEF CommitGood, Current
<1>7. CallGood(m)
  BY <1>2, <1>5, <1>6 DEF CallGood
<1> QED
  BY <1>1, <1>5, <1>7, GrantsKept, QuietStep DEF Early

LEMMA VerifyGood ==
  ASSUME ClaimInv, NEW p \in Proc, Verify(p)
  PROVE  ClaimInv'
<1> DEFINE n == me[p]
           f == file[n.cur]
           r == IF f = Absent THEN f ELSE [f EXCEPT !.ids = Visible(n.cur, f)]
           m == [n EXCEPT !.pc = "settle", !.rec = r]
<1>1. Do(p, m) /\ UNCHANGED <<file, lastInc, journal, granted>> /\ n.pc = "verify"
  BY DEF Verify
<1>2. n \in Call /\ n.op = "claim" /\ n.ext \in Ext /\ n.friend \in Friend /\ CommitGood(n)
        /\ n.cur \in Friend /\ Present(n.cur)
  BY <1>1, CommitFacts DEF CommitGood
<1>3. f \in Record /\ Good(n.cur, f)
  BY <1>2 DEF ClaimInv, TypeOK, FilesGood
<1>4. r \in Record
  BY <1>2, <1>3, VisibleGood
<1> HIDE DEF r
<1>5. m \in Call /\ m.op = "claim" /\ m.ext = n.ext /\ m.friend = n.friend
        /\ m.jrn = n.jrn /\ m.pc = "settle" /\ m.cur = n.cur /\ m.tgt = n.tgt
  BY <1>2, <1>4 DEF Call, Label
<1> HIDE DEF m
<1>6. CommitGood(m)
  BY <1>1, <1>2, <1>5 DEF CommitGood, Current
<1>7. CallGood(m)
  BY <1>2, <1>5, <1>6 DEF CallGood
<1> QED
  BY <1>1, <1>5, <1>7, GrantsKept, QuietStep DEF Early

LEMMA SettleGood ==
  ASSUME ClaimInv, NEW p \in Proc, Settle(p)
  PROVE  ClaimInv'
<1> DEFINE n == me[p]
           settled == n.rec # Absent /\ Visible(n.cur, [n.tgt EXCEPT !.ids = {}]) \subseteq n.rec.ids
           m == IF settled THEN [n EXCEPT !.pc = "commit"]
                ELSE [n EXCEPT !.pc = "reconcile", !.tries = @ + 1]
<1>1. Do(p, m) /\ UNCHANGED <<file, lastInc, journal, granted>> /\ n.pc = "settle"
  BY DEF Settle
<1>2. n \in Call /\ n.op = "claim" /\ n.ext \in Ext /\ n.friend \in Friend /\ CommitGood(n)
        /\ Present(n.cur)
  BY <1>1, CommitFacts DEF CommitGood
<1> HIDE DEF settled
<1>3. m \in Call /\ m.op = "claim" /\ m.ext = n.ext /\ m.friend = n.friend
        /\ m.jrn = n.jrn /\ m.pc \in {"reconcile", "commit"} /\ m.cur = n.cur /\ m.tgt = n.tgt
  <2>1. CASE settled
    BY <1>2, <2>1 DEF Call, Label
  <2>2. CASE ~ settled
    <3>1. n.tries + 1 \in Nat
      BY <1>2 DEF Call
    <3>2. m = [n EXCEPT !.pc = "reconcile", !.tries = n.tries + 1]
      BY <2>2
    <3> HIDE DEF m
    <3> QED
      BY <1>2, <3>1, <3>2 DEF Call, Label
  <2> QED
    BY <2>1, <2>2
<1> HIDE DEF m
<1>4. CommitGood(m)
  BY <1>1, <1>2, <1>3 DEF CommitGood, Current
<1>5. CallGood(m)
  BY <1>2, <1>3, <1>4 DEF CallGood
<1> QED
  BY <1>1, <1>3, <1>5, GrantsKept, QuietStep DEF Early

-----------------------------------------------------------------------------
(* Updates, up to the write.                                               *)

LEMMA LoadedGood ==
  ASSUME ClaimInv, NEW p \in Proc, Loaded(p)
  PROVE  ClaimInv'
<1> DEFINE n == me[p]
           r == [n.rec EXCEPT !.ids = Visible(n.cur, n.rec)]
           m == [n EXCEPT !.pc = "act", !.rec.ids = Visible(n.cur, n.rec)]
<1>1. UNCHANGED <<file, lastInc, journal, granted>> /\ n.pc = "load"
        /\ (n.rec = Absent => End(p)) /\ (n.rec # Absent => Do(p, m))
  BY DEF Loaded
<1>2. n \in Call /\ n.op = "update" /\ n.ext \in Ext /\ n.friend \in Friend /\ UpdateGood(n)
        /\ n.cur = n.friend /\ n.rec \in Record
  BY <1>1, CallFacts DEF UpdateGood, Call
<1>3. CASE n.rec = Absent
  BY <1>1, <1>3, EndStep, GrantsKept
<1>4. CASE n.rec # Absent
  <2>1. Present(n.cur) /\ Good(n.cur, n.rec)
    BY <1>1, <1>2, <1>4 DEF UpdateGood
  <2>2. r \in Record /\ Good(n.cur, r)
    BY <1>2, <2>1, VisibleGood
  <2>3. m = [n EXCEPT !.pc = "act", !.rec = r]
    BY <1>2 DEF Call
  <2>4. Do(p, m)
    BY <1>1, <1>4
  <2> HIDE DEF m
  <2> HIDE DEF r
  <2>5. m \in Call /\ m.op = "update" /\ m.ext = n.ext /\ m.friend = n.friend
          /\ m.pc = "act" /\ m.cur = n.cur /\ m.rec = r
    BY <1>2, <2>2, <2>3 DEF Call, Label
  <2>6. CallGood(m)
    BY <1>2, <2>1, <2>2, <2>5 DEF CallGood, UpdateGood
  <2> QED
    BY <1>1, <2>4, <2>5, <2>6, GrantsKept, QuietStep DEF Early
<1> QED
  BY <1>3, <1>4

LEMMA UpdateGoodStep ==
  ASSUME ClaimInv, NEW p \in Proc, Update(p)
  PROVE  ClaimInv'
<1> DEFINE n == me[p]
           r == [inc |-> file[n.friend].inc, ids |-> n.rec.ids]
           m == [n EXCEPT !.pc = "put", !.cur = n.friend, !.rec = r]
<1>1. Do(p, m) /\ UNCHANGED <<file, lastInc, journal, granted>> /\ n.pc = "act"
  BY DEF Update, Put
<1>2. n \in Call /\ n.op = "update" /\ n.ext \in Ext /\ n.friend \in Friend
        /\ n.cur = n.friend /\ n.rec \in Record /\ Present(n.friend) /\ Good(n.friend, n.rec)
  BY <1>1, CallFacts DEF UpdateGood, Call
<1>3. file[n.friend].inc = 1
  BY <1>2 DEF ClaimInv, FilesGood, Good
<1>4. r \in Record /\ Good(n.friend, r)
  BY <1>2, <1>3 DEF Good, Record
<1> HIDE DEF r
<1>5. m \in Call /\ m.op = "update" /\ m.ext = n.ext /\ m.friend = n.friend
        /\ m.pc = "put" /\ m.cur = n.friend /\ m.rec = r
  BY <1>2, <1>4 DEF Call, Label
<1> HIDE DEF m
<1>6. CallGood(m)
  BY <1>2, <1>4, <1>5 DEF CallGood, UpdateGood
<1> QED
  BY <1>1, <1>5, <1>6, GrantsKept, QuietStep DEF Early

-----------------------------------------------------------------------------
(* The steps that write.                                                   *)

\* What a writing step owes: nothing is taken back, the disk stays good, and
\* the call that took it is good after it.
LEMMA WriteStep ==
  ASSUME ClaimInv, NEW p \in Proc, NEW m \in Call, Do(p, m), Keeps,
         file' \in [Friend -> Record], lastInc' \in [Friend -> Nat],
         journal' \in [Ext -> Journal], granted' \subseteq Ext \X Friend,
         FilesGood', JournalsGood', Minted', GrantsGood', CallGood(me[p])',
         ~ (m.create /\ m.pc \in Early),
         \A q \in Proc \ {p} : Proposing(q) =>
           file'[me[q].friend] = file[me[q].friend] /\ lastInc'[me[q].friend] = lastInc[me[q].friend]
  PROVE  ClaimInv'
<1>1. me' = [me EXCEPT ![p] = m] /\ me \in [Proc -> Call]
  BY DEF Do, ClaimInv, TypeOK
<1>2. me'[p] = m /\ \A q \in Proc \ {p} : me'[q] = me[q]
  BY <1>1
<1>3. TypeOK'
  BY <1>1 DEF ClaimInv, TypeOK
<1>4. ASSUME NEW q \in Proc PROVE CallGood(me[q])'
  <2>1. CASE q # p
    BY <1>2, <2>1, OthersGood DEF ClaimInv, CallsGood
  <2> QED
    BY <2>1
<1>5. \A q \in Proc : Proposing(q)' => q # p /\ Proposing(q)
  BY <1>2 DEF Proposing, Early
<1>6. ProposalsFresh'
  BY <1>2, <1>5 DEF ClaimInv, ProposalsFresh, Present
<1> QED
  BY <1>3, <1>4, <1>6 DEF ClaimInv, CallsGood

LEMMA WriteGood ==
  ASSUME ClaimInv, ClaimAssumption, NEW p \in Proc, Write(p)
  PROVE  ClaimInv'
<1> DEFINE n == me[p]
           m == [n EXCEPT !.pc = "verify"]
<1>1. Do(p, m) /\ UNCHANGED <<lastInc, journal, granted>> /\ n.pc = "write"
        /\ file' = [file EXCEPT ![n.cur] = n.rec]
  BY DEF Write
<1>2. n \in Call /\ n.op = "claim" /\ n.ext \in Ext /\ n.friend \in Friend /\ CommitGood(n)
        /\ n.cur \in Friend /\ n.cur = n.jrn.friend /\ Good(n.cur, n.rec) /\ n.rec \in Record
        /\ Real(n.ext) /\ journal[n.ext].friend = n.cur
  BY <1>1, CommitFacts DEF CommitGood, Current, Call
<1>3. file \in [Friend -> Record]
  BY DEF ClaimInv, TypeOK
<1>4. file' \in [Friend -> Record] /\ file'[n.cur] = n.rec
        /\ \A f \in Friend \ {n.cur} : file'[f] = file[f]
  BY <1>1, <1>2, <1>3
<1>5. n.rec # Absent
  BY <1>2 DEF Good, Absent
<1>6. Keeps
  BY <1>1, <1>4, <1>5 DEF Keeps, Present, Real
<1>7. FilesGood'
  BY <1>1, <1>2, <1>4, <1>5 DEF ClaimInv, FilesGood, Good, Bound, Real, Present
<1>8. JournalsGood'
  BY <1>1, <1>4, <1>5 DEF ClaimInv, JournalsGood, Real, Present
<1>9. Minted'
  BY <1>1, <1>2, <1>4, <1>5 DEF ClaimInv, Minted, Real, Present
<1>10. GrantsGood' /\ granted' \subseteq Ext \X Friend
  BY <1>1, <1>4, <1>5 DEF ClaimInv, TypeOK, GrantsGood, Bound, Real, Present
<1>11. m \in Call /\ m.op = "claim" /\ m.ext = n.ext /\ m.friend = n.friend
        /\ m.jrn = n.jrn /\ m.pc = "verify" /\ m.cur = n.cur /\ m.tgt = n.tgt
  BY <1>2 DEF Call, Label
<1> HIDE DEF m
<1>12. me'[p] = m
  BY <1>1 DEF Do, ClaimInv, TypeOK
<1>13. CallGood(me[p])'
  <2>1. Current(me[p])'
    BY <1>1, <1>2, <1>11, <1>12 DEF CommitGood, Current, Real
  <2>2. Good(me[p].cur, me[p].tgt)'
    BY <1>1, <1>2, <1>11, <1>12 DEF CommitGood, Good, Bound, Real
  <2>3. CommitGood(me[p])'
    BY <1>2, <1>4, <1>5, <1>11, <1>12, <2>1, <2>2 DEF CommitGood, Present
  <2> QED
    BY <1>2, <1>11, <1>12, <2>3 DEF CallGood
<1>14. \A q \in Proc : Proposing(q) => me[q].friend # n.cur /\ me[q].friend \in Friend
  <2> SUFFICES ASSUME NEW q \in Proc, Proposing(q)
               PROVE me[q].friend # n.cur /\ me[q].friend \in Friend
    OBVIOUS
  <2>1. lastInc[me[q].friend] = 0
    BY DEF ClaimInv, ProposalsFresh
  <2>2. lastInc[n.cur] = 1
    BY <1>2 DEF ClaimInv, Minted
  <2>3. me[q].friend \in Friend
    BY CallFacts DEF Proposing
  <2> QED
    BY <2>1, <2>2, <2>3
<1> QED
  BY <1>1, <1>3, <1>4, <1>6, <1>7, <1>8, <1>9, <1>10, <1>11, <1>13, <1>14, WriteStep
     DEF ClaimInv, TypeOK, Early

LEMMA CommitGoodStep ==
  ASSUME ClaimInv, ClaimAssumption, NEW p \in Proc, Commit(p)
  PROVE  ClaimInv'
<1> DEFINE n == me[p]
           c == [n.jrn EXCEPT !.state = "committed"]
<1>1. Do(p, Idle) /\ UNCHANGED <<file, lastInc>> /\ n.pc = "commit"
        /\ journal' = [journal EXCEPT ![n.ext] = c]
        /\ granted' \subseteq granted \cup {<<n.ext, n.cur>>}
  BY DEF Commit, End
<1>2. n \in Call /\ n.ext \in Ext /\ CommitGood(n) /\ Current(n)
        /\ n.cur \in Friend /\ n.cur = n.jrn.friend /\ n.jrn.inc = 1 /\ Present(n.cur)
        /\ Real(n.ext)
  BY <1>1, CommitFacts DEF CommitGood, Current
<1>3. c \in Journal /\ c.state = "committed" /\ c.friend = n.cur /\ c.inc = 1
        /\ c.create = n.jrn.create
  BY <1>2 DEF Call, Journal
<1>4. journal' \in [Ext -> Journal] /\ journal'[n.ext] = c
        /\ \A e \in Ext \ {n.ext} : journal'[e] = journal[e]
  BY <1>1, <1>2, <1>3 DEF ClaimInv, TypeOK
<1> HIDE DEF c
<1>5. journal[n.ext].friend = n.cur /\ journal[n.ext].inc = 1
        /\ journal[n.ext].create = c.create
  BY <1>2, <1>3 DEF Current
<1>6. Keeps
  BY <1>1, <1>2, <1>3, <1>4, <1>5 DEF Keeps, Present, Real
<1>7. \A e \in Ext, f \in Friend : Bound(e, f) <=> Bound(e, f)'
  BY <1>2, <1>3, <1>4, <1>5 DEF Bound, Real
<1>8. FilesGood'
  BY <1>1, <1>2, <1>3, <1>4, <1>5 DEF ClaimInv, TypeOK, Record, FilesGood, Good, Bound, Real, Present
<1>9. JournalsGood'
  BY <1>1, <1>2, <1>3, <1>4 DEF ClaimInv, JournalsGood, Real, Present
<1>10. Minted'
  BY <1>1, <1>2, <1>3, <1>4, <1>5 DEF ClaimInv, Minted, Real, Present
<1>11. GrantsGood' /\ granted' \subseteq Ext \X Friend
  BY <1>1, <1>2, <1>3, <1>4, <1>5 DEF ClaimInv, TypeOK, GrantsGood, Bound, Real, Present
<1>12. Idle \in Call /\ Idle.pc = "idle" /\ ~ Idle.create
  BY DEF Idle, Call, Label, NoClaim, Journal, Absent, Record, AllOps
<1>13. CallGood(me[p])'
  BY <1>1, <1>12 DEF CallGood, Do, ClaimInv, TypeOK
<1> QED
  BY <1>1, <1>4, <1>6, <1>8, <1>9, <1>10, <1>11, <1>12, <1>13, WriteStep
     DEF ClaimInv, TypeOK

LEMMA PutWriteGood ==
  ASSUME ClaimInv, ClaimAssumption, NEW p \in Proc, PutWrite(p)
  PROVE  ClaimInv'
<1> DEFINE n == me[p]
<1>1. n.pc = "put" /\ UNCHANGED journal
  BY DEF PutWrite
<1>2. n \in Call /\ n.op = "update" /\ n.cur \in Friend /\ n.rec \in Record
        /\ Present(n.cur) /\ Good(n.cur, n.rec) /\ n.rec.inc = 1
  BY <1>1, CallFacts DEF UpdateGood, Call, Good
<1>3. Do(p, Idle) /\ UNCHANGED granted
        /\ file' = [file EXCEPT ![n.cur] = [n.rec EXCEPT !.inc = 1]]
        /\ lastInc' = [lastInc EXCEPT ![n.cur] = lastInc[n.cur]]
  BY <1>2 DEF PutWrite
<1>4. [n.rec EXCEPT !.inc = 1] = n.rec
  BY <1>2 DEF Record
<1>5. file' \in [Friend -> Record] /\ file'[n.cur] = n.rec /\ lastInc' = lastInc
        /\ \A f \in Friend \ {n.cur} : file'[f] = file[f]
  BY <1>2, <1>3, <1>4 DEF ClaimInv, TypeOK
<1>6. n.rec # Absent
  BY <1>2 DEF Absent
<1>7. Keeps
  BY <1>1, <1>5, <1>6 DEF Keeps, Present, Real
<1>8. FilesGood'
  BY <1>1, <1>2, <1>5, <1>6 DEF ClaimInv, FilesGood, Good, Bound, Real, Present
<1>9. JournalsGood'
  BY <1>1, <1>5, <1>6 DEF ClaimInv, JournalsGood, Real, Present
<1>10. Minted'
  BY <1>1, <1>2, <1>5, <1>6 DEF ClaimInv, Minted, Real, Present
<1>11. GrantsGood' /\ granted' \subseteq Ext \X Friend
  BY <1>1, <1>3, <1>5, <1>6 DEF ClaimInv, TypeOK, GrantsGood, Bound, Real, Present
<1>12. Idle \in Call /\ Idle.pc = "idle" /\ ~ Idle.create
  BY DEF Idle, Call, Label, NoClaim, Journal, Absent, Record, AllOps
<1>13. CallGood(me[p])'
  BY <1>3, <1>12 DEF CallGood, Do, ClaimInv, TypeOK
<1>14. \A q \in Proc : Proposing(q) => me[q].friend # n.cur /\ me[q].friend \in Friend
  BY <1>2, CallFacts DEF Proposing, ClaimInv, ProposalsFresh
<1>15. journal \in [Ext -> Journal] /\ lastInc \in [Friend -> Nat]
  BY DEF ClaimInv, TypeOK
<1> QED
  BY <1>1, <1>3, <1>5, <1>7, <1>8, <1>9, <1>10, <1>11, <1>12, <1>13, <1>14, <1>15, WriteStep

LEMMA PublishGoodStep ==
  ASSUME ClaimInv, ClaimAssumption, NEW p \in Proc, Publish(p)
  PROVE  ClaimInv'
<1> DEFINE n == me[p]
           inc == IF n.rec = Absent THEN lastInc[n.friend] + 1 ELSE n.rec.inc
           c == [state |-> "pending", friend |-> n.friend, inc |-> inc, create |-> n.create]
           m == [n EXCEPT !.pc = "target", !.jrn = c]
           w == [n EXCEPT !.pc = "winner"]
<1>1. n.pc = "publish" /\ UNCHANGED <<file, granted>>
  BY DEF Publish
<1>2. n \in Call /\ n.op = "claim" /\ n.ext \in Ext /\ n.friend \in Friend /\ PublishGood(n)
  BY <1>1, CallFacts
<1>3. CASE Real(n.ext)
  <2>1. Do(p, w) /\ UNCHANGED <<lastInc, journal>>
    BY <1>3 DEF Publish, Real
  <2>2. w \in Call /\ w.pc = "winner" /\ w.op = "claim" /\ w.ext = n.ext /\ w.friend = n.friend
    BY <1>2 DEF Call, Label
  <2> HIDE DEF w
  <2>3. CallGood(w)
    BY <1>2, <1>3, <2>2 DEF CallGood
  <2> QED
    BY <1>1, <2>1, <2>2, <2>3, GrantsKept, QuietStep DEF Early
<1>4. CASE ~ Real(n.ext)
  <2>1. Do(p, m) /\ journal' = [journal EXCEPT ![n.ext] = c]
          /\ lastInc' = [lastInc EXCEPT ![n.friend] = IF n.rec = Absent THEN inc ELSE @]
    BY <1>4 DEF Publish, Real
  <2>2. /\ n.create => n.rec = Absent /\ ~ Present(n.friend) /\ lastInc[n.friend] = 0
        /\ ~ n.create => n.rec.inc = 1 /\ Present(n.friend) /\ lastInc[n.friend] = 1
    BY <1>1, <1>2 DEF PublishGood, ClaimInv, ProposalsFresh, Proposing, Minted
  <2>3. inc = 1 /\ (n.rec = Absent <=> n.create)
    BY <1>2, <2>2 DEF Absent, Call
  <2>4. c \in Journal /\ c.state = "pending" /\ c.friend = n.friend /\ c.inc = 1
          /\ c.create = n.create
    BY <1>2, <2>3 DEF Call, Journal
  <2>5. lastInc' \in [Friend -> Nat] /\ lastInc'[n.friend] = 1
          /\ \A f \in Friend \ {n.friend} : lastInc'[f] = lastInc[f]
    BY <1>2, <2>1, <2>2, <2>3 DEF ClaimInv, TypeOK
  <2> HIDE DEF inc
  <2>6. journal' \in [Ext -> Journal] /\ journal'[n.ext] = c
          /\ \A e \in Ext \ {n.ext} : journal'[e] = journal[e]
    BY <1>2, <2>1, <2>4 DEF ClaimInv, TypeOK
  <2>7. m \in Call /\ m.pc = "target" /\ m.op = "claim" /\ m.ext = n.ext
          /\ m.friend = n.friend /\ m.jrn = c
    BY <1>2, <2>4 DEF Call, Label
  <2> HIDE DEF c, m
  <2>8. Keeps
    BY <1>1, <1>4, <2>6 DEF Keeps, Present, Real
  <2>9. FilesGood'
    BY <1>1, <1>4, <2>6 DEF ClaimInv, TypeOK, Record, FilesGood, Good, Bound, Real, Present
  <2>10. JournalsGood'
    BY <1>1, <1>2, <2>2, <2>4, <2>6 DEF ClaimInv, JournalsGood, PublishGood, Real, Present
  <2>11. Minted'
    BY <1>1, <1>2, <1>4, <2>2, <2>4, <2>5, <2>6 DEF ClaimInv, Minted, Real, Present
  <2>12. GrantsGood' /\ granted' \subseteq Ext \X Friend
    BY <1>1, <1>4, <2>6 DEF ClaimInv, TypeOK, GrantsGood, Bound, Real, Present
  <2>13. me'[p] = m
    BY <2>1 DEF Do, ClaimInv, TypeOK
  <2>14. CallGood(me[p])'
    BY <1>2, <2>4, <2>6, <2>7, <2>13 DEF CallGood, CommitGood, Current, Real
  <2>15. \A q \in Proc \ {p} : Proposing(q) => lastInc'[me[q].friend] = lastInc[me[q].friend]
    <3> SUFFICES ASSUME NEW q \in Proc \ {p}, Proposing(q)
                 PROVE lastInc'[me[q].friend] = lastInc[me[q].friend]
      OBVIOUS
    <3>1. me[q].friend \in Friend
      BY CallFacts DEF Proposing
    <3>2. CASE n.create
      <4>1. Proposing(p)
        BY <1>1, <3>2 DEF Proposing
      <4>2. me[q].friend # n.friend
        BY <4>1 DEF ClaimInv, ProposalsFresh
      <4> QED
        BY <2>5, <3>1, <4>2
    <3>3. CASE ~ n.create
      <4>1. lastInc'[n.friend] = lastInc[n.friend]
        BY <2>2, <2>5, <3>3
      <4> QED
        BY <2>5, <3>1, <4>1
    <3> QED
      BY <1>2, <3>2, <3>3 DEF Call
  <2>16. file \in [Friend -> Record]
    BY DEF ClaimInv, TypeOK
  <2> QED
    BY <1>1, <2>1, <2>5, <2>6, <2>7, <2>8, <2>9, <2>10, <2>11, <2>12, <2>14, <2>15, <2>16,
       WriteStep DEF Early
<1> QED
  BY <1>3, <1>4

-----------------------------------------------------------------------------
(* The theorems.                                                           *)

LEMMA InitGood == ASSUME ClaimAssumption, Init PROVE ClaimInv
<1>1. TypeOK
  BY DEF Init, TypeOK, ClaimAssumption, Record, Absent, Journal, NoClaim, Call, Idle, Label, AllOps
<1>2. FilesGood
  BY DEF Init, FilesGood, Good, Bound, Old, Present, Absent, ClaimAssumption
<1>3. \A e \in Ext : ~ Real(e)
  BY DEF Init, Real, NoClaim
<1>4. JournalsGood /\ Minted
  BY <1>3 DEF Init, JournalsGood, Minted, Present, Absent
<1>5. \A p \in Proc : me[p] = Idle
  BY DEF Init
<1>6. ProposalsFresh /\ CallsGood
  BY <1>5 DEF ProposalsFresh, Proposing, CallsGood, CallGood, Idle
<1>7. GrantsGood
  BY DEF Init, GrantsGood
<1> QED
  BY <1>1, <1>2, <1>4, <1>6, <1>7 DEF ClaimInv

LEMMA StepGood ==
  ASSUME ClaimInv, ClaimAssumption, ClaimsOnly, [Next]_vars
  PROVE  ClaimInv'
<1>1. CASE UNCHANGED vars
  BY <1>1 DEF vars, ClaimInv, TypeOK, FilesGood, JournalsGood, Minted, ProposalsFresh, Proposing,
       CallsGood, CallGood, ScanGood, PublishGood, CommitGood, UpdateGood, GrantsGood, Current,
       Good, Bound, Real, Present
<1>2. ASSUME NEW p \in Proc, Start(p) PROVE ClaimInv'
  <2>1. ASSUME NEW e \in Ext, NEW f \in Friend, NEW create \in BOOLEAN, StartClaim(p, e, f, create)
        PROVE  ClaimInv'
    BY <2>1, StartClaimGood
  <2>2. ASSUME NEW e \in Ext, NEW f \in Friend, NEW op \in {"update", "unlink", "link"},
               StartLoad(p, op, e, f)
        PROVE  ClaimInv'
    BY <2>2, StartLoadGood
  <2> QED
    BY <1>2, <2>1, <2>2 DEF Start, StartSeat, Delete, ClaimsOnly
<1>3. ASSUME NEW p \in Proc, ClaimStep(p) PROVE ClaimInv'
  BY <1>3, ListGood, ScanFileGood, ScanClaimsGood, AnswerFromScanGood, RequestedGood,
     PublishGoodStep, ReadWinnerGood, JournalTargetGood, ReconcileGood, MergeClaimsGood,
     WriteGood, VerifyGood, SettleGood, CommitGoodStep DEF ClaimStep
<1>4. ASSUME NEW p \in Proc, RecordStep(p) PROVE ClaimInv'
  <2>1. /\ me[p].pc \notin {"release", "detach", "orphans"}
        /\ me[p].pc \in {"scan", "load", "act", "put"} => me[p].op \in {"claim", "update"}
        /\ me[p].pc = "scan" => me[p].op = "claim"
        /\ me[p].pc = "act" => me[p].op = "update"
    BY CallFacts
  <2>2. Loaded(p) \/ Update(p) \/ PutWrite(p)
    BY <1>4, <2>1 DEF RecordStep, Unlink, Release, Detach, Link, LinkRefused, LinkMerge,
                      DeleteOrphan, SeatFound, SeatNew, Scanned
  <2> QED
    BY <2>2, LoadedGood, UpdateGoodStep, PutWriteGood
<1>5. ASSUME NEW p \in Proc, Crash(p) PROVE ClaimInv'
  BY <1>5, EndStep, GrantsKept DEF Crash
<1> QED
  BY <1>1, <1>2, <1>3, <1>4, <1>5 DEF Next

\* Whatever claims and updates interleave and crash, journals, files, calls and
\* grants stay consistent (src/store-file.ts, claimExternalId and put).
THEOREM ClaimsInductive == ASSUME ClaimsOnly PROVE Spec => []ClaimInv
<1>1. Init => ClaimInv
  BY InitGood, ClaimAssumption
<1>2. ClaimInv /\ [Next]_vars => ClaimInv'
  BY StepGood, ClaimAssumption
<1> QED
  BY <1>1, <1>2, PTL DEF Spec

\* A holder is the friend the id is bound to, and there is one.
LEMMA HoldersBound ==
  ASSUME ClaimInv, NEW e \in Ext, NEW f \in Friend
  PROVE  f \in Holders(e) <=> Present(f) /\ Bound(e, f)
<1>1. CASE Present(f)
  <2>1. Good(f, file[f])
    BY <1>1 DEF ClaimInv, FilesGood
  <2>2. Real(e) => journal[e].inc = 1
    BY DEF ClaimInv, JournalsGood
  <2> QED
    BY <1>1, <2>1, <2>2 DEF Holders, Visible, Good, Bound, Real, Present
<1> QED
  BY <1>1 DEF Holders, Present

\* No external id is ever read with two friends.
THEOREM NeverAmbiguous == ASSUME ClaimsOnly PROVE Spec => []Unambiguous
<1>1. ClaimInv => Unambiguous
  <2> SUFFICES ASSUME ClaimInv, NEW e \in Ext, NEW f \in Holders(e), NEW g \in Holders(e)
               PROVE  f = g
    BY DEF Unambiguous
  <2>1. f \in Friend /\ g \in Friend
    BY DEF Holders
  <2>2. Bound(e, f) /\ Bound(e, g)
    BY <2>1, HoldersBound
  <2>3. Real(e) => \A h \in Existing : e \notin Held[h]
    BY DEF ClaimInv, JournalsGood
  <2> QED
    BY <2>2, <2>3, ClaimAssumption DEF Bound, Old, ClaimAssumption
<1> QED
  BY <1>1, ClaimsInductive, PTL

\* A friend to whom a claim answered an id is read with it ever after.
THEOREM GrantsAreDurable == ASSUME ClaimsOnly PROVE Spec => []GrantsHold
<1>1. ClaimInv => GrantsHold
  <2> SUFFICES ASSUME ClaimInv, NEW g \in granted PROVE g[2] \in Holders(g[1])
    BY DEF GrantsHold
  <2>1. g[1] \in Ext /\ g[2] \in Friend
    BY DEF ClaimInv, TypeOK
  <2>2. Present(g[2]) /\ Bound(g[1], g[2])
    BY DEF ClaimInv, GrantsGood
  <2> QED
    BY <2>1, <2>2, HoldersBound
<1> QED
  BY <1>1, ClaimsInductive, PTL

-----------------------------------------------------------------------------
(* Refinement: claims and updates bind each id once.                       *)

LEMMA BoundIsOwner ==
  ASSUME ClaimInv, ClaimAssumption, NEW e \in Ext, NEW f \in Friend, Bound(e, f)
  PROVE  Owner(e) = f
<1>1. CASE Real(e)
  BY <1>1 DEF ClaimInv, JournalsGood, Bound, Old, Owner
<1>2. CASE ~ Real(e)
  <2>1. f \in Existing /\ e \in Held[f]
    BY <1>2 DEF Bound, Old
  <2> DEFINE g == CHOOSE g \in Existing : e \in Held[g]
  <2>2. g \in Existing /\ e \in Held[g]
    BY <2>1
  <2>3. g = f
    BY <2>1, <2>2 DEF ClaimAssumption
  <2> QED
    BY <1>2, <2>1, <2>3 DEF Owner
<1> QED
  BY <1>1, <1>2

\* While no journal appears or changes its friend, nobody's owner changes.
LEMMA OwnersKept ==
  ASSUME \A e \in Ext : (Real(e) <=> journal'[e].state # "none")
                        /\ (Real(e) => journal'[e].friend = journal[e].friend)
  PROVE  UNCHANGED [e \in Ext |-> Owner(e)]
<1>1. \A e \in Ext : Owner(e)' = Owner(e)
  BY DEF Owner, Real
<1> QED
  BY <1>1

LEMMA GrantStep ==
  ASSUME ClaimInv, ClaimAssumption, NEW e \in Ext, NEW f \in Friend, Bound(e, f),
         UNCHANGED [x \in Ext |-> Owner(x)],
         granted' = granted \cup {<<e, f>>}
  PROVE  Binding!Next
<1>1. Owner(e) = f
  BY BoundIsOwner
<1>2. Binding!Grant(e)
  BY <1>1 DEF Binding!Grant
<1> QED
  BY <1>2 DEF Binding!Next

LEMMA PublishBinds ==
  ASSUME ClaimInv, ClaimAssumption, NEW p \in Proc, Publish(p)
  PROVE  [Binding!Next]_<<[e \in Ext |-> Owner(e)], granted>>
<1> DEFINE n == me[p]
           own == [x \in Ext |-> Owner(x)]
<1>1. n.pc = "publish" /\ UNCHANGED granted
  BY DEF Publish
<1>2. n.ext \in Ext /\ n.friend \in Friend /\ PublishGood(n) /\ n.op = "claim"
  BY <1>1, CallFacts
<1>3. CASE Real(n.ext)
  <2>1. UNCHANGED journal
    BY <1>3 DEF Publish, Real
  <2>2. UNCHANGED own
    BY <2>1, OwnersKept DEF Real
  <2> QED
    BY <1>1, <2>2
<1>4. CASE ~ Real(n.ext)
  <2>1. PICK e \in Ext, f \in Friend : e = n.ext /\ f = n.friend
    BY <1>2
  <2>2. /\ journal'[e].state = "pending" /\ journal'[e].friend = f
        /\ \A x \in Ext \ {e} : journal'[x] = journal[x]
    BY <1>4, <2>1 DEF Publish, Real, ClaimInv, TypeOK
  <2>3. Owner(e) = NoFriend
    BY <1>2, <1>4, <2>1 DEF Owner, PublishGood
  <2>4. Owner(e)' = f
    BY <2>2 DEF Owner, Real
  <2>5. \A x \in Ext \ {e} : Owner(x)' = Owner(x)
    BY <2>2 DEF Owner, Real
  <2>6. own' = [own EXCEPT ![e] = f]
    BY <2>4, <2>5
  <2>7. Binding!Bind(e, f)
    BY <1>1, <2>3, <2>6 DEF Binding!Bind
  <2> QED
    BY <2>7 DEF Binding!Next
<1> QED
  BY <1>3, <1>4

LEMMA CommitGrants ==
  ASSUME ClaimInv, ClaimAssumption, NEW p \in Proc, Commit(p)
  PROVE  [Binding!Next]_<<[e \in Ext |-> Owner(e)], granted>>
<1> DEFINE n == me[p]
<1>1. n.pc = "commit" /\ journal' = [journal EXCEPT ![n.ext] = [n.jrn EXCEPT !.state = "committed"]]
        /\ (granted' = granted \/ granted' = granted \cup {<<n.ext, n.cur>>})
  BY DEF Commit
<1>2. n \in Call /\ n.ext \in Ext /\ Current(n) /\ n.cur = n.jrn.friend /\ n.cur \in Friend
        /\ Bound(n.ext, n.cur)
  BY <1>1, CommitFacts DEF CommitGood
<1>3. /\ journal'[n.ext].state = "committed" /\ journal'[n.ext].friend = journal[n.ext].friend
      /\ \A e \in Ext \ {n.ext} : journal'[e] = journal[e]
  BY <1>1, <1>2 DEF Current, ClaimInv, TypeOK, Call, Journal
<1>4. Real(n.ext)
  BY <1>2 DEF Current
<1>5. UNCHANGED [e \in Ext |-> Owner(e)]
  BY <1>3, <1>4, OwnersKept DEF Real
<1> QED
  BY <1>1, <1>2, <1>5, GrantStep

LEMMA AnswerGrants ==
  ASSUME ClaimInv, ClaimAssumption, NEW p \in Proc, AnswerFromScan(p)
  PROVE  [Binding!Next]_<<[e \in Ext |-> Owner(e)], granted>>
<1> DEFINE n == me[p]
<1>1. n.pc = "scan" /\ UNCHANGED journal
  BY DEF AnswerFromScan, Scanned
<1>2. PICK H \in SUBSET n.found : granted' = granted \cup {<<n.ext, h.f>> : h \in H}
  BY DEF AnswerFromScan
<1>3. n \in Call /\ n.ext \in Ext /\ ScanGood(n)
  BY <1>1, CallFacts
<1>4. \A h \in H : h.f \in Friend /\ Bound(n.ext, h.f)
  BY <1>1, <1>3 DEF ScanGood, Call
<1>5. UNCHANGED [e \in Ext |-> Owner(e)]
  BY <1>1, OwnersKept DEF Real
<1>6. CASE H = {}
  BY <1>2, <1>5, <1>6
<1>7. CASE H # {}
  <2>1. PICK g \in H : TRUE
    BY <1>7
  <2>2. \A h \in H : h.f = Owner(n.ext)
    BY <1>3, <1>4, BoundIsOwner
  <2>3. granted' = granted \cup {<<n.ext, g.f>>}
    BY <1>2, <2>1, <2>2
  <2> QED
    BY <1>3, <1>4, <1>5, <2>1, <2>3, GrantStep
<1> QED
  BY <1>6, <1>7

\* Every other step leaves owners and grants alone.
LEMMA OtherSteps ==
  ASSUME UNCHANGED <<journal, granted>>
  PROVE  [Binding!Next]_<<[e \in Ext |-> Owner(e)], granted>>
BY OwnersKept DEF Real

\* claimExternalId and put implement IdentityBinding: an id is bound to one
\* friend, once, and every successful claim names that friend.
THEOREM ClaimsBind == ASSUME ClaimsOnly PROVE Spec => ImplementsBinding
<1>1. Init => Binding!Init
  <2> SUFFICES ASSUME Init PROVE Binding!Init
    OBVIOUS
  <2>1. \A e \in Ext : ~ Real(e)
    BY DEF Init, Real, NoClaim
  <2>2. ASSUME NEW e \in Ext PROVE Owner(e) \in Friend \cup {NoFriend}
    <3>1. CASE \E f \in Existing : e \in Held[f]
      BY <2>1, <3>1, ClaimAssumption DEF Owner, ClaimAssumption
    <3> QED
      BY <2>1, <3>1 DEF Owner
  <2> QED
    BY <2>2 DEF Init, Binding!Init
<1>2. ClaimInv /\ [Next]_vars => [Binding!Next]_<<[e \in Ext |-> Owner(e)], granted>>
  <2> SUFFICES ASSUME ClaimInv, [Next]_vars
               PROVE  [Binding!Next]_<<[e \in Ext |-> Owner(e)], granted>>
    OBVIOUS
  <2>1. CASE UNCHANGED vars
    BY <2>1, OtherSteps DEF vars
  <2>2. ASSUME NEW p \in Proc, Start(p)
        PROVE  [Binding!Next]_<<[e \in Ext |-> Owner(e)], granted>>
    BY <2>2, OtherSteps DEF Start, StartClaim, StartLoad, StartSeat, Delete, ClaimsOnly
  <2>3. ASSUME NEW p \in Proc, ClaimStep(p)
        PROVE  [Binding!Next]_<<[e \in Ext |-> Owner(e)], granted>>
    <3>1. CASE Publish(p) \/ Commit(p) \/ AnswerFromScan(p)
      BY <3>1, PublishBinds, CommitGrants, AnswerGrants, ClaimAssumption
    <3>2. CASE ~ (Publish(p) \/ Commit(p) \/ AnswerFromScan(p))
      <4>1. UNCHANGED <<journal, granted>>
        BY <2>3, <3>2 DEF ClaimStep, List, ScanFile, ScanClaims, Requested, ReadWinner,
             JournalTarget, Reconcile, MergeClaims, Write, Verify, Settle
      <4> QED
        BY <4>1, OtherSteps
    <3> QED
      BY <3>1, <3>2
  <2>4. ASSUME NEW p \in Proc, RecordStep(p)
        PROVE  [Binding!Next]_<<[e \in Ext |-> Owner(e)], granted>>
    <3>1. /\ me[p].pc \notin {"release", "detach", "orphans"}
          /\ me[p].pc = "scan" => me[p].op = "claim"
          /\ me[p].pc \in {"act", "put"} => me[p].op = "update"
      BY CallFacts
    <3>2. UNCHANGED <<journal, granted>>
      BY <2>4, <3>1 DEF RecordStep, Unlink, Release, Detach, Link, LinkRefused, LinkMerge,
           DeleteOrphan, SeatFound, SeatNew, Scanned, Loaded, Update, PutWrite
    <3> QED
      BY <3>2, OtherSteps
  <2>5. ASSUME NEW p \in Proc, Crash(p)
        PROVE  [Binding!Next]_<<[e \in Ext |-> Owner(e)], granted>>
    BY <2>5, OtherSteps DEF Crash
  <2> QED
    BY <2>1, <2>2, <2>3, <2>4, <2>5 DEF Next
<1> QED
  BY <1>1, <1>2, ClaimsInductive, PTL DEF Spec, ImplementsBinding, Binding!Spec
=============================================================================
