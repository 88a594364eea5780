------------------------------ MODULE Sharing ------------------------------
(***************************************************************************)
(* Consent to share (src/consent.ts, grants.ts, grant-store-file.ts and    *)
(* the producer of share.ts) as the tools grant_share, revoke_share,       *)
(* list_shares and share_profile of the stdio server.                      *)
(*                                                                         *)
(* A tool call is a sequence of awaits: readdir, one read per grant file,  *)
(* the two halves of a writeFile.  The calls of pipelined requests         *)
(* interleave, and a restart of the process cuts them off.  Friends'       *)
(* records are constants here: how they change is the Peers module's.      *)
(***************************************************************************)
EXTENDS McpServer

CONSTANTS
  Grant,     \* grant ids
  Given,     \* [Grant -> the recipient, scope and expiry it names]
  Existing,  \* the grants that are there at the start
  Tool,      \* [Request -> the tool it calls and its arguments]
  Peer,      \* recipients of shares
  Trust,     \* [Peer -> the trust this agent holds them in]
  MaxTime,   \* bound: clock
  MaxOpen,   \* bound: calls under way at a time
  NoGrant

Stranger == 1
Friend   == 3
Family   == 4

Scope == {"name", "coordinate", "identity", "notes:safe", "notes:all", "outcomes", "mission"}

\* A share, and a grant, is about one subject here, and names a recipient and a scope;
\* a grant may expire.  A grant's file that is being written is torn.
Form == [peer : Peer, scope : Scope, expires : 0..MaxTime]

ASSUME SharingAssumption ==
  /\ Given \in [Grant -> Form]
  /\ Existing \subseteq Grant
  /\ Tool \in [Request -> [op : {"grant", "revoke", "list", "share", "ping"}, grant : Grant \cup {NoGrant},
                           form : Form, policy : {"strict", "trust_implied", "tiered"}]]
  /\ \A q \in Request : Tool[q].op \in {"grant", "revoke"} => Tool[q].grant \in Grant
  /\ \A q \in Request : Tool[q].op = "grant" =>
       /\ Tool[q].grant \notin Existing
       /\ \A r \in Request : Tool[r].op = "grant" /\ Tool[r].grant = Tool[q].grant => q = r
  /\ Trust \in [Peer -> 1..4]
  /\ MaxTime \in Nat /\ MaxOpen \in Nat
  /\ NoGrant \notin Grant

VARIABLES
  grants,   \* [Grant -> its file]
  call,     \* [Request -> the call it became]
  now,
  revoked   \* history: the grants whose revocation was answered

vars == <<serverVars, grants, call, now, revoked>>

NoCall == [pc |-> "none", todo |-> {}, at |-> 0, found |-> {}, result |-> "none", dead |-> {}, sure |-> {}]

File == [state : {"absent", "torn", "whole"}, revoked : BOOLEAN]

TypeOK ==
  /\ ServerTypeOK
  /\ grants \in [Grant -> File]
  /\ call \in [Request -> [pc : {"none", "start", "open", "write", "scan", "reply", "done"},
                           todo : SUBSET Grant, at : 0..MaxTime, found : SUBSET Grant,
                           result : {"none", "ok", "noop", "not_found", "no_consent"},
                           dead : SUBSET Grant, sure : SUBSET Grant]]
  /\ now \in 0..MaxTime
  /\ revoked \subseteq Grant

Init ==
  /\ ServerInit
  /\ grants = [g \in Grant |-> [state |-> IF g \in Existing THEN "whole" ELSE "absent",
                                revoked |-> FALSE]]
  /\ call = [q \in Request |-> NoCall]
  /\ now = 0
  /\ revoked = {}

-----------------------------------------------------------------------------
\* MUTANT: a revoked grant consents until it expires.
EffectiveUntilExpiry(g, t) == Given[g].expires = 0 \/ Given[g].expires > t

\* MUTANT: a grant without an expiry counts as expired.
EffectiveDated(g, t) == ~ grants[g].revoked /\ Given[g].expires > t

\* isGrantEffective: an expiry that does not parse never comes.
IsGrantEffective(g, t) ==
  /\ ~ grants[g].revoked
  /\ Given[g].expires = 0 \/ Given[g].expires > t

\* It covers exactly this recipient and scope.
Covers(g, form) ==
  /\ grants[g].state = "whole"
  /\ Given[g].peer = form.peer /\ Given[g].scope = form.scope

\* Trust alone consents.
TrustConsents(t) ==
  LET trust == Trust[t.form.peer]
  IN  \/ t.policy = "trust_implied" /\ trust >= Friend
      \/ t.policy = "tiered" /\ t.form.scope = "identity" /\ trust = Family
      \/ t.policy = "tiered" /\ t.form.scope \in {"name", "coordinate"} /\ trust >= Friend

\* The tiered policy never asks the grants for the identity-only scopes.
AsksGrants(t) == ~ (t.policy = "tiered" /\ t.form.scope \in {"name", "coordinate"})

-----------------------------------------------------------------------------
Done     == [NoCall EXCEPT !.pc = "done"]
Do(q, c) == call' = [call EXCEPT ![q] = c]

\* initialize, tools/list, and methods and tools nobody knows.
AtOnce  == {q \in Request : Tool[q].op = "ping"}

\* The calls under way.
Pending == {q \in Request : call[q].pc \notin {"none", "done"}}

\* The client names a grant in a revoke once it has been told its id.
Told(got) ==
  \A q \in got : Tool[q].op = "revoke" /\ Tool[q].grant \notin Existing =>
    \E r \in Request : Tool[r].op = "grant" /\ Tool[r].grant = Tool[q].grant /\ answers[r] = 1

\* History of a call: the grants that cannot consent to it, and those that can.
Dead == revoked \cup {g \in Grant : Given[g].expires \in 1..now}
Sure(t) ==
  {g \in Grant \ Dead : /\ t.op = "share" /\ Covers(g, t.form) /\ ~ grants[g].revoked
                        /\ \A r \in Request : Tool[r].op = "revoke" /\ Tool[r].grant = g => call[r].pc = "none"}

\* A grant_share puts its new grant at once.
Arrive(n) ==
  /\ n <= Len(unsent)
  /\ \E read \in {Read(n)} : LET got == Dispatched(read) IN
       /\ Told(got) /\ Cardinality(Pending \cup got) <= MaxOpen
       /\ Data(n, read, AtOnce)
       /\ call' = [q \in Request |->
                IF q \in got
                THEN IF q \in AtOnce \/ ~ Body[q].id THEN Done
                     ELSE IF Tool[q].op = "grant" THEN [NoCall EXCEPT !.pc = "open", !.result = "ok"]
                     ELSE IF Tool[q].op = "revoke" THEN [NoCall EXCEPT !.pc = "start"]
                     ELSE [NoCall EXCEPT !.pc = "start", !.dead = Dead, !.sure = Sure(Tool[q])]
                ELSE call[q]]
  /\ UNCHANGED <<grants, now, revoked>>

\* revokeShare reads the grant it names.
StartRevoke(q) ==
  LET f == grants[Tool[q].grant]
      c == call[q]
  IN  /\ c.pc = "start" /\ Tool[q].op = "revoke"
      /\ Do(q, IF f.state # "whole" THEN [c EXCEPT !.pc = "reply", !.result = "not_found"]
               ELSE IF f.revoked THEN [c EXCEPT !.pc = "reply", !.result = "noop"]
               ELSE [c EXCEPT !.pc = "open", !.result = "ok"])
      /\ UNCHANGED <<serverVars, grants, now, revoked>>

\* put: writeFile truncates and writes.
Open(q) ==
  /\ call[q].pc = "open"
  /\ grants' = [grants EXCEPT ![Tool[q].grant].state = "torn"]
  /\ Do(q, [call[q] EXCEPT !.pc = "write"])
  /\ UNCHANGED <<serverVars, now, revoked>>

Writes(q, gone) ==
  /\ call[q].pc = "write"
  /\ grants' = [grants EXCEPT ![Tool[q].grant] = [state |-> "whole", revoked |-> gone]]
  /\ Do(q, [call[q] EXCEPT !.pc = "reply"])
  /\ UNCHANGED <<serverVars, now, revoked>>

\* MUTANT: the grant is put back as it was read.
WriteAsRead(q) == Writes(q, FALSE)

\* A new grant, or the grant with its tombstone.
Write(q) == Writes(q, Tool[q].op = "revoke")

\* prepareProfileShare asks the policy, which may list the grants, as listShares does.
\* The policy takes the time before the listing; listShares takes it after, when no
\* more grants are effective.
StartScan(q) ==
  LET t == Tool[q]
      c == call[q]
  IN  /\ c.pc = "start" /\ t.op \in {"share", "list"}
      /\ Do(q, IF t.op = "share" /\ TrustConsents(t) THEN [c EXCEPT !.pc = "reply", !.result = "ok"]
               ELSE IF t.op = "share" /\ ~ AsksGrants(t) THEN [c EXCEPT !.pc = "reply", !.result = "no_consent"]
               ELSE [c EXCEPT !.pc = "scan", !.at = now, !.todo = {g \in Grant : grants[g].state # "absent"}])
      /\ UNCHANGED <<serverVars, grants, now, revoked>>

\* One grant file is read; a torn one is nothing.
Scan(q, g) ==
  LET c    == call[q]
      some == grants[g].state = "whole" /\ IsGrantEffective(g, c.at)
  IN  /\ c.pc = "scan" /\ g \in c.todo
      /\ Do(q, [c EXCEPT !.todo = @ \ {g},
                         !.found = IF some /\ (Tool[q].op = "list" \/ Covers(g, Tool[q].form))
                                   THEN @ \cup {g} ELSE @])
      /\ UNCHANGED <<serverVars, grants, now, revoked>>

\* What the call has come to.
Outcome(q) ==
  LET c == call[q]
  IN  IF c.pc = "reply" THEN c.result
      ELSE IF Tool[q].op = "list" \/ c.found # {} THEN "ok" ELSE "no_consent"

\* The policy has been through the files, or the call knew already: the response.
Finished(q) == call[q].pc = "reply" \/ (call[q].pc = "scan" /\ call[q].todo = {})

Answer(q) ==
  /\ Finished(q)
  /\ Reply(q)
  /\ Do(q, Done)
  /\ revoked' = IF Tool[q].op = "revoke" /\ Outcome(q) # "not_found"
                THEN revoked \cup {Tool[q].grant} ELSE revoked
  /\ UNCHANGED <<grants, now>>

\* The process ends with the calls it was running.
Crash ==
  /\ Restart(Pending)
  /\ call' = [q \in Request |-> IF q \in Pending THEN Done ELSE call[q]]
  /\ UNCHANGED <<grants, now, revoked>>

Tick ==
  /\ now < MaxTime /\ now' = now + 1
  /\ UNCHANGED <<serverVars, grants, call, revoked>>

CallStep(q) ==
  \/ StartRevoke(q) \/ StartScan(q)
  \/ Open(q) \/ Write(q) \/ Answer(q)
  \/ \E g \in Grant : Scan(q, g)

Next ==
  \/ \E n \in 1..MaxChunk : Arrive(n)
  \/ \E q \in Request : CallStep(q)
  \/ Crash
  \/ Tick

Spec == Init /\ [][Next]_vars

-----------------------------------------------------------------------------
(* Properties.                                                             *)

\* What the calls have found and written belongs to the grants they named.
SharingInv ==
  /\ TypeOK
  /\ \A q \in Request : answers[q] = 1 => call[q].pc = "done" /\ Body[q].id
  /\ \A g \in revoked : grants[g].state = "whole" => grants[g].revoked

\* A consent that was taken back is over: a share, or a listing, that was asked for
\* after the revocation had been answered, or after the expiry, never rests on the
\* grant, whatever was under way (README: the right to be forgotten).
RevocationHolds == \A q \in Request : call[q].found \cap call[q].dead = {}

\* A consent that was given holds: a share asked for while a grant covers it is not
\* refused, unless a revocation of the grant was asked for, or it expired, meanwhile.
GrantsHonoured ==
  \A q \in Request : Finished(q) /\ Outcome(q) = "no_consent" /\ AsksGrants(Tool[q]) =>
    \A g \in call[q].sure :
      \/ \E r \in Request : Tool[r].op = "revoke" /\ Tool[r].grant = g /\ call[r].pc # "none"
      \/ Given[g].expires \in 1..call[q].at

\* The server reads what was sent: "Content-Length and newline-delimited JSON -
\* auto-detected from the first message" (README.md:302).
MessagesReadAsSent == misread = 0

\* No request is left lying: whatever the chunks were, a request that has been written
\* whole has been dispatched, unless the process ended in the middle of it, and when
\* its call is over it has been answered.
NoneLeftLying ==
  \A q \in Whole \ lost : /\ call[q].pc # "none"
                          /\ call[q].pc = "done" /\ Body[q].id => answers[q] = 1
=============================================================================
