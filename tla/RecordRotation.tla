-------------------------- MODULE RecordRotation --------------------------
(***************************************************************************)
(* applyAcceptedRotation (src/a2a-client/did-verifier.ts): after a         *)
(* rotation, the peer's friend record follows the chain of tombstones to   *)
(* the live pin.  The chain is walked in one synchronous step; the record  *)
(* is then found, checked and put back, each an await of its own, while    *)
(* pins rotate further, other calls move the same record and the process   *)
(* may stop.                                                               *)
(*                                                                         *)
(* A record is the set of DIDs it holds as a2a-agent ids.                  *)
(***************************************************************************)
EXTENDS Rotation, FiniteSets

CONSTANTS
  Proc,      \* calls of applyAcceptedRotation
  Rec,       \* friend records
  Crashers,  \* the calls that may be cut short
  MaxHops    \* MAX_ROTATION_HOPS

ASSUME HopsAssumption == MaxHops \in Nat

VARIABLES
  holds,  \* [Rec -> the DIDs it holds; none for a record that is not there]
  call    \* [Proc -> the call it runs]

vars == <<pinVars, holds, call>>

NoCall == [pc |-> "idle", at |-> NoDid, end |-> NoDid, holders |-> {}, copy |-> {}]

TypeOK ==
  /\ PinTypeOK
  /\ holds \in [Rec -> SUBSET Did]
  /\ call \in [Proc -> [pc : {"idle", "find", "holder", "put"}, at : Did \cup {NoDid},
                        end : Did \cup {NoDid}, holders : SUBSET Rec, copy : SUBSET Did]]

Init ==
  /\ PinInit
  /\ holds = [r \in Rec |-> {}]
  /\ call = [p \in Proc |-> NoCall]

Do(p, c) == call' = [call EXCEPT ![p] = c]

End(p) == Do(p, NoCall)

Holders(d) == {r \in Rec : d \in holds[r]}

\* The DIDs from d on, following retiredBy for at most n hops.
After(d) == IF Retired(d) THEN pin[d].next ELSE d

Hops(d, n) ==
  LET hop[i \in 0..n] == IF i = 0 THEN d ELSE After(hop[i - 1])
  IN  hop

\* A peer with a live pin that no record holds gets one (an introduction, or the
\* first message).
Introduce(r, d) ==
  /\ Live(d) /\ Holders(d) = {} /\ holds[r] = {}
  /\ holds' = [holds EXCEPT ![r] = {d}]
  /\ UNCHANGED <<pinVars, call>>

\* The chain from the old DID must end in a live pin within the bound and have
\* the new DID on it; otherwise the call is refused.
Start(p, old, new) ==
  LET hop == Hops(old, MaxHops)
  IN  /\ call[p].pc = "idle"
      /\ Retired(old) /\ new # old /\ new \in {hop[i] : i \in 0..MaxHops}
      /\ Live(hop[MaxHops])
      /\ Do(p, [NoCall EXCEPT !.pc = "find", !.at = old, !.end = hop[MaxHops]])
      /\ UNCHANGED <<pinVars, holds>>

\* The record at the old DID, or at the first later one before the live end.  The
\* tombstones walked are final, so the chain is followed as it was at the start.
Find(p) ==
  LET c    == call[p]
      hs   == Holders(c.at)
      next == pin[c.at].next
  IN  /\ c.pc = "find"
      /\ \/ hs = {} /\ (IF next = c.end THEN End(p) ELSE Do(p, [c EXCEPT !.at = next]))
         \/ \E r \in hs : hs = {r} /\ Do(p, [c EXCEPT !.pc = "holder", !.holders = hs, !.copy = holds[r]])
         \/ Cardinality(hs) > 1 /\ End(p)   \* ambiguous: the lookup throws
      /\ UNCHANGED <<pinVars, holds>>

\* successor_already_linked when another record holds the live end.
CheckHolder(p) ==
  LET c == call[p]
  IN  /\ c.pc = "holder"
      /\ IF Holders(c.end) \subseteq c.holders THEN Do(p, [c EXCEPT !.pc = "put"]) ELSE End(p)
      /\ UNCHANGED <<pinVars, holds>>

\* MUTANT: the live DID is added and the old one stays.
PutAdds(p) ==
  LET c == call[p]
  IN  /\ c.pc = "put"
      /\ \E r \in c.holders : holds' = [holds EXCEPT ![r] = c.copy \cup {c.end}]
      /\ End(p)
      /\ UNCHANGED pinVars

\* The copy goes back with the DID it was found at replaced.
Put(p) ==
  LET c == call[p]
  IN  /\ c.pc = "put"
      /\ \E r \in c.holders : holds' = [holds EXCEPT ![r] = (c.copy \ {c.at}) \cup {c.end}]
      /\ End(p)
      /\ UNCHANGED pinVars

\* The process stops, or the store throws.
Crash(p) ==
  /\ p \in Crashers
  /\ call[p].pc # "idle"
  /\ End(p)
  /\ UNCHANGED <<pinVars, holds>>

Step(p) == Find(p) \/ CheckHolder(p) \/ Put(p)

Next ==
  \/ PinNext /\ UNCHANGED <<holds, call>>
  \/ \E r \in Rec, d \in Did : Introduce(r, d)
  \/ \E p \in Proc : Step(p) \/ Crash(p) \/ \E old, new \in Did : Start(p, old, new)

Spec == Init /\ [][Next]_vars

\* A call of a process that stays up goes on, and the host applies every accepted
\* rotation again until such a call has run.
RetrySpec ==
  /\ Spec
  /\ \A p \in Proc \ Crashers : WF_vars(Step(p))
  /\ \A d \in Did : SF_vars(\E p \in Proc \ Crashers : Start(p, d, pin[d].next))

-----------------------------------------------------------------------------
(* Properties.                                                             *)

\* The peer a DID belongs to: the live pin its chain ends in, for a chain is no longer
\* than the number of DIDs that were ever pinned.
Peer(d) == Hops(d, pinned)[pinned]

\* A call under way walks a chain that does not change under it: it stands on a
\* tombstone from which the live end it set out for is still reached.
CallsOnChain ==
  \A p \in Proc : LET c == call[p] IN c.pc # "idle" =>
    Retired(c.at) /\ \E n \in 1..MaxHops : Hops(c.at, MaxHops)[n] = c.end

RecordInv == TypeOK /\ CallsOnChain

SamePeer(r, s) == \A d \in holds[r], e \in holds[s] : Peer(d) = Peer(e)

\* However statements are replayed and calls, rotations and crashes interleave,
\* the records of two peers stay the records of two peers: trust and grants never
\* pass to another peer's DID.
PeersStayApart ==
  [][\A r, s \in Rec :
       holds[r] # {} /\ holds[s] # {} /\ ~ SamePeer(r, s)
         => holds'[r] # {} /\ holds'[s] # {} /\ ~ SamePeer(r, s)']_vars

\* Once every accepted rotation is applied, each record is at its peer's live
\* DID, unless a second record was made for the same peer in between, or more
\* rotations than the bound went by before one was applied.
Stranded(d) == ~ Live(Hops(d, MaxHops)[MaxHops])

RecordsCatchUp ==
  <>[](\A r \in Rec : \A d \in holds[r] :
         \/ Live(d) \/ Stranded(d)
         \/ \E s \in Rec \ {r} : holds[s] # {} /\ SamePeer(r, s))
=============================================================================
