------------------------------ MODULE Rotation ------------------------------
(***************************************************************************)
(* DID pins (src/a2a-client/did-verifier.ts): trust on first contact, and  *)
(* rotations that move a pin to a successor and leave a tombstone behind.  *)
(*                                                                         *)
(* evaluateRotation is synchronous.  Every statement that its signatures   *)
(* allow may be presented at any time, again and in any order: the holder  *)
(* of a key can sign any statement, and a signed one can be replayed.  A   *)
(* refused rotation changes nothing and is not an action.  The pin store   *)
(* is the host's; its two calls may fail one without the other.            *)
(***************************************************************************)
EXTENDS Naturals

CONSTANTS
  Did,           \* sender DIDs
  WebDid,        \* the did:web ones: the host's resolution names their key
  Key,           \* Ed25519 keys
  KeyOf,         \* [Did -> Key]: the key a did:key is derived from
  NoDid,
  NoKey,
  MaxTime,       \* bound: the clock
  Skew,          \* ROTATION_CLOCK_SKEW_MS
  AcceptUndated  \* the DIDs the host calls with acceptUndatedSuccessor for

ASSUME RotationAssumption ==
  /\ WebDid \subseteq Did
  /\ KeyOf \in [Did -> Key]
  /\ NoDid \notin Did
  /\ NoKey \notin Key
  /\ MaxTime \in Nat \ {0}
  /\ Skew \in Nat
  /\ AcceptUndated \subseteq Did

VARIABLES
  pin,     \* [Did -> its pin: key, rotatedAt and retiredBy]
  now,     \* the host's clock
  rank,    \* history: [Did -> the order in which it was pinned, 0 before]
  pinned,  \* history: how many DIDs were pinned
  used     \* history: the dated statements accepted

pinVars == <<pin, now, rank, pinned, used>>

Date == 1..(MaxTime + Skew)

Unpinned == [key |-> NoKey, at |-> 0, next |-> NoDid]

Pinned(d)  == pin[d].key # NoKey
Retired(d) == pin[d].next # NoDid
Live(d)    == Pinned(d) /\ ~ Retired(d)

\* The keys a DID can be pinned or rotated to.
KeysFor(d) == IF d \in WebDid THEN Key ELSE {KeyOf[d]}

Pin == [key : Key \cup {NoKey}, at : 0..(MaxTime + Skew), next : Did \cup {NoDid}]

PinTypeOK ==
  /\ pin \in [Did -> Pin]
  /\ now \in 1..MaxTime
  /\ rank \in [Did -> Nat]
  /\ pinned \in Nat
  /\ used \subseteq Did \X Key \X Did \X Key \X Date

PinInit ==
  /\ pin = [d \in Did |-> Unpinned]
  /\ now = 1
  /\ rank = [d \in Did |-> 0]
  /\ pinned = 0
  /\ used = {}

-----------------------------------------------------------------------------
Born(e) ==
  IF Pinned(e) THEN UNCHANGED <<rank, pinned>>
  ELSE rank' = [rank EXCEPT ![e] = pinned + 1] /\ pinned' = pinned + 1

\* MUTANT: only a live pin is in the way, so a tombstone is pinned over.
FirstContactRevives(d, k) ==
  /\ ~ Live(d)
  /\ k \in KeysFor(d)
  /\ pin' = [pin EXCEPT ![d] = [key |-> k, at |-> 0, next |-> NoDid]]
  /\ Born(d)
  /\ UNCHANGED <<now, used>>

\* resolveAndPin finds no pin and pins the resolved key; pinOnFirstContact
\* throws on a tombstone.
FirstContact(d, k) ==
  /\ ~ Pinned(d)
  /\ k \in KeysFor(d)
  /\ pin' = [pin EXCEPT ![d] = [key |-> k, at |-> 0, next |-> NoDid]]
  /\ Born(d)
  /\ UNCHANGED <<now, used>>

\* MUTANT: a successor pinned already is overwritten.
SuccessorOverwrites(d, e, k) ==
  /\ Live(d)
  /\ ~ Retired(e)
  /\ ~ (e = d /\ pin[d].key = k)
  /\ k \in KeysFor(e)

\* The statement moves a live pin to a key its DID owns, under the same DID or
\* one that nobody is pinned under.  Trust is friend or family and both
\* signatures verify.
Succeeds(d, e, k) ==
  /\ Live(d)
  /\ e # d => ~ Pinned(e)
  /\ ~ (e = d /\ pin[d].key = k)
  /\ k \in KeysFor(e)

\* MUTANT: a statement dated like the last rotation passes.
InOrderOrSame(d, t) == t <= now + Skew /\ t >= pin[d].at

\* The replay guard: not from the future, newer than the last rotation.
InOrder(d, t) == t <= now + Skew /\ (pin[d].at # 0 => t > pin[d].at)

\* pinStore.set(newDid).
Moved(e, k, t) == [pin EXCEPT ![e] = [key |-> k, at |-> t, next |-> NoDid]]

Retire(ps, d, e, t) ==
  IF d = e THEN ps ELSE [ps EXCEPT ![d] = [key |-> @.key, at |-> t, next |-> e]]

\* A dated statement: set the new pin, retire the old one.
Rotate(d, e, k, t) ==
  /\ Succeeds(d, e, k) /\ InOrder(d, t)
  /\ pin' = Retire(Moved(e, k, t), d, e, t)
  /\ Born(e)
  /\ used' = used \cup {<<d, pin[d].key, e, k, t>>}
  /\ UNCHANGED now

\* An undated one, opted in to, takes the clock's time and cannot be checked.
RotateUndated(d, e, k) ==
  /\ d \in AcceptUndated
  /\ Succeeds(d, e, k)
  /\ pin' = Retire(Moved(e, k, now), d, e, now)
  /\ Born(e)
  /\ UNCHANGED <<now, used>>

\* The host's retire throws, or the process stops before it: the successor is
\* pinned and the old DID is not retired.
RotateTorn(d, e, k, t) ==
  /\ Succeeds(d, e, k) /\ InOrder(d, t)
  /\ d # e
  /\ pin' = Moved(e, k, t)
  /\ Born(e)
  /\ UNCHANGED <<now, used>>

Tick ==
  /\ now < MaxTime
  /\ now' = now + 1
  /\ UNCHANGED <<pin, rank, pinned, used>>

PinNext ==
  \/ \E d \in Did, k \in Key : FirstContact(d, k)
  \/ \E d, e \in Did, k \in Key, t \in Date : Rotate(d, e, k, t) \/ RotateTorn(d, e, k, t)
  \/ \E d, e \in Did, k \in Key : RotateUndated(d, e, k)
  \/ Tick

PinSpec == PinInit /\ [][PinNext]_pinVars

-----------------------------------------------------------------------------
(* Properties.                                                             *)

\* A tombstone is final: "the old (possibly compromised) key cannot be pinned
\* again, cannot rotate again" (did-verifier.ts:28-29), whatever statement is
\* presented or replayed, and whatever call fails.
TombstonesStay == [][\A d \in Did : Retired(d) => pin'[d] = pin[d]]_pinVars

\* A dated statement is accepted once, under whatever DIDs its key moves through,
\* unless the host takes undated statements of its DID as well.
AcceptedOnce ==
  [][\A d \in Did \ AcceptUndated, e \in Did, k \in Key, t \in Date :
       Rotate(d, e, k, t) => <<d, pin[d].key, e, k, t>> \notin used]_pinVars

\* No DID is reached from two others, so no two peers' records end up on one; and
\* every tombstone names a pin that is younger, so chains do not loop and, being
\* finite, end in a live pin.
OneHeirEach ==
  \A c, d \in Did : Retired(c) /\ Retired(d) /\ pin[c].next = pin[d].next => c = d

HeirsYounger ==
  \A d \in Did : Retired(d) =>
    Pinned(d) /\ Pinned(pin[d].next) /\ rank[pin[d].next] > rank[d]

\* The inductive invariant.
RanksGood ==
  \A d \in Did : rank[d] <= pinned /\ (Pinned(d) <=> rank[d] > 0)

UnpinnedBlank == \A d \in Did : ~ Pinned(d) => pin[d].next = NoDid

UsedBehind ==
  \A u \in used : LET d == u[1] IN
    \/ Retired(d)
    \/ Live(d) /\ (d \in AcceptUndated \/ u[5] <= pin[d].at)

PinInv ==
  /\ PinTypeOK
  /\ OneHeirEach
  /\ HeirsYounger
  /\ RanksGood
  /\ UnpinnedBlank
  /\ UsedBehind

\* The pins implement Succession.
Known == {d \in Did : Pinned(d)}
Heir  == [d \in Did |-> pin[d].next]

Abstract == INSTANCE Succession WITH known <- Known, heir <- Heir
ImplementsSuccession == Abstract!Spec
=============================================================================
