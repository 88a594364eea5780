--------------------------- MODULE RotationProofs ---------------------------
(***************************************************************************)
(* Proofs about Rotation, for every set of DIDs and keys, every clock and  *)
(* skew: the pins' inductive invariant, the finality of tombstones, the    *)
(* single use of a dated statement, and the implementation of Succession.  *)
(***************************************************************************)
EXTENDS Rotation, TLAPS

LEMMA PinInitInv == ASSUME RotationAssumption, PinInit PROVE PinInv
BY DEF RotationAssumption, PinInit, PinInv, PinTypeOK, Pin, Unpinned, OneHeirEach, HeirsYounger,
   RanksGood, UnpinnedBlank, UsedBehind, Pinned, Retired, Live, Date

\* A first contact touches a DID that no tombstone names.
LEMMA FirstContactKeeps ==
  ASSUME RotationAssumption, PinInv, NEW d \in Did, NEW k \in Key, FirstContact(d, k)
  PROVE  PinInv'
<1>1. /\ pin[d].key = NoKey /\ pin[d].next = NoDid
      /\ pin'[d] = [key |-> k, at |-> 0, next |-> NoDid]
      /\ \A x \in Did \ {d} : pin'[x] = pin[x]
      /\ rank'[d] = pinned + 1 /\ pinned' = pinned + 1
      /\ \A x \in Did \ {d} : rank'[x] = rank[x]
      /\ UNCHANGED <<now, used>>
  BY DEF FirstContact, Born, Pinned, PinInv, PinTypeOK, Pin, UnpinnedBlank
<1>2. PinTypeOK'
  BY DEF FirstContact, Born, PinInv, PinTypeOK, Pin, RotationAssumption, Pinned, Date
<1>3. OneHeirEach'
  BY <1>1 DEF PinInv, OneHeirEach, Retired
<1>4. HeirsYounger'
  BY <1>1 DEF PinInv, HeirsYounger, Retired, Pinned, PinTypeOK, Pin, RotationAssumption
<1>5. RanksGood'
  BY <1>1 DEF PinInv, RanksGood, Pinned, PinTypeOK, Pin, RotationAssumption
<1>6. UnpinnedBlank'
  BY <1>1 DEF PinInv, UnpinnedBlank, Pinned
<1>7. UsedBehind'
  <2> SUFFICES ASSUME NEW u \in used
               PROVE  Retired(u[1])' \/ (Live(u[1])' /\ (u[1] \in AcceptUndated \/ u[5] <= pin'[u[1]].at))
    BY <1>1 DEF UsedBehind
  <2>1. /\ u[1] \in Did
        /\ Retired(u[1]) \/ (Live(u[1]) /\ (u[1] \in AcceptUndated \/ u[5] <= pin[u[1]].at))
    BY DEF PinInv, UsedBehind, PinTypeOK, Pin
  <2>2. u[1] # d
    BY <1>1, <2>1 DEF Retired, Live, Pinned
  <2> QED
    BY <1>1, <2>1, <2>2 DEF Retired, Live, Pinned
<1> QED
  BY <1>2, <1>3, <1>4, <1>5, <1>6, <1>7 DEF PinInv

\* What a rotation from d to e does: it writes e's pin, and, unless it is torn,
\* turns d into a tombstone that names e.
Moves(d, e, k, t, torn) ==
  /\ Succeeds(d, e, k)
  /\ pin' = IF torn = 1 THEN Moved(e, k, t) ELSE Retire(Moved(e, k, t), d, e, t)
  /\ torn = 1 => d # e
  /\ Born(e)
  /\ UNCHANGED now

MoveShape(d, e, k, t, torn) ==
  /\ Pinned(d) /\ pin[d].next = NoDid
  /\ e # d => ~ Pinned(e) /\ pin[e].next = NoDid
  /\ pin'[e] = [key |-> k, at |-> t, next |-> NoDid]
  /\ e # d => pin'[d] = IF torn = 1 THEN pin[d] ELSE [key |-> pin[d].key, at |-> t, next |-> e]
  /\ \A x \in Did \ {d, e} : pin'[x] = pin[x]
  /\ pin' \in [Did -> Pin]

LEMMA MoveEffect ==
  ASSUME RotationAssumption, PinInv, NEW d \in Did, NEW e \in Did, NEW k \in Key,
         NEW t \in Date, NEW torn \in {0, 1}, Moves(d, e, k, t, torn)
  PROVE  MoveShape(d, e, k, t, torn)
<1>1. Pinned(d) /\ pin[d].next = NoDid /\ (e # d => ~ Pinned(e) /\ pin[e].next = NoDid)
  BY DEF Moves, Succeeds, Live, Retired, PinInv, UnpinnedBlank
<1>2. /\ Moved(e, k, t) \in [Did -> Pin]
      /\ Moved(e, k, t)[e] = [key |-> k, at |-> t, next |-> NoDid]
      /\ \A x \in Did \ {e} : Moved(e, k, t)[x] = pin[x]
  BY DEF Moved, PinInv, PinTypeOK, Pin, Date, RotationAssumption
<1>3. CASE torn = 1 \/ d = e
  <2>1. pin' = Moved(e, k, t)
    BY <1>3 DEF Moves, Retire
  <2> QED
    BY <1>1, <1>2, <1>3, <2>1 DEF Moves, MoveShape
<1>4. CASE torn = 0 /\ d # e
  <2> DEFINE tomb == [key |-> pin[d].key, at |-> t, next |-> e]
  <2>1. Moved(e, k, t)[d] = pin[d] /\ d # e
    BY <1>2, <1>4
  <2>2. pin' = [Moved(e, k, t) EXCEPT ![d] = tomb]
    BY <1>4, <2>1 DEF Moves, Retire
  <2>3. tomb \in Pin
    BY DEF PinInv, PinTypeOK, Pin, Date, RotationAssumption
  <2> HIDE DEF tomb
  <2>4. /\ pin' \in [Did -> Pin] /\ pin'[d] = tomb
        /\ \A x \in Did \ {d} : pin'[x] = Moved(e, k, t)[x]
    BY <1>2, <2>2, <2>3
  <2> QED
    BY <1>1, <1>2, <1>4, <2>1, <2>4 DEF tomb, MoveShape
<1> QED
  BY <1>3, <1>4

LEMMA MoveKeeps ==
  ASSUME RotationAssumption, PinInv, NEW d \in Did, NEW e \in Did, NEW k \in Key,
         NEW t \in Date, NEW torn \in {0, 1}, Moves(d, e, k, t, torn)
  PROVE  /\ OneHeirEach' /\ HeirsYounger' /\ RanksGood' /\ UnpinnedBlank'
         /\ rank' \in [Did -> Nat] /\ pinned' \in Nat
<1>1. /\ Pinned(d) /\ pin[d].next = NoDid
      /\ e # d => ~ Pinned(e) /\ pin[e].next = NoDid
      /\ pin'[e] = [key |-> k, at |-> t, next |-> NoDid]
      /\ e # d => pin'[d] = IF torn = 1 THEN pin[d] ELSE [key |-> pin[d].key, at |-> t, next |-> e]
      /\ \A x \in Did \ {d, e} : pin'[x] = pin[x]
  BY MoveEffect DEF MoveShape
<1>2. \A x \in Did : Pinned(x)' <=> (Pinned(x) \/ x = e)
  BY <1>1 DEF Pinned, RotationAssumption
<1>3. \A x \in Did : Retired(x)' <=> (Retired(x) \/ (x = d /\ e # d /\ torn = 0))
  BY <1>1 DEF Retired, RotationAssumption
<1>4. \A x \in Did : Retired(x) => pin'[x] = pin[x]
  BY <1>1 DEF Retired
<1>5. /\ rank' \in [Did -> Nat] /\ pinned' \in Nat
      /\ pinned' >= pinned
      /\ \A x \in Did \ {e} : rank'[x] = rank[x]
      /\ IF Pinned(e) THEN rank'[e] = rank[e] ELSE rank'[e] = pinned + 1 /\ pinned' = pinned + 1
  BY DEF Moves, Born, PinInv, PinTypeOK, Pin
<1>6. OneHeirEach'
  <2>1. \A x \in Did : Retired(x) => Pinned(pin[x].next) /\ pin[x].next \in Did
    BY DEF PinInv, HeirsYounger, PinTypeOK, Pin, Retired
  <2> QED
    BY <1>1, <1>3, <1>4, <2>1 DEF PinInv, OneHeirEach
<1>7. RanksGood'
  BY <1>2, <1>5 DEF PinInv, RanksGood, PinTypeOK, Pin
<1>8. HeirsYounger'
  <2> SUFFICES ASSUME NEW x \in Did, Retired(x)'
               PROVE  (Pinned(x) /\ Pinned(pin[x].next) /\ rank[pin[x].next] > rank[x])'
    BY DEF HeirsYounger
  <2>1. CASE Retired(x)
    <3>1. /\ Pinned(x) /\ Pinned(pin[x].next) /\ rank[pin[x].next] > rank[x]
          /\ pin[x].next \in Did
      BY <2>1 DEF PinInv, HeirsYounger, PinTypeOK, Pin, Retired
    <3>2. rank'[x] = rank[x] /\ rank'[pin[x].next] = rank[pin[x].next]
      BY <1>5, <3>1
    <3> QED
      BY <1>2, <1>4, <2>1, <3>1, <3>2 DEF Pinned
  <2>2. CASE x = d /\ e # d /\ torn = 0
    <3>1. pin'[d].next = e /\ ~ Pinned(e)
      BY <1>1, <2>2
    <3>2. rank'[e] = pinned + 1 /\ rank'[d] = rank[d] /\ rank[d] <= pinned
      BY <1>5, <2>2, <3>1 DEF PinInv, RanksGood
    <3>3. pin'[d].key # NoKey /\ pin'[e].key # NoKey
      BY <1>1, <2>2 DEF Pinned, RotationAssumption
    <3> QED
      BY <2>2, <3>1, <3>2, <3>3 DEF Pinned, PinInv, PinTypeOK, Pin
  <2> QED
    BY <1>3, <2>1, <2>2
<1>9. UnpinnedBlank'
  BY <1>1, <1>2, <1>3 DEF PinInv, UnpinnedBlank, Retired, Pinned
<1> QED
  BY <1>5, <1>6, <1>7, <1>8, <1>9

LEMMA RotateMoves ==
  ASSUME NEW d \in Did, NEW e \in Did, NEW k \in Key, NEW t \in Date
  PROVE  /\ Rotate(d, e, k, t) => Moves(d, e, k, t, 0)
         /\ RotateTorn(d, e, k, t) => Moves(d, e, k, t, 1)
         /\ RotateUndated(d, e, k) /\ t = now => Moves(d, e, k, t, 0)
BY DEF Rotate, RotateTorn, RotateUndated, Moves

\* The accepted statements stay behind the pins they moved.
LEMMA RotateKeepsUsed ==
  ASSUME RotationAssumption, PinInv, NEW d \in Did, NEW e \in Did, NEW k \in Key, NEW t \in Date,
         Rotate(d, e, k, t) \/ RotateTorn(d, e, k, t) \/ (RotateUndated(d, e, k) /\ t = now)
  PROVE  UsedBehind'
<1>1. PICK torn \in {0, 1} :
        /\ Moves(d, e, k, t, torn)
        /\ torn = 1 => RotateTorn(d, e, k, t)
        /\ torn = 0 => Rotate(d, e, k, t) \/ RotateUndated(d, e, k)
  BY RotateMoves
<1>2. /\ Pinned(d) /\ pin[d].next = NoDid
      /\ e # d => ~ Pinned(e) /\ pin[e].next = NoDid
      /\ pin'[e] = [key |-> k, at |-> t, next |-> NoDid]
      /\ e # d => pin'[d] = IF torn = 1 THEN pin[d] ELSE [key |-> pin[d].key, at |-> t, next |-> e]
      /\ \A x \in Did \ {d, e} : pin'[x] = pin[x]
  BY <1>1, MoveEffect DEF MoveShape
<1>3. d \in AcceptUndated \/ InOrder(d, t)
  BY DEF Rotate, RotateTorn, RotateUndated
<1> SUFFICES ASSUME NEW u \in used'
             PROVE  Retired(u[1])' \/ (Live(u[1])' /\ (u[1] \in AcceptUndated \/ u[5] <= pin'[u[1]].at))
  BY DEF UsedBehind
<1>4. CASE u \in used
  <2>1. /\ u[1] \in Did /\ u[5] \in Nat /\ u[5] > 0
        /\ Retired(u[1]) \/ (Live(u[1]) /\ (u[1] \in AcceptUndated \/ u[5] <= pin[u[1]].at))
        /\ pin[d].at \in Nat /\ t \in Nat
    BY <1>4 DEF PinInv, UsedBehind, PinTypeOK, Pin, Date, RotationAssumption
  <2>2. CASE u[1] # d
    <3>1. u[1] # e \/ e = d
      BY <1>2, <2>1 DEF Retired, Live
    <3> QED
      BY <1>2, <2>1, <2>2, <3>1 DEF Retired, Live, Pinned
  <2>3. CASE u[1] = d /\ e # d
    BY <1>2, <2>1, <2>3, RotationAssumption DEF Retired, Live, Pinned, RotationAssumption
  <2>4. CASE u[1] = d /\ e = d
    <3>1. d \in AcceptUndated \/ t >= pin[d].at
      BY <1>2, <1>3, <2>1, <2>4 DEF InOrder, Retired, RotationAssumption, Date
    <3> QED
      BY <1>2, <2>1, <2>4, <3>1 DEF Retired, Live, Pinned, RotationAssumption
  <2> QED
    BY <2>2, <2>3, <2>4
<1>5. CASE u \notin used
  <2>1. torn = 0 /\ u = <<d, pin[d].key, e, k, t>>
    BY <1>1, <1>5 DEF Rotate, RotateTorn, RotateUndated
  <2>2. CASE e = d
    BY <1>2, <2>1, <2>2 DEF Live, Retired, Pinned, RotationAssumption, Date
  <2>3. CASE e # d
    BY <1>2, <2>1, <2>3 DEF Retired, RotationAssumption
  <2> QED
    BY <2>2, <2>3
<1> QED
  BY <1>4, <1>5

LEMMA PinStep ==
  ASSUME RotationAssumption, PinInv, [PinNext]_pinVars
  PROVE  PinInv'
<1>1. CASE UNCHANGED pinVars
  BY <1>1 DEF pinVars, PinInv, PinTypeOK, Pin, OneHeirEach, HeirsYounger, RanksGood,
     UnpinnedBlank, UsedBehind, Pinned, Retired, Live
<1>2. ASSUME NEW d \in Did, NEW k \in Key, FirstContact(d, k) PROVE PinInv'
  BY <1>2, FirstContactKeeps
<1>3. ASSUME NEW d \in Did, NEW e \in Did, NEW k \in Key, NEW t \in Date,
             Rotate(d, e, k, t) \/ RotateTorn(d, e, k, t)
      PROVE  PinInv'
  <2>1. PICK torn \in {0, 1} : Moves(d, e, k, t, torn)
    BY <1>3, RotateMoves
  <2>2. now' = now /\ used' \subseteq Did \X Key \X Did \X Key \X Date
    <3>1. pin[d].key \in Key
      BY <1>3 DEF Rotate, RotateTorn, Succeeds, Live, Pinned, PinInv, PinTypeOK, Pin
    <3> QED
      BY <1>3, <3>1 DEF Rotate, RotateTorn, PinInv, PinTypeOK, Pin
  <2>3. pin' \in [Did -> Pin] /\ rank' \in [Did -> Nat] /\ pinned' \in Nat
    <3>1. pin' \in [Did -> Pin]
      <4>1. MoveShape(d, e, k, t, torn)
        BY <2>1, MoveEffect
      <4> QED
        BY <4>1 DEF MoveShape
    <3>2. rank' \in [Did -> Nat] /\ pinned' \in Nat
      BY <2>1, MoveKeeps
    <3> QED
      BY <3>1, <3>2
  <2>4. PinTypeOK'
    BY <2>2, <2>3 DEF PinInv, PinTypeOK, Date
  <2> QED
    BY <1>3, <2>1, <2>4, MoveKeeps, RotateKeepsUsed DEF PinInv
<1>4. ASSUME NEW d \in Did, NEW e \in Did, NEW k \in Key, RotateUndated(d, e, k) PROVE PinInv'
  <2>1. now \in Date
    BY DEF PinInv, PinTypeOK, Pin, Date, RotationAssumption
  <2>2. Moves(d, e, k, now, 0)
    BY <1>4 DEF RotateUndated, Moves
  <2>3. UNCHANGED <<now, used>>
    BY <1>4 DEF RotateUndated
  <2>4. PinTypeOK'
    <3>1. MoveShape(d, e, k, now, 0)
      BY <2>1, <2>2, MoveEffect
    <3>2. rank' \in [Did -> Nat] /\ pinned' \in Nat
      BY <2>1, <2>2, MoveKeeps
    <3> QED
      BY <2>3, <3>1, <3>2 DEF MoveShape, PinInv, PinTypeOK, Date
  <2> QED
    BY <1>4, <2>1, <2>2, <2>4, MoveKeeps, RotateKeepsUsed DEF PinInv
<1>5. CASE Tick
  BY <1>5 DEF Tick, PinInv, PinTypeOK, Pin, OneHeirEach, HeirsYounger, RanksGood,
     UnpinnedBlank, UsedBehind, Pinned, Retired, Live, RotationAssumption
<1> QED
  BY <1>1, <1>2, <1>3, <1>4, <1>5 DEF PinNext

\* The pins' inductive invariant: one heir each, chains that end in a live pin.
THEOREM PinsInductive == ASSUME RotationAssumption PROVE PinSpec => []PinInv
<1>1. PinInit => PinInv
  BY PinInitInv
<1>2. PinInv /\ [PinNext]_pinVars => PinInv'
  BY PinStep
<1> QED
  BY <1>1, <1>2, PTL DEF PinSpec

LEMMA TombstoneStep ==
  ASSUME RotationAssumption, PinInv, [PinNext]_pinVars, NEW x \in Did, Retired(x)
  PROVE  pin'[x] = pin[x]
<1>1. CASE UNCHANGED pinVars
  BY <1>1 DEF pinVars
<1>2. ASSUME NEW d \in Did, NEW k \in Key, FirstContact(d, k) PROVE pin'[x] = pin[x]
  BY <1>2 DEF FirstContact, PinInv, UnpinnedBlank, PinTypeOK, Pin, Retired
<1>3. ASSUME NEW d \in Did, NEW e \in Did, NEW k \in Key, NEW t \in Date, NEW torn \in {0, 1},
             Moves(d, e, k, t, torn)
      PROVE  pin'[x] = pin[x]
  <2>1. /\ Pinned(d) /\ pin[d].next = NoDid
        /\ e # d => ~ Pinned(e) /\ pin[e].next = NoDid
        /\ pin'[e] = [key |-> k, at |-> t, next |-> NoDid]
        /\ e # d => pin'[d] = IF torn = 1 THEN pin[d] ELSE [key |-> pin[d].key, at |-> t, next |-> e]
        /\ \A y \in Did \ {d, e} : pin'[y] = pin[y]
    BY <1>3, MoveEffect DEF MoveShape
  <2> QED
    BY <2>1 DEF Retired
<1>4. ASSUME NEW d \in Did, NEW e \in Did, NEW k \in Key, NEW t \in Date,
             Rotate(d, e, k, t) \/ RotateTorn(d, e, k, t)
      PROVE  pin'[x] = pin[x]
  BY <1>3, <1>4, RotateMoves
<1>5. ASSUME NEW d \in Did, NEW e \in Did, NEW k \in Key, RotateUndated(d, e, k)
      PROVE  pin'[x] = pin[x]
  <2>1. now \in Date
    BY DEF PinInv, PinTypeOK, Pin, Date, RotationAssumption
  <2> QED
    BY <1>3, <1>5, <2>1, RotateMoves
<1>6. CASE Tick
  BY <1>6 DEF Tick
<1> QED
  BY <1>1, <1>2, <1>4, <1>5, <1>6 DEF PinNext

\* A retired pin never changes: not repinned, not rotated, not rotated onto.
THEOREM TombstonesFinal == ASSUME RotationAssumption PROVE PinSpec => TombstonesStay
<1>1. PinInv /\ [PinNext]_pinVars => [\A d \in Did : Retired(d) => pin'[d] = pin[d]]_pinVars
  BY TombstoneStep
<1> QED
  BY <1>1, PinsInductive, PTL DEF PinSpec, TombstonesStay

\* Without the undated opt-in, a statement that moved a pin never moves it again.
THEOREM NoReplay == ASSUME RotationAssumption PROVE PinSpec => AcceptedOnce
<1>1. ASSUME PinInv PROVE \A d \in Did \ AcceptUndated, e \in Did, k \in Key, t \in Date :
        Rotate(d, e, k, t) => <<d, pin[d].key, e, k, t>> \notin used
  <2> SUFFICES ASSUME NEW d \in Did \ AcceptUndated, NEW e \in Did, NEW k \in Key, NEW t \in Date,
                      Rotate(d, e, k, t), <<d, pin[d].key, e, k, t>> \in used
               PROVE  FALSE
    OBVIOUS
  <2>1. ~ Retired(d) /\ InOrder(d, t)
    BY DEF Rotate, Succeeds, Live
  <2>2. t <= pin[d].at
    BY <1>1, <2>1 DEF PinInv, UsedBehind
  <2>3. pin[d].at \in Nat /\ t \in Nat /\ t > 0
    BY <1>1 DEF PinInv, PinTypeOK, Pin, Date, RotationAssumption
  <2> QED
    BY <2>1, <2>2, <2>3 DEF InOrder
<1>2. PinInv /\ [PinNext]_pinVars =>
        [\A d \in Did \ AcceptUndated, e \in Did, k \in Key, t \in Date :
           Rotate(d, e, k, t) => <<d, pin[d].key, e, k, t>> \notin used]_pinVars
  BY <1>1
<1> QED
  BY <1>2, PinsInductive, PTL DEF PinSpec, AcceptedOnce

LEMMA MoveSucceeds ==
  ASSUME RotationAssumption, PinInv, NEW d \in Did, NEW e \in Did, NEW k \in Key,
         NEW t \in Date, NEW torn \in {0, 1}, Moves(d, e, k, t, torn)
  PROVE  [Abstract!Next]_<<Known, Heir>>
<1>1. /\ Pinned(d) /\ pin[d].next = NoDid
      /\ e # d => ~ Pinned(e) /\ pin[e].next = NoDid
      /\ pin'[e] = [key |-> k, at |-> t, next |-> NoDid]
      /\ e # d => pin'[d] = IF torn = 1 THEN pin[d] ELSE [key |-> pin[d].key, at |-> t, next |-> e]
      /\ \A x \in Did \ {d, e} : pin'[x] = pin[x]
  BY MoveEffect DEF MoveShape
<1>2. Known' = Known \cup {e}
  BY <1>1 DEF Known, Pinned, RotationAssumption
<1>3. CASE e = d
  <2>1. Known' = Known
    BY <1>1, <1>2, <1>3 DEF Known
  <2>2. \A x \in Did : pin'[x].next = pin[x].next
    BY <1>1, <1>3
  <2>3. Heir' = Heir
    BY <2>2 DEF Heir
  <2> QED
    BY <2>1, <2>3
<1>4. CASE e # d /\ torn = 1
  <2>1. \A x \in Did : pin'[x].next = pin[x].next
    BY <1>1, <1>4
  <2>2. Heir' = Heir
    BY <2>1 DEF Heir
  <2>3. Abstract!Meet(e)
    BY <1>1, <1>2, <1>4, <2>2 DEF Abstract!Meet, Known
  <2> QED
    BY <2>3 DEF Abstract!Next
<1>5. CASE e # d /\ torn = 0
  <2>1. pin'[d].next = e /\ \A x \in Did \ {d} : pin'[x].next = pin[x].next
    BY <1>1, <1>5
  <2>2. Heir' = [Heir EXCEPT ![d] = e]
    BY <2>1 DEF Heir
  <2>3. Abstract!Succeed(d, e)
    BY <1>1, <1>2, <1>5, <2>2 DEF Abstract!Succeed, Known, Heir
  <2> QED
    BY <2>3 DEF Abstract!Next
<1> QED
  BY <1>3, <1>4, <1>5

\* The pins implement Succession: a rotation is one step of it, a torn one the
\* meeting of a new DID, a change of key under one DID no step at all.
THEOREM RotationImplements ==
  ASSUME RotationAssumption PROVE PinSpec => ImplementsSuccession
<1>1. PinInit => Abstract!Init
  BY DEF PinInit, Abstract!Init, Unpinned, Pinned, Known, Heir
<1>2. PinInv /\ [PinNext]_pinVars =>
        [Abstract!Next]_<<Known, Heir>>
  <2> SUFFICES ASSUME PinInv, [PinNext]_pinVars
               PROVE  [Abstract!Next]_<<Known, Heir>>
    OBVIOUS
  <2>1. CASE UNCHANGED pin
    BY <2>1 DEF Pinned, Known, Heir
  <2>2. ASSUME NEW d \in Did, NEW k \in Key, FirstContact(d, k)
        PROVE  Abstract!Next
    <3>1. /\ ~ Pinned(d) /\ pin[d].next = NoDid
          /\ pin'[d].key = k /\ pin'[d].next = NoDid
          /\ \A x \in Did \ {d} : pin'[x] = pin[x]
      BY <2>2 DEF FirstContact, PinInv, UnpinnedBlank, PinTypeOK, Pin
    <3>2. Known' = Known \cup {d}
      BY <3>1 DEF Pinned, Known, RotationAssumption
    <3>3. \A x \in Did : pin'[x].next = pin[x].next
      BY <3>1
    <3>4. UNCHANGED Heir
      BY <3>3 DEF Heir
    <3>5. Abstract!Meet(d)
      BY <3>1, <3>2, <3>4 DEF Abstract!Meet, Known
    <3> QED
      BY <3>5 DEF Abstract!Next
  <2>3. ASSUME NEW d \in Did, NEW e \in Did, NEW k \in Key, NEW t \in Date,
               Rotate(d, e, k, t) \/ RotateTorn(d, e, k, t)
        PROVE  [Abstract!Next]_<<Known, Heir>>
    BY <2>3, RotateMoves, MoveSucceeds
  <2>4. ASSUME NEW d \in Did, NEW e \in Did, NEW k \in Key, RotateUndated(d, e, k)
        PROVE  [Abstract!Next]_<<Known, Heir>>
    <3>1. now \in Date
      BY DEF PinInv, PinTypeOK, Pin, Date, RotationAssumption
    <3> QED
      BY <2>4, <3>1, RotateMoves, MoveSucceeds
  <2> QED
    BY <2>1, <2>2, <2>3, <2>4 DEF PinNext, Tick, pinVars
<1> QED
  BY <1>1, <1>2, PinsInductive, PTL DEF PinSpec, ImplementsSuccession, Abstract!Spec
=============================================================================
