------------------------ MODULE RecordRotationProofs ------------------------
(***************************************************************************)
(* Proofs about RecordRotation, for every set of DIDs, records and calls:  *)
(* chains of tombstones end in one live pin each, a call under way stays   *)
(* on its chain, and the records of two peers stay apart.                  *)
(***************************************************************************)
EXTENDS RecordRotation, RotationProofs, WellFoundedInduction

-----------------------------------------------------------------------------
(* Induction.  The library's theorems take an operator; these are about a  *)
(* set of natural numbers.                                                 *)

\* A set of natural numbers that is not empty has a least element.
LEMMA Least ==
  ASSUME NEW S, S \subseteq Nat, S # {}
  PROVE  \E m \in S : \A n \in S : m <= n
  <1> DEFINE R == {ss \in Nat \X Nat : ss[1] < ss[2]}
  <1>1. IsWellFoundedOn(R, Nat)
    BY NatLessThanWellFounded DEF OpToRel
  <1>2. PICK m \in S : \A n \in S : ~ (<<n, m>> \in R)
    <2> HIDE DEF R
    <2> QED
      BY <1>1, WFMin
  <1>3. ASSUME NEW n \in S PROVE m <= n
    <2>1. <<n, m>> \in Nat \X Nat /\ ~ (<<n, m>> \in R)
      BY <1>2
    <2>2. ~ (n < m)
      BY <2>1
    <2> QED
      BY <2>2
  <1> QED
    BY <1>3

\* A set that has 0 and with every number the next has them all.
LEMMA Induction ==
  ASSUME NEW S, 0 \in S, \A n \in Nat : n \in S => n + 1 \in S
  PROVE  Nat \subseteq S
  <1> SUFFICES ASSUME Nat \ S # {} PROVE FALSE
    OBVIOUS
  <1>1. PICK m \in Nat \ S : \A n \in Nat \ S : m <= n
    BY Least
  <1>2. m # 0 /\ m - 1 \in Nat /\ m - 1 \in S
    BY <1>1
  <1> QED
    BY <1>1, <1>2

-----------------------------------------------------------------------------
(* Chains.                                                                 *)

\* Hops is the function it is written as: for every length there is one.
LEMMA HopsExist ==
  ASSUME NEW d, NEW n \in Nat
  PROVE  \E f : f = [i \in 0..n |-> IF i = 0 THEN d ELSE After(f[i - 1])]
  <1> DEFINE Fits(f, m) == f = [i \in 0..m |-> IF i = 0 THEN d ELSE After(f[i - 1])]
             S == {m \in Nat : \E f : Fits(f, m)}
  <1>1. 0 \in S
    <2>1. Fits([i \in 0..0 |-> d], 0)
      OBVIOUS
    <2> QED
      BY <2>1
  <1>2. ASSUME NEW m \in Nat, m \in S PROVE m + 1 \in S
    <2>1. PICK f : Fits(f, m)
      BY <1>2
    <2> DEFINE g == [i \in 0..(m + 1) |-> IF i = m + 1 THEN After(f[m]) ELSE f[i]]
    <2>2. ASSUME NEW i \in 0..(m + 1) PROVE g[i] = IF i = 0 THEN d ELSE After(g[i - 1])
      <3>1. CASE i = 0
        BY <2>1, <3>1
      <3>2. CASE i \in 1..m
        <4>1. g[i] = f[i] /\ g[i - 1] = f[i - 1]
          BY <3>2
        <4>2. f[i] = After(f[i - 1])
          BY <2>1, <3>2
        <4> QED
          BY <3>2, <4>1, <4>2
      <3>3. CASE i = m + 1
        <4>1. g[i] = After(f[m]) /\ g[i - 1] = f[m]
          BY <3>3
        <4> QED
          BY <3>3, <4>1
      <3> QED
        BY <3>1, <3>2, <3>3
    <2>3. Fits(g, m + 1)
      BY <2>2
    <2> HIDE DEF g, Fits
    <2> QED
      BY <2>3
  <1>3. n \in S
    <2> HIDE DEF S
    <2> QED
      BY <1>1, <1>2, Induction
  <1> QED
    BY <1>3

\* So each DID of a chain is the one after the one before.
LEMMA HopsDef ==
  ASSUME NEW d, NEW n \in Nat
  PROVE  Hops(d, n) = [i \in 0..n |-> IF i = 0 THEN d ELSE After(Hops(d, n)[i - 1])]
  <1> DEFINE Fits(f) == f = [i \in 0..n |-> IF i = 0 THEN d ELSE After(f[i - 1])]
  <1>1. \E f : Fits(f)
    BY HopsExist
  <1>2. Hops(d, n) = CHOOSE f : Fits(f)
    BY DEF Hops
  <1>3. Fits(CHOOSE f : Fits(f))
    <2> HIDE DEF Fits
    <2> QED
      BY <1>1
  <1> QED
    BY <1>2, <1>3

\* The first DID of a chain, and each one from the one before.
LEMMA HopsAt ==
  ASSUME NEW d, NEW n \in Nat
  PROVE  /\ Hops(d, n)[0] = d
         /\ \A i \in 1..n : Hops(d, n)[i] = After(Hops(d, n)[i - 1])
         /\ \A i \in 0..(n - 1) : Hops(d, n)[i + 1] = After(Hops(d, n)[i])
  <1> DEFINE h == Hops(d, n)
  <1>1. h = [i \in 0..n |-> IF i = 0 THEN d ELSE After(h[i - 1])]
    BY HopsDef
  <1> HIDE DEF h
  <1>2. h[0] = d /\ \A i \in 1..n : h[i] = After(h[i - 1])
    BY <1>1
  <1>3. ASSUME NEW i \in 0..(n - 1) PROVE h[i + 1] = After(h[i])
    <2>1. i + 1 \in 1..n /\ (i + 1) - 1 = i
      OBVIOUS
    <2> QED
      BY <1>2, <2>1
  <1> QED
    BY <1>2, <1>3 DEF h

\* How far one looks does not change the chain.
LEMMA HopsAgree ==
  ASSUME NEW d, NEW m \in Nat, NEW n \in Nat, m <= n
  PROVE  \A i \in 0..m : Hops(d, m)[i] = Hops(d, n)[i]
  <1> DEFINE S == {i \in Nat : i <= m => Hops(d, m)[i] = Hops(d, n)[i]}
  <1>1. 0 \in S
    BY HopsAt
  <1>2. ASSUME NEW i \in Nat, i \in S PROVE i + 1 \in S
    <2> SUFFICES ASSUME i + 1 <= m PROVE Hops(d, m)[i + 1] = Hops(d, n)[i + 1]
      OBVIOUS
    <2>1. i \in 0..(m - 1) /\ i \in 0..(n - 1) /\ Hops(d, m)[i] = Hops(d, n)[i]
      BY <1>2
    <2> QED
      BY <2>1, HopsAt
  <1>3. Nat \subseteq S
    <2> HIDE DEF S
    <2> QED
      BY <1>1, <1>2, Induction
  <1> QED
    BY <1>3

\* A chain that begins one later is the same one.
LEMMA HopsShift ==
  ASSUME NEW d, NEW n \in Nat
  PROVE  \A i \in 0..n : Hops(After(d), n)[i] = Hops(d, n + 1)[i + 1]
  <1> DEFINE S == {i \in Nat : i <= n => Hops(After(d), n)[i] = Hops(d, n + 1)[i + 1]}
  <1>1. 0 \in S
    <2>1. 0 \in 0..((n + 1) - 1)
      OBVIOUS
    <2>2. Hops(d, n + 1)[0] = d /\ Hops(d, n + 1)[0 + 1] = After(Hops(d, n + 1)[0])
      BY <2>1, HopsAt, n + 1 \in Nat
    <2>3. Hops(After(d), n)[0] = After(d)
      BY HopsAt
    <2> QED
      BY <2>2, <2>3
  <1>2. ASSUME NEW i \in Nat, i \in S PROVE i + 1 \in S
    <2> SUFFICES ASSUME i + 1 <= n PROVE Hops(After(d), n)[i + 1] = Hops(d, n + 1)[(i + 1) + 1]
      OBVIOUS
    <2>1. i \in 0..(n - 1) /\ i + 1 \in 0..((n + 1) - 1) /\ n + 1 \in Nat
      OBVIOUS
    <2>2. Hops(After(d), n)[i] = Hops(d, n + 1)[i + 1]
      BY <1>2
    <2>3. Hops(After(d), n)[i + 1] = After(Hops(After(d), n)[i])
      BY <2>1, HopsAt
    <2>4. Hops(d, n + 1)[(i + 1) + 1] = After(Hops(d, n + 1)[i + 1])
      BY <2>1, HopsAt
    <2> QED
      BY <2>2, <2>3, <2>4
  <1>3. Nat \subseteq S
    <2> HIDE DEF S
    <2> QED
      BY <1>1, <1>2, Induction
  <1> QED
    BY <1>3

\* A chain stays at a DID that is not retired.
LEMMA HopsStay ==
  ASSUME NEW d, NEW n \in Nat, NEW k \in 0..n, ~ Retired(Hops(d, n)[k])
  PROVE  \A i \in k..n : Hops(d, n)[i] = Hops(d, n)[k]
  <1> DEFINE S == {i \in Nat : i \in k..n => Hops(d, n)[i] = Hops(d, n)[k]}
  <1>1. 0 \in S
    OBVIOUS
  <1>2. ASSUME NEW i \in Nat, i \in S PROVE i + 1 \in S
    <2> SUFFICES ASSUME i + 1 \in k..n PROVE Hops(d, n)[i + 1] = Hops(d, n)[k]
      OBVIOUS
    <2>1. CASE i + 1 = k
      BY <2>1
    <2>2. CASE i + 1 # k
      <3>1. i \in 0..(n - 1) /\ i \in k..n /\ Hops(d, n)[i] = Hops(d, n)[k]
        BY <1>2, <2>2
      <3>2. Hops(d, n)[i + 1] = After(Hops(d, n)[i])
        BY <3>1, HopsAt
      <3> QED
        BY <3>1, <3>2 DEF After
    <2> QED
      BY <2>1, <2>2
  <1>3. Nat \subseteq S
    <2> HIDE DEF S
    <2> QED
      BY <1>1, <1>2, Induction
  <1> QED
    BY <1>3

-----------------------------------------------------------------------------
(* Peers.                                                                  *)

\* Along a chain ranks rise, so that it is at the end after as many hops as there
\* are ranks.
LEMMA HopsRise ==
  ASSUME RotationAssumption, PinInv, NEW d \in Did, NEW n \in Nat
  PROVE  \A i \in 0..n : /\ Hops(d, n)[i] \in Did
                         /\ Retired(Hops(d, n)[i]) => rank[Hops(d, n)[i]] > i
  <1> DEFINE h == Hops(d, n)
             S == {i \in Nat : i <= n => h[i] \in Did /\ (Retired(h[i]) => rank[h[i]] > i)}
  <1>0. /\ rank \in [Did -> Nat]
        /\ \A x \in Did : pin[x].next \in Did \cup {NoDid}
        /\ \A x \in Did : Retired(x) => rank[x] > 0 /\ rank[pin[x].next] > rank[x]
    BY DEF PinInv, PinTypeOK, Pin, HeirsYounger, RanksGood
  <1>1. 0 \in S
    BY <1>0, HopsAt
  <1>2. ASSUME NEW i \in Nat, i \in S PROVE i + 1 \in S
    <2> SUFFICES ASSUME i + 1 <= n PROVE h[i + 1] \in Did /\ (Retired(h[i + 1]) => rank[h[i + 1]] > i + 1)
      OBVIOUS
    <2>1. h[i] \in Did /\ (Retired(h[i]) => rank[h[i]] > i)
      BY <1>2
    <2>2. i \in 0..(n - 1) /\ h[i + 1] = After(h[i])
      BY HopsAt
    <2> HIDE DEF h
    <2>3. CASE Retired(h[i])
      <3>1. h[i + 1] = pin[h[i]].next /\ h[i + 1] \in Did
        BY <1>0, <2>1, <2>2, <2>3 DEF After, Retired
      <3>2. rank[h[i + 1]] > rank[h[i]] /\ rank[h[i]] > i
        BY <1>0, <2>1, <2>3, <3>1
      <3> QED
        BY <1>0, <2>1, <3>1, <3>2
    <2>4. CASE ~ Retired(h[i])
      BY <2>1, <2>2, <2>4 DEF After
    <2> QED
      BY <2>3, <2>4
  <1>3. Nat \subseteq S
    <2> HIDE DEF S
    <2> QED
      BY <1>1, <1>2, Induction
  <1> QED
    BY <1>3

\* A peer is a DID that is not retired; it is its own, and that of the DIDs before it.
LEMMA PeerIs ==
  ASSUME RotationAssumption, PinInv, NEW d \in Did
  PROVE  /\ Peer(d) \in Did /\ ~ Retired(Peer(d))
         /\ ~ Retired(d) => Peer(d) = d
         /\ Retired(d) => Peer(d) = Peer(pin[d].next)
  <1>1. pinned \in Nat /\ \A x \in Did : rank[x] <= pinned
    BY DEF PinInv, PinTypeOK, RanksGood
  <1>2. Peer(d) \in Did /\ ~ Retired(Peer(d))
    <2>1. pinned \in 0..pinned
      BY <1>1
    <2>2. Peer(d) \in Did /\ (Retired(Peer(d)) => rank[Peer(d)] > pinned)
      BY <1>1, <2>1, HopsRise DEF Peer
    <2>3. rank[Peer(d)] \in Nat
      BY <2>2 DEF PinInv, PinTypeOK
    <2> QED
      BY <1>1, <2>2, <2>3
  <1>3. ~ Retired(d) => Peer(d) = d
    <2>1. 0 \in 0..pinned /\ pinned \in 0..pinned /\ Hops(d, pinned)[0] = d
      BY <1>1, HopsAt
    <2> QED
      BY <1>1, <2>1, HopsStay DEF Peer
  <1>4. Retired(d) => Peer(d) = Peer(pin[d].next)
    <2> SUFFICES ASSUME Retired(d) PROVE Peer(d) = Peer(pin[d].next)
      OBVIOUS
    <2>1. After(d) = pin[d].next
      BY DEF After
    <2>2. pinned \in 0..pinned /\ pinned + 1 \in Nat /\ pinned <= pinned + 1 /\ pinned \in 0..((pinned + 1) - 1)
      BY <1>1
    <2>3. Peer(pin[d].next) = Hops(d, pinned + 1)[pinned + 1]
      BY <1>1, <2>1, <2>2, HopsShift DEF Peer
    <2>4. Hops(d, pinned + 1)[pinned + 1] = After(Hops(d, pinned + 1)[pinned])
      BY <2>2, HopsAt
    <2>5. Hops(d, pinned + 1)[pinned] = Peer(d)
      BY <1>1, <2>2, HopsAgree DEF Peer
    <2>6. After(Peer(d)) = Peer(d)
      BY <1>2 DEF After
    <2> QED
      BY <2>3, <2>4, <2>5, <2>6
  <1> QED
    BY <1>2, <1>3, <1>4

\* Whatever satisfies these equations is the peer.
LEMMA PeerUnique ==
  ASSUME RotationAssumption, PinInv, NEW F,
         \A d \in Did : F[d] = IF Retired(d) THEN F[pin[d].next] ELSE d
  PROVE  \A d \in Did : Peer(d) = F[d]
  <1> DEFINE Bad == {d \in Did : Peer(d) # F[d]}
             S == {pinned - rank[d] : d \in Bad}
  <1> SUFFICES ASSUME Bad # {} PROVE FALSE
    OBVIOUS
  <1>0. /\ rank \in [Did -> Nat] /\ pinned \in Nat
        /\ \A x \in Did : rank[x] <= pinned /\ pin[x].next \in Did \cup {NoDid}
        /\ \A x \in Did : Retired(x) => rank[pin[x].next] > rank[x]
    BY DEF PinInv, PinTypeOK, Pin, HeirsYounger, RanksGood
  <1>1. PICK m \in S : \A n \in S : m <= n
    <2>1. S \subseteq Nat /\ S # {}
      BY <1>0
    <2> HIDE DEF S
    <2> QED
      BY <2>1, Least
  <1>2. PICK d \in Bad : m = pinned - rank[d]
    BY <1>1
  <1>3. Retired(d)
    BY <1>2, PeerIs
  <1>4. pin[d].next \in Did /\ rank[pin[d].next] > rank[d]
    BY <1>0, <1>3 DEF Retired
  <1>5. pin[d].next \in Bad
    BY <1>2, <1>3, <1>4, PeerIs
  <1>6. pinned - rank[pin[d].next] \in S
    BY <1>5
  <1>7. m <= pinned - rank[pin[d].next]
    BY <1>1, <1>6
  <1> QED
    BY <1>0, <1>2, <1>4, <1>7

\* The DIDs after a pinned one are pinned, up to its peer.
LEMMA PeerPinned ==
  ASSUME RotationAssumption, PinInv, NEW d \in Did, Pinned(d)
  PROVE  Pinned(Peer(d))
  <1> DEFINE h == Hops(d, pinned)
             S == {i \in Nat : i <= pinned => Pinned(h[i])}
  <1>0. /\ pinned \in Nat
        /\ \A x \in Did : Retired(x) => Pinned(pin[x].next)
    BY DEF PinInv, PinTypeOK, HeirsYounger
  <1>1. 0 \in S
    BY <1>0, HopsAt
  <1>2. ASSUME NEW i \in Nat, i \in S PROVE i + 1 \in S
    <2> SUFFICES ASSUME i + 1 <= pinned PROVE Pinned(h[i + 1])
      OBVIOUS
    <2>1. i \in 0..pinned /\ i \in 0..(pinned - 1) /\ Pinned(h[i])
      BY <1>0, <1>2
    <2>2. h[i] \in Did /\ h[i + 1] = After(h[i])
      BY <1>0, <2>1, HopsRise, HopsAt
    <2> HIDE DEF h
    <2> QED
      BY <1>0, <2>1, <2>2 DEF After
  <1>3. Nat \subseteq S
    <2> HIDE DEF S
    <2> QED
      BY <1>1, <1>2, Induction
  <1> QED
    BY <1>0, <1>3 DEF Peer

-----------------------------------------------------------------------------
(* What a step of the pins does to them.                                   *)

\* Nothing, or it retires d in favour of e, which nobody was pinned under.
Retires(d, e) ==
  /\ d # e /\ Live(d) /\ ~ Pinned(e)
  /\ pin'[d].next = e
  /\ \A x \in Did \ {d} : pin'[x].next = pin[x].next

RetiresNone == \A x \in Did : pin'[x].next = pin[x].next

\* The step of a rotation.
LEMMA MoveRetires ==
  ASSUME RotationAssumption, PinInv, NEW d \in Did, NEW e \in Did, NEW k \in Key,
         NEW t \in Date, NEW torn \in {0, 1}, Moves(d, e, k, t, torn)
  PROVE  /\ RetiresNone \/ Retires(d, e)
         /\ \A x \in Did : Pinned(x) => Pinned(x)'
  <1>1. MoveShape(d, e, k, t, torn)
    BY MoveEffect
  <1>2. \A x \in Did : Pinned(x) => Pinned(x)'
    BY <1>1 DEF MoveShape, Pinned, RotationAssumption
  <1>3. CASE d = e \/ torn = 1
    <2>1. ASSUME NEW x \in Did PROVE pin'[x].next = pin[x].next
      <3>1. CASE x = e
        BY <1>1, <1>3, <3>1 DEF MoveShape
      <3>2. CASE x = d /\ x # e
        BY <1>1, <1>3, <3>2 DEF MoveShape
      <3>3. CASE x # d /\ x # e
        BY <1>1, <3>3 DEF MoveShape
      <3> QED
        BY <3>1, <3>2, <3>3
    <2> QED
      BY <1>2, <2>1 DEF RetiresNone
  <1>4. CASE d # e /\ torn = 0
    <2>1. Live(d) /\ ~ Pinned(e)
      BY <1>1, <1>4 DEF MoveShape, Live, Retired
    <2> QED
      BY <1>1, <1>2, <1>4, <2>1 DEF MoveShape, Retires
  <1> QED
    BY <1>2, <1>3, <1>4

\* Every step of the pins.
LEMMA PinRetires ==
  ASSUME RotationAssumption, PinInv, [PinNext]_pinVars
  PROVE  /\ RetiresNone \/ \E d, e \in Did : Retires(d, e)
         /\ \A x \in Did : Pinned(x) => Pinned(x)'
  <1>1. CASE UNCHANGED pin
    BY <1>1 DEF RetiresNone, Pinned
  <1>2. ASSUME NEW d \in Did, NEW k \in Key, FirstContact(d, k)
        PROVE  RetiresNone /\ \A x \in Did : Pinned(x) => Pinned(x)'
    <2>1. /\ pin[d].next = NoDid
          /\ pin'[d] = [key |-> k, at |-> 0, next |-> NoDid]
          /\ \A x \in Did \ {d} : pin'[x] = pin[x]
      BY <1>2 DEF FirstContact, PinInv, UnpinnedBlank, PinTypeOK, Pin
    <2> QED
      BY <2>1 DEF RetiresNone, Pinned, RotationAssumption
  <1>3. ASSUME NEW d \in Did, NEW e \in Did, NEW k \in Key, NEW t \in Date,
               Rotate(d, e, k, t) \/ RotateTorn(d, e, k, t)
        PROVE  /\ RetiresNone \/ Retires(d, e)
               /\ \A x \in Did : Pinned(x) => Pinned(x)'
    <2>1. PICK torn \in {0, 1} : Moves(d, e, k, t, torn)
      BY <1>3, RotateMoves
    <2> QED
      BY <2>1, MoveRetires
  <1>4. ASSUME NEW d \in Did, NEW e \in Did, NEW k \in Key, RotateUndated(d, e, k)
        PROVE  /\ RetiresNone \/ Retires(d, e)
               /\ \A x \in Did : Pinned(x) => Pinned(x)'
    <2>1. now \in Date
      BY DEF PinInv, PinTypeOK, Date, RotationAssumption
    <2>2. PICK t \in Date : t = now
      BY <2>1
    <2>3. Moves(d, e, k, t, 0)
      BY <1>4, <2>2, RotateMoves
    <2> QED
      BY <2>3, MoveRetires
  <1>5. CASE UNCHANGED pinVars
    BY <1>1, <1>5 DEF pinVars
  <1>6. CASE Tick
    BY <1>1, <1>6 DEF Tick
  <1> QED
    BY <1>1, <1>2, <1>3, <1>4, <1>5, <1>6 DEF PinNext

-----------------------------------------------------------------------------
(* The lemmas about chains and peers, as facts about a state: they hold of *)
(* the next state too.                                                     *)

HopsFacts ==
  \A d : \A n \in Nat :
    /\ Hops(d, n)[0] = d
    /\ \A i \in 0..(n - 1) : Hops(d, n)[i + 1] = After(Hops(d, n)[i])

PeerFacts ==
  \A d \in Did : /\ Peer(d) \in Did /\ ~ Retired(Peer(d))
                 /\ Peer(d) = IF Retired(d) THEN Peer(pin[d].next) ELSE d
                 /\ Pinned(d) => Pinned(Peer(d))

\* The chains of the next state.
LEMMA HopsNext == HopsFacts'
  <1>1. HopsFacts
    BY HopsAt DEF HopsFacts
  <1> QED
    BY <1>1, PTL

\* The peers of this state.
LEMMA PeersNow == RotationAssumption /\ PinInv => PeerFacts
  BY PeerIs, PeerPinned DEF PeerFacts

\* The peers of the next state are those its own equations give.
PeersAre(F) == (\A d \in Did : F[d] = IF Retired(d) THEN F[pin[d].next] ELSE d)
                 => \A d \in Did : Peer(d) = F[d]

\* In the next state, too, whatever satisfies the equations is the peer.
LEMMA PeerUniqueNext ==
  ASSUME RotationAssumption, NEW F
  PROVE  PinInv' => PeersAre(F)'
  <1>1. PinInv => PeersAre(F)
    BY PeerUnique DEF PeersAre
  <1> QED
    BY <1>1, PTL

-----------------------------------------------------------------------------
(* What a step of the pins does to chains and peers.                       *)

\* The peers stay as they are, or one of them goes by a DID nobody was pinned under.
LEMMA PeerMoves ==
  ASSUME RotationAssumption, PinInv, PinInv', RetiresNone \/ \E d, e \in Did : Retires(d, e)
  PROVE  \/ \A x \in Did : Peer(x)' = Peer(x)
         \/ \E d, e \in Did : /\ ~ Pinned(e)
                            /\ \A x \in Did : Peer(x)' = IF Peer(x) = d THEN e ELSE Peer(x)
  <1>1. PeerFacts /\ \A x \in Did : pin[x].next \in Did \cup {NoDid}
    BY PeersNow DEF PinInv, PinTypeOK, Pin
  <1>2. CASE RetiresNone
    <2>1. PICK F : F = [x \in Did |-> Peer(x)]
      OBVIOUS
    <2>2. ASSUME NEW x \in Did PROVE F[x] = IF Retired(x)' THEN F[pin'[x].next] ELSE x
      <3>1. pin'[x].next = pin[x].next /\ (Retired(x)' <=> Retired(x))
        BY <1>2 DEF RetiresNone, Retired
      <3>2. Peer(x) = IF Retired(x) THEN Peer(pin[x].next) ELSE x
        BY <1>1 DEF PeerFacts
      <3>3. Retired(x) => pin[x].next \in Did
        BY <1>1 DEF Retired
      <3> QED
        BY <2>1, <3>1, <3>2, <3>3
    <2>3. PeersAre(F)'
      BY PeerUniqueNext
    <2> QED
      BY <2>1, <2>2, <2>3 DEF PeersAre
  <1>3. ASSUME NEW d \in Did, NEW e \in Did, Retires(d, e)
        PROVE  \A x \in Did : Peer(x)' = IF Peer(x) = d THEN e ELSE Peer(x)
    <2>1. PICK F : F = [x \in Did |-> IF Peer(x) = d THEN e ELSE Peer(x)]
      OBVIOUS
    <2>2. ~ Retired(d) /\ ~ Retired(e) /\ Peer(e) = e /\ Peer(d) = d /\ F[e] = e
      <3>1. ~ Retired(d) /\ ~ Retired(e)
        BY <1>3 DEF Retires, Live, Retired, PinInv, UnpinnedBlank
      <3> QED
        BY <1>1, <1>3, <2>1, <3>1 DEF PeerFacts, Retires
    <2>3. ASSUME NEW x \in Did PROVE F[x] = IF Retired(x)' THEN F[pin'[x].next] ELSE x
      <3>1. CASE x = d
        <4>1. pin'[x].next = e /\ Retired(x)'
          BY <1>3, <3>1 DEF Retires, Retired, RotationAssumption
        <4> QED
          BY <2>1, <2>2, <3>1, <4>1
      <3>2. CASE x # d /\ Retired(x)
        <4>1. pin'[x].next = pin[x].next /\ Retired(x)'
          BY <1>3, <3>2 DEF Retires, Retired
        <4>2. Peer(x) = Peer(pin[x].next) /\ pin[x].next \in Did
          BY <1>1, <3>2 DEF PeerFacts, Retired
        <4> QED
          BY <2>1, <4>1, <4>2
      <3>3. CASE x # d /\ ~ Retired(x)
        <4>1. ~ Retired(x)'
          BY <1>3, <3>3 DEF Retires, Retired
        <4>2. Peer(x) = x
          BY <1>1, <3>3 DEF PeerFacts
        <4> QED
          BY <2>1, <3>3, <4>1, <4>2
      <3> QED
        BY <3>1, <3>2, <3>3
    <2>4. PeersAre(F)'
      BY PeerUniqueNext
    <2> QED
      BY <2>1, <2>3, <2>4 DEF PeersAre
  <1> QED
    BY <1>2, <1>3 DEF Retires

\* Two pinned DIDs are the same peer's after a step as before it.
LEMMA PeersKept ==
  ASSUME RotationAssumption, PinInv, PinInv', [PinNext]_pinVars,
         NEW x \in Did, NEW y \in Did, Pinned(x), Pinned(y)
  PROVE  (Peer(x) = Peer(y))' <=> Peer(x) = Peer(y)
  <1>1. Pinned(Peer(x)) /\ Pinned(Peer(y))
    BY PeersNow DEF PeerFacts
  <1> QED
    BY <1>1, PinRetires, PeerMoves

\* A chain of tombstones stays as it is.
LEMMA ChainStays ==
  ASSUME RotationAssumption, PinInv, [PinNext]_pinVars,
         NEW d \in Did, NEW m \in Nat, NEW n \in 0..m,
         \A i \in 0..(n - 1) : Retired(Hops(d, m)[i])
  PROVE  /\ \A i \in 0..n : Hops(d, m)'[i] = Hops(d, m)[i]
         /\ \A i \in 0..(n - 1) : Retired(Hops(d, m)[i])'
  <1> DEFINE h == Hops(d, m)
             S == {i \in Nat : i <= n => h'[i] = h[i]}
  <1>1. \A i \in 0..(n - 1) : h[i] \in Did /\ pin'[h[i]] = pin[h[i]]
    BY HopsRise, TombstoneStep
  <1>2. 0 \in S
    BY HopsAt, HopsNext DEF HopsFacts
  <1>3. ASSUME NEW i \in Nat, i \in S PROVE i + 1 \in S
    <2> SUFFICES ASSUME i + 1 <= n PROVE h'[i + 1] = h[i + 1]
      OBVIOUS
    <2>1. i \in 0..(n - 1) /\ i \in 0..(m - 1) /\ h'[i] = h[i]
      BY <1>3
    <2>2. h[i + 1] = After(h[i])
      BY <2>1, HopsAt
    <2>3. h'[i + 1] = After(h[i])'
      BY <2>1, HopsNext DEF HopsFacts
    <2>4. pin'[h[i]] = pin[h[i]]
      BY <1>1, <2>1
    <2> HIDE DEF h
    <2> QED
      BY <2>1, <2>2, <2>3, <2>4 DEF After, Retired
  <1>4. Nat \subseteq S
    <2> HIDE DEF S
    <2> QED
      BY <1>2, <1>3, Induction
  <1>5. \A i \in 0..n : h'[i] = h[i]
    BY <1>4
  <1>6. ASSUME NEW i \in 0..(n - 1) PROVE Retired(h[i])'
    <2>1. h'[i] = h[i] /\ pin'[h[i]] = pin[h[i]] /\ Retired(h[i])
      BY <1>1, <1>5
    <2> HIDE DEF h
    <2> QED
      BY <2>1 DEF Retired
  <1> QED
    BY <1>5, <1>6

-----------------------------------------------------------------------------
(* The inductive invariant.                                                *)

\* From d the chain goes over tombstones to e.
Walks(d, e) ==
  \E n \in 1..MaxHops : /\ Hops(d, MaxHops)[n] = e
                        /\ \A i \in 0..(n - 1) : Retired(Hops(d, MaxHops)[i])

\* The DIDs that a call under way deals with are one peer's.
OnePeer(c, D) == \A d \in D : d \in Did /\ Pinned(d) /\ Peer(d) = Peer(c.at)

CallGood(c) ==
  c.pc # "idle" =>
    /\ c.at \in Did /\ c.end \in Did
    /\ Walks(c.at, c.end)
    /\ OnePeer(c, {c.at, c.end})
    /\ c.pc \in {"holder", "put"} =>
         \E r \in Rec : c.holders = {r} /\ holds[r] # {} /\ OnePeer(c, holds[r] \cup c.copy)

\* A record holds one peer's DIDs.
RecordGood(D) == \A d, e \in D : Pinned(d) /\ Peer(d) = Peer(e)

RotationIInv ==
  /\ PinInv
  /\ TypeOK
  /\ \A r \in Rec : RecordGood(holds[r])
  /\ \A p \in Proc : CallGood(call[p])

-----------------------------------------------------------------------------

\* A walk goes over tombstones, and along it the peer is the same.
LEMMA WalkPeer ==
  ASSUME RotationAssumption, PinInv, NEW d \in Did, NEW e, Walks(d, e)
  PROVE  e \in Did /\ Retired(d) /\ Pinned(d) /\ Pinned(e) /\ Peer(e) = Peer(d)
  <1>1. PICK n \in 1..MaxHops : /\ Hops(d, MaxHops)[n] = e
                               /\ \A i \in 0..(n - 1) : Retired(Hops(d, MaxHops)[i])
    BY DEF Walks
  <1> DEFINE h == Hops(d, MaxHops)
             S == {i \in Nat : i <= n => h[i] \in Did /\ Pinned(h[i]) /\ Peer(h[i]) = Peer(d)}
  <1>0. MaxHops \in Nat /\ n \in Nat /\ 0 \in 0..(n - 1) /\ h[0] = d
    BY HopsAt, HopsAssumption
  <1>2. Retired(d) /\ Pinned(d)
    BY <1>0, <1>1 DEF PinInv, HeirsYounger
  <1>3. 0 \in S
    BY <1>0, <1>2
  <1>4. ASSUME NEW i \in Nat, i \in S PROVE i + 1 \in S
    <2> SUFFICES ASSUME i + 1 <= n
                 PROVE  h[i + 1] \in Did /\ Pinned(h[i + 1]) /\ Peer(h[i + 1]) = Peer(d)
      OBVIOUS
    <2>1. i \in 0..(n - 1) /\ i \in 0..(MaxHops - 1) /\ i + 1 \in 0..MaxHops
      BY <1>0, <1>1
    <2>2. h[i] \in Did /\ Pinned(h[i]) /\ Peer(h[i]) = Peer(d) /\ Retired(h[i])
      BY <1>1, <1>4, <2>1
    <2>3. h[i + 1] = After(h[i]) /\ h[i + 1] \in Did
      BY <1>0, <2>1, HopsAt, HopsRise
    <2> HIDE DEF h
    <2>4. h[i + 1] = pin[h[i]].next
      BY <2>2, <2>3 DEF After
    <2>5. Pinned(h[i + 1])
      BY <2>2, <2>4 DEF PinInv, HeirsYounger
    <2>6. Peer(h[i]) = Peer(h[i + 1])
      BY <2>2, <2>4, PeersNow DEF PeerFacts
    <2> QED
      BY <2>2, <2>3, <2>5, <2>6
  <1>5. Nat \subseteq S
    <2> HIDE DEF S
    <2> QED
      BY <1>3, <1>4, Induction
  <1> QED
    BY <1>0, <1>1, <1>2, <1>5

\* One hop on, a walk that is not over is a walk.
LEMMA WalkOn ==
  ASSUME RotationAssumption, PinInv, NEW d \in Did, NEW e, Walks(d, e), pin[d].next # e
  PROVE  pin[d].next \in Did /\ Walks(pin[d].next, e)
  <1>1. PICK n \in 1..MaxHops : /\ Hops(d, MaxHops)[n] = e
                               /\ \A i \in 0..(n - 1) : Retired(Hops(d, MaxHops)[i])
    BY DEF Walks
  <1> DEFINE x == pin[d].next
  <1>0. MaxHops \in Nat /\ 0 \in 0..(n - 1) /\ 0 \in 0..(MaxHops - 1) /\ Hops(d, MaxHops)[0] = d
    BY HopsAt, HopsAssumption
  <1>2. x = After(d) /\ Hops(d, MaxHops)[0 + 1] = After(d) /\ x \in Did
    <2>1. Retired(d)
      BY <1>0, <1>1
    <2>2. Hops(d, MaxHops)[0 + 1] = After(d)
      BY <1>0, HopsAt
    <2> QED
      BY <2>1, <2>2 DEF After, Retired, PinInv, PinTypeOK, Pin
  <1>3. n # 1
    BY <1>1, <1>2
  <1>4. n - 1 \in 1..MaxHops
    BY <1>0, <1>3
  <1>5. ASSUME NEW i \in 0..(n - 1) PROVE Hops(x, MaxHops)[i] = Hops(d, MaxHops)[i + 1]
    <2>1. i \in 0..MaxHops /\ i + 1 \in 0..MaxHops /\ MaxHops + 1 \in Nat /\ MaxHops <= MaxHops + 1
      BY <1>0, <1>4
    <2>2. Hops(After(d), MaxHops)[i] = Hops(d, MaxHops + 1)[i + 1]
      BY <1>0, <2>1, HopsShift
    <2>3. Hops(d, MaxHops)[i + 1] = Hops(d, MaxHops + 1)[i + 1]
      BY <1>0, <2>1, HopsAgree
    <2> QED
      BY <1>2, <2>2, <2>3
  <1>6. Hops(x, MaxHops)[n - 1] = e
    <2>1. n - 1 \in 0..(n - 1) /\ (n - 1) + 1 = n
      BY <1>4
    <2> QED
      BY <1>1, <1>5, <2>1
  <1>7. ASSUME NEW i \in 0..((n - 1) - 1) PROVE Retired(Hops(x, MaxHops)[i])
    <2>1. i \in 0..(n - 1) /\ i + 1 \in 0..(n - 1)
      BY <1>4
    <2> QED
      BY <1>1, <1>5, <2>1
  <1> QED
    BY <1>2, <1>4, <1>6, <1>7 DEF Walks

\* A call that has begun is on a walk: to the first DID of the chain that is live.
LEMMA WalkStarts ==
  ASSUME RotationAssumption, PinInv, NEW d \in Did, Retired(d), Live(Hops(d, MaxHops)[MaxHops])
  PROVE  Walks(d, Hops(d, MaxHops)[MaxHops])
  <1> DEFINE h == Hops(d, MaxHops)
             S == {i \in 0..MaxHops : ~ Retired(h[i])}
  <1>1. MaxHops \in Nat /\ h[0] = d
    BY HopsAt, HopsAssumption
  <1>2. MaxHops \in S /\ S \subseteq Nat
    BY <1>1 DEF Live
  <1>3. PICK n \in S : \A i \in S : n <= i
    <2> HIDE DEF S
    <2> QED
      BY <1>2, Least
  <1>4. n \in 1..MaxHops
    <2>1. n # 0
      BY <1>1, <1>3
    <2> QED
      BY <1>3, <2>1
  <1>5. h[MaxHops] = h[n]
    BY <1>1, <1>3, <1>4, HopsStay
  <1>6. \A i \in 0..(n - 1) : Retired(h[i])
    BY <1>1, <1>3, <1>4
  <1> QED
    BY <1>4, <1>5, <1>6 DEF Walks

\* A step of the pins leaves walks, records and calls good.
LEMMA PinsKeepWalks ==
  ASSUME RotationAssumption, PinInv, [PinNext]_pinVars, NEW d \in Did, NEW e, Walks(d, e)
  PROVE  Walks(d, e)'
  <1>1. PICK n \in 1..MaxHops : /\ Hops(d, MaxHops)[n] = e
                               /\ \A i \in 0..(n - 1) : Retired(Hops(d, MaxHops)[i])
    BY DEF Walks
  <1>2. MaxHops \in Nat /\ n \in 0..MaxHops
    BY HopsAssumption
  <1>3. Hops(d, MaxHops)'[n] = e /\ \A i \in 0..(n - 1) : Retired(Hops(d, MaxHops)[i])'
    BY <1>1, <1>2, ChainStays
  <1> QED
    BY <1>3 DEF Walks

\* So does every step that is one of the pins or leaves them alone.
LEMMA PinsFrame ==
  ASSUME RotationAssumption, PinInv, [PinNext]_pinVars
  PROVE  /\ PinInv'
         /\ \A x \in Did : Pinned(x) => Pinned(x)'
         /\ \A d \in Did : \A e : Walks(d, e) => Walks(d, e)'
         /\ \A x, y \in Did : Pinned(x) /\ Pinned(y)
                             => ((Peer(x) = Peer(y))' <=> Peer(x) = Peer(y))
  <1>1. PinInv'
    BY PinStep
  <1> QED
    BY <1>1, PinRetires, PinsKeepWalks, PeersKept

\* DIDs of one peer stay so.
LEMMA OnePeerKept ==
  ASSUME RotationAssumption, PinInv, [PinNext]_pinVars,
         NEW c, NEW D, OnePeer(c, {c.at}), OnePeer(c, D)
  PROVE  OnePeer(c, D)'
  BY PinsFrame DEF OnePeer

\* A call that the step does not take stays good, if the records it has to do with
\* keep its peer's DIDs.
LEMMA CallKept ==
  ASSUME RotationAssumption, PinInv, [PinNext]_pinVars, NEW c, CallGood(c),
         c.pc \in {"holder", "put"} =>
           \A r \in Rec : c.holders = {r} /\ holds[r] # {} /\ OnePeer(c, holds[r] \cup c.copy) =>
              holds'[r] # {} /\ OnePeer(c, holds'[r])
  PROVE  CallGood(c)'
  <1> SUFFICES ASSUME c.pc # "idle"
               PROVE  /\ c.at \in Did /\ c.end \in Did
                      /\ Walks(c.at, c.end)'
                      /\ OnePeer(c, {c.at, c.end})'
                      /\ c.pc \in {"holder", "put"} =>
                           \E r \in Rec : /\ c.holders = {r} /\ holds'[r] # {}
                                          /\ OnePeer(c, holds[r] \cup c.copy)'
    BY DEF CallGood
  <1>1. /\ c.at \in Did /\ c.end \in Did
        /\ Walks(c.at, c.end)'
        /\ OnePeer(c, {c.at, c.end})' /\ OnePeer(c, {c.at})
    <2>1. c.at \in Did /\ c.end \in Did /\ Walks(c.at, c.end) /\ OnePeer(c, {c.at, c.end})
      BY DEF CallGood
    <2>2. OnePeer(c, {c.at})
      BY <2>1 DEF OnePeer
    <2>3. OnePeer(c, {c.at, c.end})'
      BY <2>1, <2>2, OnePeerKept
    <2> QED
      BY <2>1, <2>2, <2>3, PinsFrame
  <1>2. ASSUME c.pc \in {"holder", "put"}
        PROVE  \E r \in Rec : /\ c.holders = {r} /\ holds'[r] # {}
                              /\ OnePeer(c, holds[r] \cup c.copy)'
    <2>1. PICK r \in Rec : c.holders = {r} /\ holds[r] # {} /\ OnePeer(c, holds[r] \cup c.copy)
      BY <1>2 DEF CallGood
    <2>2. holds'[r] # {} /\ OnePeer(c, holds'[r])
      BY <1>2, <2>1
    <2>3. PICK D : D = holds'[r] \cup c.copy
      OBVIOUS
    <2>4. OnePeer(c, D)
      BY <2>1, <2>2, <2>3 DEF OnePeer
    <2>5. OnePeer(c, D)'
      BY <1>1, <2>4, OnePeerKept
    <2>6. OnePeer(c, holds[r] \cup c.copy)'
      BY <2>3, <2>5 DEF OnePeer
    <2> QED
      BY <2>1, <2>2, <2>6
  <1> QED
    BY <1>1, <1>2

\* Every step that leaves the records alone and changes at most the call of p.
LEMMA CallStep ==
  ASSUME RotationAssumption, RotationIInv, [PinNext]_pinVars, UNCHANGED holds,
         NEW p \in Proc, NEW c, c = call'[p],
         \A q \in Proc \ {p} : call'[q] = call[q],
         call' \in [Proc -> [pc : {"idle", "find", "holder", "put"}, at : Did \cup {NoDid},
                        end : Did \cup {NoDid}, holders : SUBSET Rec, copy : SUBSET Did]],
         CallGood(c)
  PROVE  RotationIInv'
  <1>1. PinInv' /\ TypeOK'
    BY PinsFrame DEF RotationIInv, TypeOK, PinInv
  <1>2. ASSUME NEW r \in Rec PROVE RecordGood(holds[r])'
    <2>1. RecordGood(holds[r]) /\ holds[r] \subseteq Did
      BY DEF RotationIInv, TypeOK
    <2> QED
      BY <2>1, PinsFrame DEF RecordGood, RotationIInv
  <1>3. ASSUME NEW q \in Proc PROVE CallGood(call[q])'
    <2>1. PICK d : d = call'[q]
      OBVIOUS
    <2>2. CallGood(d)
      <3>1. CASE q = p
        BY <2>1, <3>1
      <3>2. CASE q # p
        BY <2>1, <3>2 DEF RotationIInv
      <3> QED
        BY <3>1, <3>2
    <2>3. \A r \in Rec : OnePeer(d, holds[r] \cup d.copy) => OnePeer(d, holds'[r])
      BY DEF OnePeer
    <2>4. CallGood(d)'
      BY <2>2, <2>3, CallKept DEF RotationIInv
    <2> QED
      BY <2>1, <2>4
  <1> QED
    BY <1>1, <1>2, <1>3 DEF RotationIInv

CallType == [pc : {"idle", "find", "holder", "put"}, at : Did \cup {NoDid},
             end : Did \cup {NoDid}, holders : SUBSET Rec, copy : SUBSET Did]

\* A call that takes a step to a state c of its own.
LEMMA DoKeeps ==
  ASSUME RotationAssumption, RotationIInv, UNCHANGED <<pinVars, holds>>,
         NEW p \in Proc, NEW c \in CallType, Do(p, c), CallGood(c)
  PROVE  RotationIInv'
  <1>1. call' = [call EXCEPT ![p] = c] /\ call \in [Proc -> CallType]
    BY DEF Do, RotationIInv, TypeOK, CallType
  <1>2. call' \in [Proc -> CallType] /\ call'[p] = c /\ \A q \in Proc \ {p} : call'[q] = call[q]
    BY <1>1
  <1> QED
    BY <1>2, CallStep DEF CallType

\* A call that ends.
LEMMA EndKeeps ==
  ASSUME RotationAssumption, RotationIInv, UNCHANGED <<pinVars, holds>>, NEW p \in Proc, End(p)
  PROVE  RotationIInv'
  <1>1. NoCall \in CallType /\ CallGood(NoCall) /\ Do(p, NoCall)
    BY DEF End, NoCall, CallType, CallGood
  <1> QED
    BY <1>1, DoKeeps

\* A call begins with the chain that it follows.
LEMMA StartKeeps ==
  ASSUME RotationAssumption, RotationIInv,
         NEW p \in Proc, NEW old \in Did, NEW new \in Did, Start(p, old, new)
  PROVE  RotationIInv'
  <1> DEFINE end == Hops(old, MaxHops)[MaxHops]
             c == [NoCall EXCEPT !.pc = "find", !.at = old, !.end = end]
  <1>1. Walks(old, end)
    BY WalkStarts DEF Start, RotationIInv
  <1>2. end \in Did /\ Pinned(old) /\ Pinned(end) /\ Peer(end) = Peer(old)
    BY <1>1, WalkPeer DEF RotationIInv
  <1>3. Do(p, c) /\ UNCHANGED <<pinVars, holds>>
    BY DEF Start
  <1> HIDE DEF end
  <1>4. c.pc = "find" /\ c.at = old /\ c.end = end /\ c \in CallType
    BY <1>2 DEF NoCall, CallType
  <1> HIDE DEF c
  <1>5. CallGood(c)
    BY <1>1, <1>2, <1>4 DEF CallGood, OnePeer
  <1> QED
    BY <1>3, <1>4, <1>5, DoKeeps

\* The search goes one hop on, or finds the one record that holds the DID.
LEMMA FindKeeps ==
  ASSUME RotationAssumption, RotationIInv, NEW p \in Proc, Find(p)
  PROVE  RotationIInv'
  <1> DEFINE c == call[p]
             next == pin[c.at].next
  <1>1. c \in CallType /\ CallGood(c) /\ c.pc = "find" /\ UNCHANGED <<pinVars, holds>> /\ PinInv
    BY DEF RotationIInv, TypeOK, CallType, Find
  <1>2. CASE End(p)
    BY <1>1, <1>2, EndKeeps
  <1>3. CASE next # c.end /\ Do(p, [c EXCEPT !.at = next])
    <2>1. PICK d \in CallType : d = c
      BY <1>1
    <2>2. Walks(d.at, d.end) /\ d.at \in Did /\ d.end \in Did /\ OnePeer(d, {d.at, d.end})
      BY <1>1, <2>1 DEF CallGood
    <2>3. next \in Did /\ Walks(next, d.end)
      BY <1>1, <1>3, <2>1, <2>2, WalkOn
    <2>4. PICK e : e = [d EXCEPT !.at = next]
      OBVIOUS
    <2>5. e \in CallType /\ e.pc = "find" /\ e.at = next /\ e.end = d.end
      BY <1>1, <2>1, <2>3, <2>4 DEF CallType
    <2>6. CallGood(e)
      BY <1>1, <2>2, <2>3, <2>5, WalkPeer DEF CallGood, OnePeer
    <2> QED
      BY <1>1, <1>3, <2>1, <2>4, <2>5, <2>6, DoKeeps
  <1>4. ASSUME NEW r \in Rec, Holders(c.at) = {r},
               Do(p, [c EXCEPT !.pc = "holder", !.holders = Holders(c.at), !.copy = holds[r]])
        PROVE  RotationIInv'
    <2>1. PICK d \in CallType : d = c
      BY <1>1
    <2>2. PICK e : e = [d EXCEPT !.pc = "holder", !.holders = {r}, !.copy = holds[r]]
      OBVIOUS
    <2>3. holds[r] \subseteq Did /\ RecordGood(holds[r]) /\ d.at \in holds[r]
      BY <1>4, <2>1 DEF RotationIInv, TypeOK, Holders
    <2>4. /\ e \in CallType /\ e.pc = "holder" /\ e.at = d.at /\ e.end = d.end
          /\ e.holders = {r} /\ e.copy = holds[r]
      BY <2>2, <2>3 DEF CallType
    <2>5. /\ d.at \in Did /\ d.end \in Did /\ Walks(d.at, d.end) /\ OnePeer(d, {d.at, d.end})
      BY <1>1, <2>1 DEF CallGood
    <2>6. OnePeer(e, {e.at, e.end}) /\ OnePeer(e, holds[r] \cup e.copy)
      BY <2>3, <2>4, <2>5 DEF OnePeer, RecordGood
    <2>7. CallGood(e)
      BY <2>3, <2>4, <2>5, <2>6 DEF CallGood
    <2> QED
      BY <1>1, <1>4, <2>1, <2>2, <2>4, <2>7, DoKeeps
  <1>5. \/ End(p)
        \/ next # c.end /\ Do(p, [c EXCEPT !.at = next])
        \/ \E r \in Rec : /\ Holders(c.at) = {r}
                          /\ Do(p, [c EXCEPT !.pc = "holder", !.holders = Holders(c.at), !.copy = holds[r]])
    <2>1. Holders(c.at) \subseteq Rec
      BY DEF Holders
    <2>2. \/ IF next = c.end THEN End(p) ELSE Do(p, [c EXCEPT !.at = next])
          \/ \E r \in Holders(c.at) :
                /\ Holders(c.at) = {r}
                /\ Do(p, [c EXCEPT !.pc = "holder", !.holders = Holders(c.at), !.copy = holds[r]])
          \/ End(p)
      BY ZenonT(60) DEF Find
    <2> HIDE DEF c, next
    <2> QED
      BY <2>1, <2>2
  <1> QED
    BY <1>2, <1>3, <1>4, <1>5

\* No other record holds the live end, or the call is over.
LEMMA CheckHolderKeeps ==
  ASSUME RotationAssumption, RotationIInv, NEW p \in Proc, CheckHolder(p)
  PROVE  RotationIInv'
  <1>1. PICK c \in CallType : c = call[p]
    BY DEF RotationIInv, TypeOK, CallType
  <1>2. CallGood(c) /\ c.pc = "holder" /\ UNCHANGED <<pinVars, holds>>
    BY <1>1 DEF RotationIInv, CheckHolder
  <1>3. CASE End(p)
    BY <1>2, <1>3, EndKeeps
  <1>4. CASE Do(p, [c EXCEPT !.pc = "put"])
    <2>1. PICK e : e = [c EXCEPT !.pc = "put"]
      OBVIOUS
    <2>2. /\ e \in CallType /\ e.pc = "put" /\ e.at = c.at /\ e.end = c.end
          /\ e.holders = c.holders /\ e.copy = c.copy
      BY <2>1 DEF CallType
    <2>3. CallGood(e)
      BY <1>2, <2>2 DEF CallGood, OnePeer
    <2> QED
      BY <1>2, <1>4, <2>1, <2>2, <2>3, DoKeeps
  <1> QED
    BY <1>1, <1>3, <1>4 DEF CheckHolder

\* The record goes back holding one peer's DIDs: those it was found with but one, and
\* the peer's live DID.
LEMMA PutKeeps ==
  ASSUME RotationAssumption, RotationIInv, NEW p \in Proc, Put(p)
  PROVE  /\ RotationIInv'
         /\ \E r \in Rec : /\ holds[r] # {} /\ holds'[r] # {}
                           /\ \A x \in holds[r], y \in holds'[r] : Peer(x) = Peer(y) /\ Pinned(y)
                           /\ \A s \in Rec \ {r} : holds'[s] = holds[s]
  <1>1. PICK c \in CallType : c = call[p]
    BY DEF RotationIInv, TypeOK, CallType
  <1>2. CallGood(c) /\ c.pc = "put" /\ UNCHANGED pinVars /\ End(p)
    BY <1>1 DEF RotationIInv, Put
  <1>3. PICK r \in Rec : c.holders = {r} /\ holds[r] # {} /\ OnePeer(c, holds[r] \cup c.copy)
    BY <1>2 DEF CallGood
  <1> DEFINE H == (c.copy \ {c.at}) \cup {c.end}
  <1>4. holds' = [holds EXCEPT ![r] = H]
    BY <1>1, <1>3 DEF Put
  <1>5. /\ holds'[r] = H /\ \A s \in Rec \ {r} : holds'[s] = holds[s]
        /\ c.end \in Did /\ H # {} /\ H \subseteq Did
        /\ holds' \in [Rec -> SUBSET Did]
    BY <1>2, <1>4 DEF RotationIInv, TypeOK, CallType, CallGood
  <1>6. OnePeer(c, H) /\ OnePeer(c, holds[r])
    BY <1>2, <1>3 DEF CallGood, OnePeer
  <1> HIDE DEF H
  <1>7. /\ call' \in [Proc -> CallType] /\ call'[p] = NoCall
        /\ \A q \in Proc \ {p} : call'[q] = call[q]
    BY <1>2 DEF End, Do, RotationIInv, TypeOK, CallType, NoCall
  <1>8. [PinNext]_pinVars /\ PinInv
    BY <1>2 DEF RotationIInv
  <1>9. PinInv' /\ TypeOK'
    BY <1>5, <1>7, <1>8, PinsFrame DEF TypeOK, PinInv, CallType
  <1>10. ASSUME NEW s \in Rec PROVE RecordGood(holds[s])'
    <2>1. PICK D : D = holds'[s]
      OBVIOUS
    <2>2. RecordGood(D) /\ D \subseteq Did
      <3>1. CASE s = r
        BY <1>5, <1>6, <2>1, <3>1 DEF OnePeer, RecordGood
      <3>2. CASE s # r
        BY <1>5, <2>1, <3>2 DEF RotationIInv, TypeOK
      <3> QED
        BY <3>1, <3>2
    <2>3. RecordGood(D)'
      BY <1>8, <2>2, PinsFrame DEF RecordGood
    <2> QED
      BY <2>1, <2>3
  <1>11. ASSUME NEW q \in Proc PROVE CallGood(call[q])'
    <2>1. PICK d : d = call'[q]
      OBVIOUS
    <2>2. CallGood(d)
      <3>1. CASE q = p
        BY <1>7, <2>1, <3>1 DEF NoCall, CallGood
      <3>2. CASE q # p
        BY <1>7, <2>1, <3>2 DEF RotationIInv
      <3> QED
        BY <3>1, <3>2
    <2>3. ASSUME NEW s \in Rec, holds[s] # {}, OnePeer(d, holds[s] \cup d.copy)
          PROVE  holds'[s] # {} /\ OnePeer(d, holds'[s])
      <3>1. CASE s = r
        BY <1>5, <1>6, <2>3, <3>1 DEF OnePeer
      <3>2. CASE s # r
        BY <1>5, <2>3, <3>2 DEF OnePeer
      <3> QED
        BY <3>1, <3>2
    <2>4. CallGood(d)'
      BY <1>8, <2>2, <2>3, CallKept
    <2> QED
      BY <2>1, <2>4
  <1>12. RotationIInv'
    BY <1>9, <1>10, <1>11 DEF RotationIInv
  <1> QED
    BY <1>3, <1>5, <1>6, <1>12 DEF OnePeer

\* A peer that no record holds gets one.
LEMMA IntroduceKeeps ==
  ASSUME RotationAssumption, RotationIInv, NEW r \in Rec, NEW d \in Did, Introduce(r, d)
  PROVE  RotationIInv'
  <1>1. /\ Pinned(d) /\ holds[r] = {} /\ UNCHANGED <<pinVars, call>>
        /\ holds'[r] = {d} /\ \A s \in Rec \ {r} : holds'[s] = holds[s]
        /\ holds' \in [Rec -> SUBSET Did]
    BY DEF Introduce, Live, RotationIInv, TypeOK
  <1>2. [PinNext]_pinVars /\ PinInv
    BY <1>1 DEF RotationIInv
  <1>3. PinInv' /\ TypeOK'
    BY <1>1, <1>2, PinsFrame DEF RotationIInv, TypeOK, PinInv
  <1>4. ASSUME NEW s \in Rec PROVE RecordGood(holds[s])'
    <2>1. PICK D : D = holds'[s]
      OBVIOUS
    <2>2. RecordGood(D) /\ D \subseteq Did
      BY <1>1, <2>1 DEF RotationIInv, TypeOK, RecordGood
    <2>3. RecordGood(D)'
      BY <1>2, <2>2, PinsFrame DEF RecordGood
    <2> QED
      BY <2>1, <2>3
  <1>5. ASSUME NEW q \in Proc PROVE CallGood(call[q])'
    <2>1. PICK c : c = call[q]
      OBVIOUS
    <2>2. CallGood(c) /\ call'[q] = c
      BY <1>1, <2>1 DEF RotationIInv
    <2>3. CallGood(c)'
      BY <1>1, <1>2, <2>2, CallKept DEF OnePeer
    <2> QED
      BY <2>2, <2>3
  <1> QED
    BY <1>3, <1>4, <1>5 DEF RotationIInv

\* A step of the pins, or none.
LEMMA PinsKeep ==
  ASSUME RotationAssumption, RotationIInv, [PinNext]_pinVars, UNCHANGED <<holds, call>>
  PROVE  RotationIInv'
  <1>1. PinInv' /\ TypeOK'
    BY PinsFrame DEF RotationIInv, TypeOK, PinInv
  <1>2. ASSUME NEW s \in Rec PROVE RecordGood(holds[s])'
    BY PinsFrame DEF RotationIInv, TypeOK, RecordGood
  <1>3. ASSUME NEW q \in Proc PROVE CallGood(call[q])'
    <2>1. PICK c : c = call[q]
      OBVIOUS
    <2>2. CallGood(c)'
      BY <2>1, CallKept DEF OnePeer, RotationIInv
    <2> QED
      BY <2>1, <2>2
  <1> QED
    BY <1>1, <1>2, <1>3 DEF RotationIInv

-----------------------------------------------------------------------------
(* The theorems.                                                           *)

\* At first nothing is pinned, held or under way.
LEMMA RotationInit == ASSUME RotationAssumption, Init PROVE RotationIInv
  <1>1. PinInv
    BY PinInitInv DEF Init
  <1>2. TypeOK
    BY <1>1 DEF Init, TypeOK, PinInv, NoCall
  <1>3. /\ \A r \in Rec : RecordGood(holds[r])
        /\ \A p \in Proc : CallGood(call[p])
    BY DEF Init, NoCall, RecordGood, CallGood
  <1> QED
    BY <1>1, <1>2, <1>3 DEF RotationIInv

\* Every step keeps the invariant, and the records of two peers apart.
LEMMA RotationStep ==
  ASSUME RotationAssumption, RotationIInv, [Next]_vars
  PROVE  /\ RotationIInv' /\ [PinNext]_pinVars
         /\ \/ UNCHANGED holds
            \/ \E r \in Rec : /\ holds[r] = {}
                              /\ \A s \in Rec \ {r} : holds'[s] = holds[s]
            \/ \E r \in Rec : /\ holds[r] # {} /\ holds'[r] # {}
                              /\ \A x \in holds[r], y \in holds'[r] : Peer(x) = Peer(y) /\ Pinned(y)
                              /\ \A s \in Rec \ {r} : holds'[s] = holds[s]
  <1>1. CASE [PinNext]_pinVars /\ UNCHANGED <<holds, call>>
    BY <1>1, PinsKeep
  <1>2. ASSUME NEW r \in Rec, NEW d \in Did, Introduce(r, d)
        PROVE  /\ RotationIInv' /\ [PinNext]_pinVars
               /\ \E q \in Rec : holds[q] = {} /\ \A s \in Rec \ {q} : holds'[s] = holds[s]
    <2>1. UNCHANGED pinVars /\ holds[r] = {} /\ \A s \in Rec \ {r} : holds'[s] = holds[s]
      BY <1>2 DEF Introduce, RotationIInv, TypeOK
    <2> QED
      BY <1>2, <2>1, IntroduceKeeps
  <1>3. ASSUME NEW p \in Proc, Find(p) \/ CheckHolder(p) \/ Crash(p)
        PROVE  RotationIInv' /\ [PinNext]_pinVars /\ UNCHANGED holds
    <2>1. UNCHANGED <<pinVars, holds>>
      BY <1>3 DEF Find, CheckHolder, Crash
    <2> QED
      BY <1>3, <2>1, FindKeeps, CheckHolderKeeps, EndKeeps DEF Crash
  <1>4. ASSUME NEW p \in Proc, NEW old \in Did, NEW new \in Did, Start(p, old, new)
        PROVE  RotationIInv' /\ [PinNext]_pinVars /\ UNCHANGED holds
    <2>1. UNCHANGED <<pinVars, holds>>
      BY <1>4 DEF Start
    <2> QED
      BY <1>4, <2>1, StartKeeps
  <1>5. ASSUME NEW p \in Proc, Put(p)
        PROVE  /\ RotationIInv' /\ [PinNext]_pinVars
               /\ \E r \in Rec : /\ holds[r] # {} /\ holds'[r] # {}
                                 /\ \A x \in holds[r], y \in holds'[r] : Peer(x) = Peer(y) /\ Pinned(y)
                                 /\ \A s \in Rec \ {r} : holds'[s] = holds[s]
    <2>1. UNCHANGED pinVars
      BY <1>5 DEF Put
    <2> QED
      BY <1>5, <2>1, PutKeeps
  <1>6. CASE UNCHANGED vars
    BY <1>1, <1>6 DEF vars
  <1> QED
    BY <1>1, <1>2, <1>3, <1>4, <1>5, <1>6 DEF Next, Step

\* A call of applyAcceptedRotation under way stands on a tombstone and walks to the live
\* end it set out for, whatever rotates, runs or stops meanwhile.
THEOREM RecordsInductive == ASSUME RotationAssumption PROVE Spec => [](PinInv /\ RecordInv)
  <1>1. Init => RotationIInv
    BY RotationInit
  <1>2. RotationIInv /\ [Next]_vars => RotationIInv'
    BY RotationStep
  <1>3. RotationIInv => PinInv /\ RecordInv
    <2> SUFFICES ASSUME RotationIInv, NEW p \in Proc, call[p].pc # "idle"
                 PROVE  /\ Retired(call[p].at)
                        /\ \E n \in 1..MaxHops : Hops(call[p].at, MaxHops)[n] = call[p].end
      BY DEF RotationIInv, RecordInv, CallsOnChain
    <2>1. PICK c : c = call[p]
      OBVIOUS
    <2>2. c.at \in Did /\ Walks(c.at, c.end) /\ PinInv
      BY <2>1 DEF RotationIInv, CallGood
    <2> QED
      BY <2>1, <2>2, WalkPeer DEF Walks
  <1> QED
    BY <1>1, <1>2, <1>3, PTL DEF Spec

\* However statements are replayed and calls, rotations and crashes interleave, the
\* records of two peers stay the records of two peers.
THEOREM PeersApart == ASSUME RotationAssumption PROVE Spec => PeersStayApart
  <1>1. Init => RotationIInv
    BY RotationInit
  <1>2. RotationIInv /\ [Next]_vars => RotationIInv'
    BY RotationStep
  <1>3. RotationIInv /\ [Next]_vars =>
          [\A r, s \in Rec :
             holds[r] # {} /\ holds[s] # {} /\ ~ SamePeer(r, s)
               => holds'[r] # {} /\ holds'[s] # {} /\ ~ SamePeer(r, s)']_vars
    <2> SUFFICES ASSUME RotationIInv, [Next]_vars, NEW r \in Rec, NEW s \in Rec,
                        holds[r] # {}, holds[s] # {}, ~ SamePeer(r, s)
                 PROVE  holds'[r] # {} /\ holds'[s] # {} /\ ~ SamePeer(r, s)'
      OBVIOUS
    <2>1. /\ \A x, y \in Did : Pinned(x) /\ Pinned(y) => ((Peer(x) = Peer(y))' <=> Peer(x) = Peer(y))
          /\ \A q \in Rec : holds[q] \subseteq Did /\ holds'[q] \subseteq Did
          /\ \A q \in Rec : \A x, y \in holds[q] : Pinned(x) /\ Pinned(y) /\ Peer(x) = Peer(y)
      BY RotationStep, PinsFrame DEF RotationIInv, TypeOK, RecordGood
    <2>2. ASSUME NEW q \in Rec, holds[q] # {}
          PROVE  /\ holds'[q] # {}
                 /\ \A x \in holds[q], y \in holds'[q] : Peer(x) = Peer(y) /\ Pinned(y)
      <3>1. CASE holds'[q] = holds[q]
        BY <2>1, <2>2, <3>1
      <3>2. CASE holds'[q] # holds[q]
        BY <2>2, <3>2, RotationStep
      <3> QED
        BY <3>1, <3>2
    <2>3. PICK x \in holds[r], y \in holds[s] : Peer(x) # Peer(y)
      BY DEF SamePeer
    <2>4. PICK a \in holds'[r], b \in holds'[s] : TRUE
      BY <2>2
    <2>5. a \in Did /\ b \in Did /\ Pinned(a) /\ Pinned(b) /\ Peer(a) # Peer(b)
      BY <2>1, <2>2, <2>3, <2>4
    <2>6. Peer(a)' # Peer(b)'
      BY <2>1, <2>5
    <2> QED
      BY <2>2, <2>4, <2>6 DEF SamePeer
  <1> QED
    BY <1>1, <1>2, <1>3, PTL DEF Spec, PeersStayApart
=============================================================================
