--------------------------- MODULE ImportsProofs ---------------------------
(***************************************************************************)
(* Proofs about Imports, for every set of agents, calls, plans, records    *)
(* and messages, every time and every number of crashes.                   *)
(***************************************************************************)
EXTENDS Imports, TLAPS, WellFoundedInduction, FiniteSetTheorems, SequenceTheorems

-----------------------------------------------------------------------------
(* Induction over the natural numbers, about a set of them.                *)

\* A set of natural numbers that is not empty has a least element.
LEMMA Least ==
  ASSUME NEW S, S \subseteq Nat, S # {}
  PROVE  \E m \in S : \A n \in S : m <= n
  <1> DEFINE R == {ss \in Nat \X Nat : ss[1] < ss[2]}
  <1>1. IsWellFoundedOn(R, Nat)
    BY NatLessThanWellFounded DEF OpToRel
  <1>2. PICK m \in S : \A n \in S : ~ (<<n, m>> \in R)
    <2> HIDE DEF R
    <2> QED
      BY <1>1, WFMin
  <1>3. ASSUME NEW n \in S PROVE m <= n
    <2>1. <<n, m>> \in Nat \X Nat /\ ~ (<<n, m>> \in R)
      BY <1>2
    <2>2. ~ (n < m)
      BY <2>1
    <2> QED
      BY <2>2
  <1> QED
    BY <1>3

\* A set that has 0 and with every number the next has them all.
LEMMA Induction ==
  ASSUME NEW S, 0 \in S, \A n \in Nat : n \in S => n + 1 \in S
  PROVE  Nat \subseteq S
  <1> SUFFICES ASSUME Nat \ S # {} PROVE FALSE
    OBVIOUS
  <1>1. PICK m \in Nat \ S : \A n \in Nat \ S : m <= n
    BY Least
  <1>2. m # 0 /\ m - 1 \in Nat /\ m - 1 \in S
    BY <1>1
  <1> QED
    BY <1>1, <1>2

-----------------------------------------------------------------------------
(* Members of a sequence at given places.                                  *)

\* The recursive function is what it is written as.
LEMMA PicksAt ==
  ASSUME NEW s, NEW K, Len(s) \in Nat
  PROVE  /\ Picks(s, K)[0] = <<>>
         /\ \A i \in 1..Len(s) : Picks(s, K)[i] = IF i \in K THEN Append(Picks(s, K)[i - 1], s[i])
                                                             ELSE Picks(s, K)[i - 1]
  <1> DEFINE Fits(f, m) == f = [i \in 0..m |-> IF i = 0 THEN <<>>
                                             ELSE IF i \in K THEN Append(f[i - 1], s[i]) ELSE f[i - 1]]
             S == {m \in Nat : \E f : Fits(f, m)}
  <1>1. 0 \in S
    <2>1. Fits([i \in 0..0 |-> <<>>], 0)
      OBVIOUS
    <2> QED
      BY <2>1
  <1>2. ASSUME NEW m \in Nat, m \in S PROVE m + 1 \in S
    <2>1. PICK f : Fits(f, m)
      BY <1>2
    <2> DEFINE c == IF m + 1 \in K THEN Append(f[m], s[m + 1]) ELSE f[m]
               g == [i \in 0..(m + 1) |-> IF i = m + 1 THEN c ELSE f[i]]
    <2>2. ASSUME NEW i \in 0..(m + 1)
          PROVE  g[i] = IF i = 0 THEN <<>> ELSE IF i \in K THEN Append(g[i - 1], s[i]) ELSE g[i - 1]
      <3>1. CASE i = 0
        BY <2>1, <3>1
      <3>2. CASE i \in 1..m
        <4>1. g[i] = f[i] /\ g[i - 1] = f[i - 1]
          BY <3>2
        <4>2. i \in 0..m /\ i # 0 /\ i # m + 1
          BY <3>2
        <4>3. f[i] = IF i = 0 THEN <<>> ELSE IF i \in K THEN Append(f[i - 1], s[i]) ELSE f[i - 1]
          BY <2>1, <4>2
        <4>4. f[i] = IF i \in K THEN Append(f[i - 1], s[i]) ELSE f[i - 1]
          BY <4>2, <4>3, Zenon
        <4> QED
          BY <4>1, <4>2, <4>4
      <3>3. CASE i = m + 1
        <4>1. g[i] = c /\ g[i - 1] = f[m] /\ i # 0
          BY <3>3
        <4> QED
          BY <3>3, <4>1
      <3> QED
        BY <3>1, <3>2, <3>3
    <2>3. Fits(g, m + 1)
      BY <2>2
    <2> HIDE DEF g, Fits
    <2> QED
      BY <2>3
  <1>3. Len(s) \in S
    <2> HIDE DEF S
    <2> QED
      BY <1>1, <1>2, Induction
  <1>4. Fits(Picks(s, K), Len(s))
    <2>1. Picks(s, K) = CHOOSE f : Fits(f, Len(s))
      BY DEF Picks
    <2> HIDE DEF Fits
    <2> QED
      BY <1>3, <2>1
  <1>5. \A i \in 0..Len(s) : Picks(s, K)[i] = IF i = 0 THEN <<>>
                                             ELSE IF i \in K THEN Append(Picks(s, K)[i - 1], s[i])
                                             ELSE Picks(s, K)[i - 1]
    BY <1>4
  <1> QED
    BY <1>5

\* The place of s that each member of t is from, for the places in K up to i.
PlacesOf(g, t, s, K, i) ==
  /\ g \in [1..Len(t) -> 1..i]
  /\ \A n \in 1..Len(t) : g[n] \in K /\ t[n] = s[g[n]]
  /\ \A m, n \in 1..Len(t) : g[m] = g[n] => m = n
  /\ \A m \in 1..i : m \in K => \E n \in 1..Len(t) : g[n] = m

\* A pick has the members at the places in K, each once, and no others.
LEMMA PickIs ==
  ASSUME NEW U, NEW s \in Seq(U), NEW K
  PROVE  /\ Pick(s, K) \in Seq(U)
         /\ \E g : PlacesOf(g, Pick(s, K), s, K, Len(s))
  <1> DEFINE P == Picks(s, K)
             S == {i \in Nat : i <= Len(s) => P[i] \in Seq(U) /\ \E g : PlacesOf(g, P[i], s, K, i)}
  <1>0. /\ P[0] = <<>>
        /\ \A i \in 1..Len(s) : P[i] = IF i \in K THEN Append(P[i - 1], s[i]) ELSE P[i - 1]
    BY PicksAt
  <1> HIDE DEF P
  <1>1. 0 \in S
    <2>1. PlacesOf(<<>>, P[0], s, K, 0)
      BY <1>0 DEF PlacesOf
    <2>2. P[0] \in Seq(U)
      BY <1>0
    <2> QED
      BY <2>1, <2>2
  <1>2. ASSUME NEW i \in Nat, i \in S PROVE i + 1 \in S
    <2> SUFFICES ASSUME i + 1 <= Len(s)
                 PROVE  P[i + 1] \in Seq(U) /\ \E g : PlacesOf(g, P[i + 1], s, K, i + 1)
      OBVIOUS
    <2>1. PICK g : P[i] \in Seq(U) /\ PlacesOf(g, P[i], s, K, i)
      BY <1>2
    <2>2. i + 1 \in 1..Len(s) /\ s[i + 1] \in U /\ (i + 1) - 1 = i
      OBVIOUS
    <2>3. P[i + 1] = IF i + 1 \in K THEN Append(P[i], s[i + 1]) ELSE P[i]
      BY <1>0, <2>2
    <2> DEFINE t == P[i]
               u == P[i + 1]
    <2>4. t \in Seq(U) /\ PlacesOf(g, t, s, K, i) /\ u = IF i + 1 \in K THEN Append(t, s[i + 1]) ELSE t
      BY <2>1, <2>3
    <2> HIDE DEF t, u
    <2>5. CASE i + 1 \notin K
      <3>1. u = t
        BY <2>4, <2>5
      <3>2. PlacesOf(g, t, s, K, i + 1)
        <4>1. /\ g \in [1..Len(t) -> 1..i]
              /\ \A n \in 1..Len(t) : g[n] \in K /\ t[n] = s[g[n]]
              /\ \A m, n \in 1..Len(t) : g[m] = g[n] => m = n
              /\ \A m \in 1..i : m \in K => \E n \in 1..Len(t) : g[n] = m
          BY <2>4 DEF PlacesOf
        <4>2. g \in [1..Len(t) -> 1..(i + 1)]
          BY <4>1
        <4>3. \A m \in 1..(i + 1) : m \in K => \E n \in 1..Len(t) : g[n] = m
          BY <2>5, <4>1
        <4> QED
          BY <4>1, <4>2, <4>3 DEF PlacesOf
      <3> QED
        BY <2>4, <3>1, <3>2 DEF t, u
    <2>6. CASE i + 1 \in K
      <3> DEFINE l == Len(t)
                 h == [n \in 1..(l + 1) |-> IF n = l + 1 THEN i + 1 ELSE g[n]]
      <3>1. /\ l \in Nat /\ u \in Seq(U) /\ Len(u) = l + 1 /\ u[l + 1] = s[i + 1]
            /\ \A n \in 1..l : u[n] = t[n]
        BY <2>2, <2>4, <2>6
      <3>2. /\ g \in [1..l -> 1..i]
            /\ \A n \in 1..l : g[n] \in K /\ t[n] = s[g[n]]
            /\ \A m, n \in 1..l : g[m] = g[n] => m = n
            /\ \A m \in 1..i : m \in K => \E n \in 1..l : g[n] = m
        BY <2>4 DEF PlacesOf
      <3> HIDE DEF l
      <3>3. /\ h[l + 1] = i + 1 /\ \A n \in 1..l : h[n] = g[n]
            /\ \A n \in 1..(l + 1) : n \in 1..l \/ n = l + 1
        BY <3>1
      <3>4. h \in [1..(l + 1) -> 1..(i + 1)]
        <4>1. \A n \in 1..(l + 1) : h[n] \in 1..(i + 1)
          BY <3>2, <3>3
        <4> QED
          BY <4>1
      <3>5. h \in [1..Len(u) -> 1..(i + 1)] /\ Len(u) = l + 1
        BY <3>1, <3>4
      <3> HIDE DEF h
      <3>6. \A n \in 1..(l + 1) : h[n] \in K /\ u[n] = s[h[n]]
        BY <2>6, <3>1, <3>2, <3>3
      <3>7. \A n \in 1..l : h[n] \in 1..i
        BY <3>2, <3>3
      <3>8. \A m, n \in 1..(l + 1) : h[m] = h[n] => m = n
        BY <3>1, <3>2, <3>3, <3>7
      <3>9. ASSUME NEW m \in 1..(i + 1), m \in K PROVE \E n \in 1..(l + 1) : h[n] = m
        <4>1. CASE m = i + 1
          BY <3>1, <3>3, <4>1
        <4>2. CASE m \in 1..i
          <5>1. PICK n \in 1..l : g[n] = m
            BY <3>2, <3>9, <4>2
          <5> QED
            BY <3>1, <3>3, <5>1
        <4> QED
          BY <4>1, <4>2
      <3>10. PlacesOf(h, u, s, K, i + 1)
        BY <3>5, <3>6, <3>8, <3>9 DEF PlacesOf
      <3> QED
        BY <3>1, <3>10 DEF u
    <2> QED
      BY <2>5, <2>6
  <1>3. Len(s) \in Nat /\ Len(s) \in S
    <2>1. Nat \subseteq S
      <3> HIDE DEF S
      <3> QED
        BY <1>1, <1>2, Induction
    <2> QED
      BY <2>1
  <1> QED
    BY <1>3 DEF Pick, P

-----------------------------------------------------------------------------
(* The inductive invariant: what every record is, wherever it is held, in  *)
(* the store, in a call under way or in an import under way.               *)

Sharing  == {"share_profile", "share_mission"}
Notes    == UNION {[K -> Told] : K \in SUBSET Key}
Profile  == [ids : SUBSET Id, notes : Notes]
Ledger   == [outcomes : Seq(Outcome), notes : Notes]

File == [path : [from : Agent, to : Agent], parses : {TRUE}, version : {Supported}, copy : BOOLEAN,
         id : Op, rank : Nat, from : Agent, to : Agent, at : Nat, kind : Sharing, env : Profile \cup Ledger]

CallState == [pc : {"todo", "read", "open", "done"}, at : Rec \cup Mis \cup {None},
              was : FriendRecord \cup MissionRecord \cup {None}, ok : BOOLEAN]

ImportState == [pc : {"idle", "read", "open", "imported"}, at : Rec \cup Mis \cup {None},
                was : FriendRecord \cup MissionRecord \cup {None}, file : File \cup {None}]

HostState == [batch : SUBSET File, import : ImportState]

\* In the outboxes ob there is a message o that s wrote to a.
Wrote(ob, s, a, o) == ob[o] # None /\ Agt(o) = s /\ ob[o].to = a

HeardFrom(ob, a, imported) ==
  \A s \in Agent, k \in Key : imported[s][k] # None =>
    /\ Origin[imported[s][k].value] = imported[s][k].originally
    /\ \E o \in Op : /\ Wrote(ob, s, a, o) /\ k \in DOMAIN ob[o].env.notes
                     /\ ob[o].env.notes[k] = imported[s][k]

Bounded(ob, a, claims) ==
  \A s \in Agent :
    \/ Cardinality(ClaimsIn(claims, s)) <= MaxClaims
    \/ \E o \in Op : Wrote(ob, s, a, o) /\ ob[o].env.ids = ClaimsIn(claims, s)

FriendOk(ob, a, f) ==
  /\ f \in FriendRecord
  /\ TrueNotes(a, f.notes)
  /\ HeardFrom(ob, a, f.imported)
  /\ IsInjective(f.claims) /\ Bounded(ob, a, f.claims)

TrueLearnings(a, learnings) == \A k \in Key : learnings[k] # None => Origin[learnings[k].value] = a

RowsApart(rows) ==
  \A m, n \in DOMAIN rows : rows[m].by # None /\ rows[m].by = rows[n].by /\ rows[m].at = rows[n].at => m = n

MissionOk(ob, a, m) ==
  /\ m \in MissionRecord
  /\ TrueLearnings(a, m.learnings)
  /\ HeardFrom(ob, a, m.imported)
  /\ RowsApart(m.outcomes)

FriendsOk ==
  /\ friends \in [Agent -> [Rec -> FriendRecord \cup {None}]]
  /\ \A a \in Agent, r \in Rec : friends[a][r] # None => FriendOk(outbox, a, friends[a][r])

MissionsOk ==
  /\ missions \in [Agent -> [Mis -> MissionRecord \cup {None, Torn}]]
  /\ \A a \in Agent, r \in Mis : missions[a][r] \notin {None, Torn} => MissionOk(outbox, a, missions[a][r])

AboutFriend == {"note", "outcome", "ids", "share_profile"}

CallOk(ob, o, c) ==
  /\ c.ok => c.pc = "done"
  /\ c.pc = "read" /\ Plan[o].kind \in AboutFriend => c.at \in Rec /\ FriendOk(ob, Agt(o), c.was)
  /\ c.pc = "read" /\ Plan[o].kind = "note" /\ Plan[o].from # None => c.was.imported[Plan[o].from][Plan[o].key] # None
  /\ c.pc = "read" /\ Plan[o].kind = "record" => c.at \in Mis /\ (c.was # None => MissionOk(ob, Agt(o), c.was))
  /\ c.pc = "read" /\ Plan[o].kind = "share_mission" => c.at \in Mis /\ MissionOk(ob, Agt(o), c.was)
  /\ c.pc = "open" => Plan[o].kind = "record" /\ c.at \in Mis /\ MissionOk(ob, Agt(o), c.was)

CallsOk == call \in [Op -> CallState] /\ \A o \in Op : CallOk(outbox, o, call[o])

\* A message is as its sender wrote it, and says whose observations it tells.
LetterOk(t, o, f) ==
  /\ f \in File /\ f.at <= t
  /\ f = BuildOutgoing(o, Plan[o].rank, Agt(o), Plan[o].to, f.at, Plan[o].kind, f.env)
  /\ f.env \in IF f.kind = "share_profile" THEN Profile ELSE Ledger
  /\ \A k \in DOMAIN f.env.notes : Origin[f.env.notes[k].value] = f.env.notes[k].originally

LettersOk ==
  /\ outbox \in [Op -> File \cup {None}]
  /\ \A o \in Op : outbox[o] # None => call[o].pc = "done" /\ LetterOk(now, o, outbox[o])

MessageIn(ob) == UNION {{ob[o], [ob[o] EXCEPT !.copy = TRUE]} : o \in {o \in Op : ob[o] # None}}

HostOk(ob, a, h) ==
  /\ \A f \in h.batch : f \in MessageIn(ob) /\ f.to = a
  /\ LET i == h.import IN
     /\ i.pc # "idle" => i.file \in h.batch
     /\ i.pc = "read" /\ i.file.kind = "share_profile" => i.at \in Rec /\ (i.was # None => FriendOk(ob, a, i.was))
     /\ i.pc = "read" /\ i.file.kind = "share_mission" => i.at \in Mis /\ (i.was # None => MissionOk(ob, a, i.was))
     /\ i.pc = "open" => i.file.kind = "share_mission" /\ i.at \in Mis /\ MissionOk(ob, a, i.was)

HostsOk == host \in [Agent -> HostState] /\ \A a \in Agent : HostOk(outbox, a, host[a])

OtherTypes ==
  /\ plan \in Seq(Op) /\ seen \in [Agent -> SUBSET Op]
  /\ now \in 0..MaxTime /\ crashes \in 0..MaxCrashes
  /\ raced \subseteq Agent \X (Rec \cup Mis)

IInv == FriendsOk /\ MissionsOk /\ CallsOk /\ LettersOk /\ HostsOk /\ OtherTypes

-----------------------------------------------------------------------------
(* Claims.                                                                 *)

\* A finite set listed: every element has one place.
LEMMA SetToSeqIs ==
  ASSUME NEW S, IsFiniteSet(S)
  PROVE  /\ Cardinality(S) \in Nat
         /\ SetToSeq(S) \in [1..Cardinality(S) -> S]
         /\ IsInjective(SetToSeq(S))
         /\ \A x \in S : \E n \in 1..Cardinality(S) : SetToSeq(S)[n] = x
  <1> DEFINE D == 1..Cardinality(S)
             q == SetToSeq(S)
  <1>1. Cardinality(S) \in Nat /\ ExistsBijection(D, S)
    BY FS_CardinalityType
  <1>2. \E f \in [D -> S] : IsInjective(f)
    BY <1>1 DEF ExistsBijection, Bijection, Injection
  <1>3. q \in [D -> S] /\ IsInjective(q)
    BY <1>2 DEF SetToSeq
  <1>4. IsFiniteSet(D) /\ Cardinality(D) = Cardinality(S)
    BY <1>1, FS_Interval
  <1>5. q \in Injection(D, S)
    BY <1>3 DEF Injection
  <1> HIDE DEF D, q
  <1>6. q \in Surjection(D, S)
    BY <1>4, <1>5, FS_Injection
  <1>7. \A x \in S : \E n \in D : q[n] = x
    BY <1>6 DEF Surjection
  <1> QED
    BY <1>1, <1>3, <1>7 DEF D, q

\* An image is no larger than what it is the image of.
LEMMA ImageIsNoLarger ==
  ASSUME NEW S, NEW T, IsFiniteSet(S), NEW f \in [S -> T], \A t \in T : \E s \in S : f[s] = t
  PROVE  IsFiniteSet(T) /\ Cardinality(T) <= Cardinality(S)
  <1>1. f \in Surjection(S, T)
    BY DEF Surjection
  <1> QED
    BY <1>1, FS_Surjection

\* The new claims of a peer: it claims each id once, and nobody else claims any.
LEMMA NewClaimsAre ==
  ASSUME ProfileShareAssumption, NEW ids \in SUBSET Id, NEW from \in Agent
  PROVE  /\ NewClaims(ids, from) \in Seq(Claim)
         /\ IsInjective(NewClaims(ids, from))
         /\ ClaimsIn(NewClaims(ids, from), from) = ids
         /\ \A s \in Agent : s # from => ClaimsIn(NewClaims(ids, from), s) = {}
  <1>0. IsFiniteSet(ids)
    BY FS_Subset DEF ProfileShareAssumption
  <1> DEFINE l == Cardinality(ids)
             q == SetToSeq(ids)
             c == NewClaims(ids, from)
  <1>1. /\ l \in Nat /\ q \in [1..l -> ids] /\ IsInjective(q)
        /\ \A x \in ids : \E n \in 1..l : q[n] = x
    BY <1>0, SetToSeqIs
  <1>2. c = [n \in 1..l |-> [by |-> from, id |-> q[n]]]
    BY DEF NewClaims
  <1> HIDE DEF l, q, c
  <1>3. \A n \in 1..l : [by |-> from, id |-> q[n]] \in Claim
    BY <1>1 DEF Claim
  <1>4. c \in Seq(Claim)
    BY <1>1, <1>2, <1>3
  <1>5. DOMAIN c = 1..l /\ \A n \in 1..l : c[n] = [by |-> from, id |-> q[n]]
    BY <1>2
  <1>6. IsInjective(c)
    <2> SUFFICES ASSUME NEW m \in 1..l, NEW n \in 1..l, c[m] = c[n] PROVE m = n
      BY <1>5 DEF IsInjective
    <2>1. q[m] = q[n]
      BY <1>5
    <2> QED
      BY <1>1, <2>1 DEF IsInjective
  <1>7. ClaimsIn(c, from) = ids
    BY <1>1, <1>5 DEF ClaimsIn
  <1>8. ASSUME NEW s \in Agent, s # from PROVE ClaimsIn(c, s) = {}
    BY <1>5, <1>8 DEF ClaimsIn
  <1> QED
    BY <1>4, <1>6, <1>7, <1>8 DEF c

\* The claims of one list and then of another.
LEMMA ClaimsJoin ==
  ASSUME NEW c \in Seq(Claim), NEW d \in Seq(Claim)
  PROVE  /\ c \o d \in Seq(Claim)
         /\ \A s \in Agent : ClaimsIn(c \o d, s) = ClaimsIn(c, s) \cup ClaimsIn(d, s)
         /\ (IsInjective(c) /\ IsInjective(d) /\ \A s \in Agent : ClaimsIn(c, s) \cap ClaimsIn(d, s) = {}) =>
              IsInjective(c \o d)
  <1> DEFINE e == c \o d
             l == Len(c)
             k == Len(d)
  <1>1. /\ e \in Seq(Claim) /\ l \in Nat /\ k \in Nat /\ DOMAIN e = 1..(l + k)
        /\ DOMAIN c = 1..l /\ DOMAIN d = 1..k
    OBVIOUS
  <1>2. \A n \in 1..l : e[n] = c[n]
    OBVIOUS
  <1>3. \A n \in 1..k : e[l + n] = d[n]
    OBVIOUS
  <1>4. \A n \in 1..l : c[n] \in Claim
    OBVIOUS
  <1>5. \A n \in 1..k : d[n] \in Claim
    OBVIOUS
  <1> HIDE DEF e, l, k
  <1>6. ASSUME NEW n \in 1..(l + k) PROVE n \in 1..l \/ \E m \in 1..k : n = l + m
    <2>1. n \in 1..l \/ (n - l \in 1..k /\ n = l + (n - l))
      BY <1>1
    <2> QED
      BY <2>1
  <1>7. \A n \in 1..k : l + n \in 1..(l + k)
    BY <1>1
  <1>8. \A n \in 1..l : n \in 1..(l + k)
    BY <1>1
  <1>9. ASSUME NEW s \in Agent PROVE ClaimsIn(e, s) = ClaimsIn(c, s) \cup ClaimsIn(d, s)
    <2>1. ASSUME NEW i \in ClaimsIn(e, s) PROVE i \in ClaimsIn(c, s) \cup ClaimsIn(d, s)
      <3>1. PICK n \in 1..(l + k) : i \in Id /\ e[n] = [by |-> s, id |-> i]
        BY <1>1, <2>1 DEF ClaimsIn
      <3>2. CASE n \in 1..l
        <4>1. n \in DOMAIN c /\ c[n] = [by |-> s, id |-> i]
          BY <1>1, <1>2, <3>1, <3>2
        <4> QED
          BY <3>1, <4>1 DEF ClaimsIn
      <3>3. ASSUME NEW m \in 1..k, n = l + m PROVE i \in ClaimsIn(d, s)
        <4>1. m \in DOMAIN d /\ d[m] = [by |-> s, id |-> i]
          BY <1>1, <1>3, <3>1, <3>3
        <4> QED
          BY <3>1, <4>1 DEF ClaimsIn
      <3> QED
        BY <1>6, <3>2, <3>3
    <2>2. ASSUME NEW i \in ClaimsIn(c, s) PROVE i \in ClaimsIn(e, s)
      BY <1>1, <1>2, <1>8, <2>2 DEF ClaimsIn
    <2>3. ASSUME NEW i \in ClaimsIn(d, s) PROVE i \in ClaimsIn(e, s)
      BY <1>1, <1>3, <1>7, <2>3 DEF ClaimsIn
    <2> QED
      BY <2>1, <2>2, <2>3
  <1>10. ASSUME IsInjective(c), IsInjective(d), \A s \in Agent : ClaimsIn(c, s) \cap ClaimsIn(d, s) = {}
         PROVE  IsInjective(e)
    <2> SUFFICES ASSUME NEW m \in 1..(l + k), NEW n \in 1..(l + k), e[m] = e[n] PROVE m = n
      BY <1>1 DEF IsInjective
    <2>1. ASSUME NEW x \in 1..l, NEW y \in 1..k PROVE c[x] # d[y]
      <3> SUFFICES ASSUME c[x] = d[y] PROVE FALSE
        OBVIOUS
      <3>1. c[x] \in Claim
        BY <1>4
      <3>2. c[x] = [by |-> c[x].by, id |-> c[x].id] /\ c[x].by \in Agent /\ c[x].id \in Id
        BY <3>1 DEF Claim
      <3>3. c[x].id \in ClaimsIn(c, c[x].by) /\ c[x].id \in ClaimsIn(d, c[x].by)
        BY <1>1, <3>2 DEF ClaimsIn
      <3> QED
        BY <1>10, <3>2, <3>3
    <2>2. CASE m \in 1..l /\ n \in 1..l
      BY <1>1, <1>2, <1>10, <2>2 DEF IsInjective
    <2>3. ASSUME NEW x \in 1..k, n = l + x, m \in 1..l PROVE FALSE
      BY <1>2, <1>3, <2>1, <2>3
    <2>4. ASSUME NEW x \in 1..k, m = l + x, n \in 1..l PROVE FALSE
      BY <1>2, <1>3, <2>1, <2>4
    <2>5. ASSUME NEW x \in 1..k, NEW y \in 1..k, m = l + x, n = l + y PROVE m = n
      <3>1. d[x] = d[y]
        BY <1>3, <2>5
      <3> QED
        BY <1>1, <1>10, <2>5, <3>1 DEF IsInjective
    <2> QED
      BY <1>6, <2>2, <2>3, <2>4, <2>5
  <1> QED
    BY <1>1, <1>9, <1>10 DEF e

\* The claims a peer has are no more than its bound allows once it has been applied; all
\* stay that did not exceed it, and everybody else's do.
LEMMA CapIs ==
  ASSUME ProfileShareAssumption, NEW c \in Seq(Claim), IsInjective(c), NEW from \in Agent
  PROVE  LET d == CapClaimsPerPeer(c, from) IN
         /\ d \in Seq(Claim) /\ IsInjective(d)
         /\ \A s \in Agent : s # from => ClaimsIn(d, s) = ClaimsIn(c, s)
         /\ ClaimsIn(d, from) \subseteq ClaimsIn(c, from)
         /\ Cardinality(ClaimsIn(d, from)) <= MaxClaims
         /\ Cardinality(ClaimsIn(c, from)) <= MaxClaims => ClaimsIn(d, from) = ClaimsIn(c, from)
  <1> DEFINE mine(n) == {i \in DOMAIN c : i >= n /\ c[i].by = from}
             K == {n \in DOMAIN c : c[n].by # from \/ Cardinality(mine(n)) <= MaxClaims}
             d == CapClaimsPerPeer(c, from)
             l == Len(c)
             p == Len(d)
  <1>1. d = Pick(c, K)
    BY DEF CapClaimsPerPeer
  <1>2. Pick(c, K) \in Seq(Claim) /\ \E g : PlacesOf(g, Pick(c, K), c, K, Len(c))
    BY PickIs
  <1>3. d \in Seq(Claim) /\ \E g : PlacesOf(g, d, c, K, l)
    BY <1>1, <1>2
  <1>4. DOMAIN c = 1..l /\ l \in Nat /\ (\A n \in 1..l : c[n] \in Claim) /\ IsFiniteSet(DOMAIN c)
    BY FS_Interval
  <1>5. \A n \in 1..l : mine(n) \subseteq DOMAIN c /\ IsFiniteSet(mine(n))
    BY <1>4, FS_Subset
  <1>6. DOMAIN d = 1..p /\ p \in Nat
    BY <1>3
  <1> HIDE DEF K, d, l, p
  <1>7. PICK g : PlacesOf(g, d, c, K, l)
    BY <1>3
  <1>8. /\ g \in [1..p -> 1..l]
        /\ \A n \in 1..p : g[n] \in K /\ d[n] = c[g[n]]
        /\ \A m, n \in 1..p : g[m] = g[n] => m = n
        /\ \A m \in 1..l : m \in K => \E n \in 1..p : g[n] = m
    BY <1>7 DEF PlacesOf, p
  <1>9. IsInjective(d)
    <2> SUFFICES ASSUME NEW m \in 1..p, NEW n \in 1..p, d[m] = d[n] PROVE m = n
      BY <1>6 DEF IsInjective
    <2>1. c[g[m]] = c[g[n]] /\ g[m] \in DOMAIN c /\ g[n] \in DOMAIN c
      BY <1>4, <1>8
    <2>2. g[m] = g[n]
      BY <2>1 DEF IsInjective
    <2> QED
      BY <1>8, <2>2
  <1>10. ASSUME NEW s \in Agent PROVE ClaimsIn(d, s) \subseteq ClaimsIn(c, s)
    <2> SUFFICES ASSUME NEW i \in ClaimsIn(d, s) PROVE i \in ClaimsIn(c, s)
      OBVIOUS
    <2>1. PICK n \in 1..p : i \in Id /\ d[n] = [by |-> s, id |-> i]
      BY <1>6 DEF ClaimsIn
    <2>2. g[n] \in DOMAIN c /\ c[g[n]] = [by |-> s, id |-> i]
      BY <1>4, <1>8, <2>1
    <2> QED
      BY <2>1, <2>2 DEF ClaimsIn
  <1>11. ASSUME NEW s \in Agent, NEW i \in Id, NEW n \in 1..l, n \in K, c[n] = [by |-> s, id |-> i]
         PROVE  i \in ClaimsIn(d, s)
    <2>1. PICK m \in 1..p : g[m] = n
      BY <1>8, <1>11
    <2>2. m \in DOMAIN d /\ d[m] = [by |-> s, id |-> i]
      BY <1>6, <1>8, <1>11, <2>1
    <2> QED
      BY <2>2 DEF ClaimsIn
  <1>12. ASSUME NEW s \in Agent, s # from PROVE ClaimsIn(d, s) = ClaimsIn(c, s)
    <2> SUFFICES ASSUME NEW i \in ClaimsIn(c, s) PROVE i \in ClaimsIn(d, s)
      BY <1>10
    <2>1. PICK n \in 1..l : i \in Id /\ c[n] = [by |-> s, id |-> i]
      BY <1>4 DEF ClaimsIn
    <2>2. n \in K
      BY <1>4, <1>12, <2>1 DEF K
    <2> QED
      BY <1>11, <2>1, <2>2
  <1>13. Cardinality(ClaimsIn(d, from)) <= MaxClaims
    <2> DEFINE Q == {n \in 1..l : n \in K /\ c[n].by = from}
    <2>1. CASE Q = {}
      <3>1. ClaimsIn(d, from) = {}
        <4> SUFFICES ASSUME NEW i \in ClaimsIn(d, from) PROVE FALSE
          OBVIOUS
        <4>1. PICK n \in 1..p : d[n] = [by |-> from, id |-> i]
          BY <1>6 DEF ClaimsIn
        <4>2. g[n] \in 1..l /\ g[n] \in K /\ c[g[n]] = [by |-> from, id |-> i]
          BY <1>8, <4>1
        <4>3. g[n] \in Q
          BY <4>2
        <4> QED
          BY <2>1, <4>3
      <3> QED
        BY <3>1, FS_EmptySet DEF ProfileShareAssumption
    <2>2. CASE Q # {}
      <3>1. PICK n \in Q : \A m \in Q : n <= m
        <4>1. Q \subseteq Nat
          BY <1>4
        <4> HIDE DEF Q
        <4> QED
          BY <2>2, <4>1, Least
      <3>2. n \in 1..l /\ n \in K /\ c[n].by = from
        BY <3>1
      <3>3. Q \subseteq mine(n)
        BY <1>4, <3>1
      <3>4. Cardinality(mine(n)) <= MaxClaims
        BY <3>2 DEF K
      <3>5. IsFiniteSet(Q) /\ Cardinality(Q) <= Cardinality(mine(n))
        <4>1. IsFiniteSet(mine(n))
          BY <1>5, <3>2
        <4> HIDE DEF Q, mine
        <4> QED
          BY <3>3, <4>1, FS_Subset
      <3> DEFINE f == [m \in Q |-> c[m].id]
      <3>6. f \in [Q -> ClaimsIn(d, from)]
        <4> SUFFICES ASSUME NEW m \in Q PROVE c[m].id \in ClaimsIn(d, from)
          OBVIOUS
        <4>1. m \in 1..l /\ m \in K /\ c[m].by = from /\ c[m] \in Claim
          BY <1>4
        <4>2. c[m] = [by |-> from, id |-> c[m].id] /\ c[m].id \in Id
          BY <4>1 DEF Claim
        <4> QED
          BY <1>11, <4>1, <4>2
      <3>7. ASSUME NEW i \in ClaimsIn(d, from) PROVE \E m \in Q : f[m] = i
        <4>1. PICK m \in 1..p : d[m] = [by |-> from, id |-> i]
          BY <1>6 DEF ClaimsIn
        <4>2. g[m] \in 1..l /\ g[m] \in K /\ c[g[m]] = [by |-> from, id |-> i]
          BY <1>8, <4>1
        <4>3. g[m] \in Q /\ f[g[m]] = i
          BY <4>2
        <4> QED
          BY <4>3
      <3>8. Cardinality(ClaimsIn(d, from)) <= Cardinality(Q) /\ IsFiniteSet(ClaimsIn(d, from))
        <4> HIDE DEF f, Q
        <4> QED
          BY <3>5, <3>6, <3>7, ImageIsNoLarger
      <3>9. /\ Cardinality(ClaimsIn(d, from)) \in Nat /\ Cardinality(Q) \in Nat
            /\ Cardinality(mine(n)) \in Nat /\ MaxClaims \in Nat
        BY <1>5, <3>2, <3>5, <3>8, FS_CardinalityType DEF ProfileShareAssumption
      <3> QED
        BY <3>4, <3>5, <3>8, <3>9
    <2> QED
      BY <2>1, <2>2
  <1>14. ASSUME Cardinality(ClaimsIn(c, from)) <= MaxClaims PROVE ClaimsIn(d, from) = ClaimsIn(c, from)
    <2> SUFFICES ASSUME NEW i \in ClaimsIn(c, from) PROVE i \in ClaimsIn(d, from)
      BY <1>10
    <2>1. PICK n \in 1..l : i \in Id /\ c[n] = [by |-> from, id |-> i]
      BY <1>4 DEF ClaimsIn
    <2> DEFINE M == mine(n)
               T == ClaimsIn(c, from)
               f == [m \in M |-> c[m].id]
    <2>2. \A m \in M : m \in DOMAIN c /\ c[m] = [by |-> from, id |-> c[m].id] /\ c[m].id \in Id
      BY <1>4 DEF Claim
    <2>3. f \in [M -> T]
      BY <2>2 DEF ClaimsIn
    <2>4. IsInjective(f)
      <3> SUFFICES ASSUME NEW x \in M, NEW y \in M, c[x].id = c[y].id PROVE x = y
        BY DEF IsInjective
      <3>1. c[x] = c[y] /\ x \in DOMAIN c /\ y \in DOMAIN c
        BY <2>2, Zenon
      <3> QED
        BY <3>1 DEF IsInjective
    <2>5. f \in Injection(M, T)
      BY <2>3, <2>4 DEF Injection
    <2>6. IsFiniteSet(T)
      <3>1. T \in SUBSET Id
        BY DEF ClaimsIn
      <3> HIDE DEF T
      <3> QED
        BY <3>1, FS_Subset DEF ProfileShareAssumption
    <2>7. Cardinality(M) <= Cardinality(T) /\ IsFiniteSet(M)
      <3> HIDE DEF M, T, f
      <3> QED
        BY <2>5, <2>6, FS_Injection
    <2>8. Cardinality(M) \in Nat /\ Cardinality(T) \in Nat /\ MaxClaims \in Nat
      BY <2>6, <2>7, FS_CardinalityType DEF ProfileShareAssumption
    <2>9. Cardinality(M) <= MaxClaims
      BY <1>14, <2>7, <2>8
    <2>10. n \in K
      BY <1>4, <2>9 DEF K
    <2> QED
      BY <1>11, <2>1, <2>10
  <1> QED
    BY <1>3, <1>9, <1>10, <1>12, <1>13, <1>14 DEF d

-----------------------------------------------------------------------------
(* Records stay what they are while messages are added to the outboxes.    *)

\* Every message that is in ob is in pb.
More(ob, pb) == \A o \in Op : ob[o] # None => pb[o] = ob[o]

LEMMA FriendStays ==
  ASSUME NEW ob, NEW pb, More(ob, pb), NEW a, NEW f, FriendOk(ob, a, f)
  PROVE  FriendOk(pb, a, f)
  <1>1. \A s, o : o \in Op /\ Wrote(ob, s, a, o) => Wrote(pb, s, a, o) /\ pb[o] = ob[o]
    BY DEF More, Wrote
  <1>2. HeardFrom(pb, a, f.imported)
    BY <1>1 DEF FriendOk, HeardFrom
  <1>3. Bounded(pb, a, f.claims)
    BY <1>1 DEF FriendOk, Bounded
  <1> QED
    BY <1>2, <1>3 DEF FriendOk

LEMMA MissionStays ==
  ASSUME NEW ob, NEW pb, More(ob, pb), NEW a, NEW m, MissionOk(ob, a, m)
  PROVE  MissionOk(pb, a, m)
  <1>1. \A s, o : o \in Op /\ Wrote(ob, s, a, o) => Wrote(pb, s, a, o) /\ pb[o] = ob[o]
    BY DEF More, Wrote
  <1>2. HeardFrom(pb, a, m.imported)
    BY <1>1 DEF MissionOk, HeardFrom
  <1> QED
    BY <1>2 DEF MissionOk

-----------------------------------------------------------------------------
(* What the writers of a record make of it.                                *)

LEMMA NoteOk ==
  ASSUME ImportsAssumption, NEW ob, NEW o \in Op, NEW f, FriendOk(ob, Agt(o), f), Plan[o].kind = "note",
         Plan[o].from # None => f.imported[Plan[o].from][Plan[o].key] # None
  PROVE  FriendOk(ob, Agt(o), ApplyFriendNote(f, Plan[o].key, Content(o, f), Source(o, f)))
  <1> DEFINE k == Plan[o].key
             s == Plan[o].from
             n == [value |-> Content(o, f), shareable |-> FALSE, from |-> Source(o, f)]
             g == ApplyFriendNote(f, k, Content(o, f), Source(o, f))
  <1>1. k \in Key /\ Plan[o].value \in Value /\ s \in Agent \cup {None} /\ Agt(o) \in Agent
    BY DEF ImportsAssumption, Agt
  <1>2. f \in FriendRecord /\ f.imported \in [Agent -> [Key -> Told \cup {None}]] /\ f.notes \in [Key -> Note \cup {None}]
    BY DEF FriendOk, FriendRecord
  <1>3. n \in Note /\ Origin[n.value] = IF n.from = None THEN Agt(o) ELSE n.from
    <2>1. CASE s = None
      <3>1. Content(o, f) = Plan[o].value /\ Source(o, f) = None
        BY <2>1 DEF Content, Source
      <3>2. Origin[Plan[o].value] = Agt(o)
        BY <2>1 DEF ImportsAssumption, Agt
      <3> QED
        BY <1>1, <3>1, <3>2 DEF Note
    <2>2. CASE s # None
      <3> DEFINE told == f.imported[s][k]
      <3>1. Content(o, f) = told.value /\ Source(o, f) = told.originally
        BY <2>2 DEF Content, Source
      <3>2. s \in Agent /\ told \in Told
        <4>1. s \in Agent
          BY <1>1, <2>2
        <4>2. told \in Told \cup {None}
          <5>1. f.imported[s] \in [Key -> Told \cup {None}]
            BY <1>2, <4>1
          <5> HIDE DEF s, k
          <5> QED
            BY <1>1, <5>1
        <4>3. told # None
          BY <2>2
        <4> QED
          BY <4>1, <4>2, <4>3
      <3>3. Origin[told.value] = told.originally
        BY <1>1, <2>2, <3>2 DEF FriendOk, HeardFrom
      <3>4. told.value \in Value /\ told.originally \in Agent /\ told.originally # None
        BY <3>2, ProfileShareAssumption DEF Told, ProfileShareAssumption
      <3> HIDE DEF told
      <3> QED
        BY <3>1, <3>3, <3>4 DEF Note
    <2> QED
      BY <2>1, <2>2
  <1>4. g = [f EXCEPT !.notes[k] = n]
    BY DEF ApplyFriendNote
  <1> HIDE DEF n, g, k, s
  <1>5. /\ g \in FriendRecord /\ g.imported = f.imported /\ g.claims = f.claims
        /\ g.notes = [f.notes EXCEPT ![k] = n]
    BY <1>1, <1>2, <1>3, <1>4 DEF FriendRecord
  <1>6. TrueNotes(Agt(o), g.notes)
    <2>1. TrueNotes(Agt(o), f.notes)
      BY DEF FriendOk
    <2> QED
      BY <1>1, <1>2, <1>3, <1>5, <2>1 DEF TrueNotes
  <1> QED
    BY <1>5, <1>6 DEF FriendOk, g, k

LEMMA OutcomeOk ==
  ASSUME ImportsAssumption, NEW ob, NEW a, NEW f, FriendOk(ob, a, f),
         NEW result \in Result, NEW heard \in BOOLEAN, NEW delta \in Int
  PROVE  FriendOk(ob, a, RecordOutcome(f, result, heard, delta))
  <1> DEFINE g == RecordOutcome(f, result, heard, delta)
  <1>1. CASE ~ f.peer
    BY <1>1 DEF RecordOutcome
  <1>2. CASE f.peer
    <2>1. g = [f EXCEPT !.outcomes = Append(@, [result |-> result, heard |-> heard]), !.familiarity = @ + delta]
      BY <1>2 DEF RecordOutcome
    <2>2. f \in FriendRecord /\ f.familiarity \in Int /\ f.outcomes \in Seq([result : Result, heard : BOOLEAN])
      BY DEF FriendOk, FriendRecord
    <2> DEFINE q == Append(f.outcomes, [result |-> result, heard |-> heard])
               n == f.familiarity + delta
    <2>3. q \in Seq([result : Result, heard : BOOLEAN]) /\ n \in Int
      BY <2>2
    <2>4. g = [f EXCEPT !.outcomes = q, !.familiarity = n]
      BY <2>1
    <2> HIDE DEF g, q, n
    <2>5. g \in FriendRecord /\ g.imported = f.imported /\ g.claims = f.claims /\ g.notes = f.notes
      BY <2>2, <2>3, <2>4 DEF FriendRecord
    <2>6. FriendOk(ob, a, g)
      BY <2>5 DEF FriendOk
    <2> QED
      BY <2>6 DEF g
  <1> QED
    BY <1>1, <1>2

LEMMA IdsOk ==
  ASSUME NEW ob, NEW a, NEW f, FriendOk(ob, a, f), NEW ids \in SUBSET Id
  PROVE  FriendOk(ob, a, [f EXCEPT !.ids = ids])
  <1> DEFINE g == [f EXCEPT !.ids = ids]
  <1>1. f \in FriendRecord
    BY DEF FriendOk
  <1>2. g \in FriendRecord /\ g.imported = f.imported /\ g.claims = f.claims /\ g.notes = f.notes
    BY <1>1 DEF FriendRecord
  <1> HIDE DEF g
  <1>3. FriendOk(ob, a, g)
    BY <1>2 DEF FriendOk
  <1> QED
    BY <1>3 DEF g

LEMMA RecordedOk ==
  ASSUME ImportsAssumption, NEW ob, NEW o \in Op, NEW m, MissionOk(ob, Agt(o), m), Plan[o].kind = "record",
         NEW t \in Nat
  PROVE  MissionOk(ob, Agt(o), RecordMission(m, [status |-> Plan[o].status, participants |-> {Plan[o].to},
           key |-> Plan[o].key, value |-> Plan[o].value, shareable |-> Plan[o].shareable], t))
  <1> DEFINE k == Plan[o].key
             v == Plan[o].value
             l == [value |-> v, shareable |-> Plan[o].shareable]
             row == [value |-> v, at |-> t, by |-> None]
             g == RecordMission(m, [status |-> Plan[o].status, participants |-> {Plan[o].to},
                    key |-> k, value |-> v, shareable |-> Plan[o].shareable], t)
  <1>1. /\ k \in Key /\ v \in Value /\ Plan[o].to \in Agent /\ Plan[o].status \in {"active", "succeeded"}
        /\ Plan[o].shareable \in BOOLEAN /\ Origin[v] = Agt(o)
    BY DEF ImportsAssumption, Agt
  <1>2. m \in MissionRecord
    BY DEF MissionOk
  <1>3. l \in Learning /\ row \in Outcome
    BY <1>1 DEF Learning, Outcome
  <1>4. g = [m EXCEPT !.status = Plan[o].status, !.participants = @ \cup {Plan[o].to}, !.learnings[k] = l,
                      !.outcomes = Append(@, row)]
    BY DEF RecordMission
  <1>5. row.by = None /\ l.value = v
    OBVIOUS
  <1> HIDE DEF k, v, l, row, g
  <1>6. m.outcomes \in Seq(Outcome) /\ m.learnings \in [Key -> Learning \cup {None}]
    BY <1>2 DEF MissionRecord
  <1>7. Append(m.outcomes, row) \in Seq(Outcome)
    BY <1>3, <1>6
  <1>8. g \in MissionRecord
    BY <1>1, <1>2, <1>3, <1>4, <1>7 DEF MissionRecord
  <1>9. /\ g.imported = m.imported /\ g.outcomes = Append(m.outcomes, row)
        /\ g.learnings = [m.learnings EXCEPT ![k] = l]
    BY <1>2, <1>4 DEF MissionRecord
  <1>10. TrueLearnings(Agt(o), g.learnings)
    <2>1. TrueLearnings(Agt(o), m.learnings)
      BY DEF MissionOk
    <2> QED
      BY <1>1, <1>5, <1>6, <1>9, <2>1 DEF TrueLearnings
  <1>11. RowsApart(g.outcomes)
    <2> DEFINE r == m.outcomes
               n == Len(r)
               q == Append(r, row)
    <2>1. RowsApart(r) /\ r \in Seq(Outcome)
      BY <1>6 DEF MissionOk
    <2> HIDE DEF r
    <2>2. /\ n \in Nat /\ DOMAIN r = 1..n /\ DOMAIN q = 1..(n + 1) /\ q[n + 1] = row
          /\ \A i \in 1..n : q[i] = r[i]
      BY ONLY <2>1
    <2> HIDE DEF r, n, q
    <2>3. \A i \in 1..(n + 1) : i \in 1..n \/ q[i].by = None
      BY <1>5, <2>2
    <2>4. RowsApart(q)
      <3> SUFFICES ASSUME NEW i \in 1..(n + 1), NEW j \in 1..(n + 1), q[i].by # None,
                          q[i].by = q[j].by, q[i].at = q[j].at
                   PROVE  i = j
        BY <2>2 DEF RowsApart
      <3>1. i \in 1..n /\ j \in 1..n
        BY <2>3
      <3>2. q[i] = r[i] /\ q[j] = r[j]
        BY <2>2, <3>1
      <3>3. r[i].by # None /\ r[i].by = r[j].by /\ r[i].at = r[j].at
        BY <3>2
      <3> QED
        BY <2>1, <2>2, <3>1, <3>3 DEF RowsApart
    <2> QED
      BY <1>9, <2>4 DEF q, r
  <1>12. MissionOk(ob, Agt(o), g)
    <2>1. HeardFrom(ob, Agt(o), g.imported)
      BY <1>9 DEF MissionOk
    <2> QED
      BY <1>8, <1>10, <1>11, <2>1 DEF MissionOk
  <1> QED
    BY <1>12 DEF g, k, v

LEMMA NewMissionOk ==
  ASSUME NEW ob, NEW a
  PROVE  MissionOk(ob, a, NewMission) /\ NewMission.outcomes = <<>>
  <1>1. NewMission \in MissionRecord
    BY DEF NewMission, MissionRecord, NoNotes, NoImported
  <1>2. TrueLearnings(a, NewMission.learnings)
    BY DEF NewMission, TrueLearnings, NoNotes
  <1>3. HeardFrom(ob, a, NewMission.imported)
    BY DEF NewMission, HeardFrom, NoImported, NoNotes
  <1>4. NewMission.outcomes = <<>>
    BY DEF NewMission
  <1>5. RowsApart(NewMission.outcomes)
    BY <1>4 DEF RowsApart
  <1> QED
    BY <1>1, <1>2, <1>3, <1>4, <1>5 DEF MissionOk

-----------------------------------------------------------------------------
(* Messages.                                                               *)

\* f is the message o or a copy of it.
IsOf(ob, f, o) ==
  /\ ob[o] # None /\ f.id = o /\ f.from = Agt(o) /\ f.to = Plan[o].to /\ f.kind = Plan[o].kind
  /\ f.at = ob[o].at /\ f.env = ob[o].env /\ f.rank = Plan[o].rank
  /\ ob[o].id = o /\ ob[o].from = f.from /\ ob[o].to = f.to /\ ob[o].kind = f.kind

LettersIn(ob, t) == \A o \in Op : ob[o] # None => LetterOk(t, o, ob[o])

LEMMA MessageIs ==
  ASSUME NEW ob, NEW t, LettersIn(ob, t), NEW f \in MessageIn(ob)
  PROVE  f \in File /\ \E o \in Op : IsOf(ob, f, o) /\ LetterOk(t, o, ob[o])
  <1>1. PICK o \in Op : ob[o] # None /\ (f = ob[o] \/ f = [ob[o] EXCEPT !.copy = TRUE])
    BY DEF MessageIn
  <1>2. LetterOk(t, o, ob[o])
    BY <1>1 DEF LettersIn
  <1> DEFINE g == ob[o]
  <1>3. /\ g \in File
        /\ g = BuildOutgoing(o, Plan[o].rank, Agt(o), Plan[o].to, g.at, Plan[o].kind, g.env)
    BY <1>2 DEF LetterOk
  <1>4. f = g \/ f = [g EXCEPT !.copy = TRUE]
    BY <1>1
  <1> HIDE DEF g
  <1>5. /\ g.id = o /\ g.from = Agt(o) /\ g.to = Plan[o].to /\ g.kind = Plan[o].kind /\ g.rank = Plan[o].rank
    BY <1>3 DEF BuildOutgoing
  <1>6. f \in File
    BY <1>3, <1>4 DEF File
  <1>7. /\ f.id = g.id /\ f.from = g.from /\ f.to = g.to /\ f.kind = g.kind /\ f.rank = g.rank
        /\ f.at = g.at /\ f.env = g.env
    BY <1>3, <1>4 DEF File
  <1>8. IsOf(ob, f, o)
    BY <1>1, <1>5, <1>7 DEF IsOf, g
  <1> QED
    BY <1>2, <1>6, <1>8

\* What was written is a message, and so is a copy of it.
LEMMA CopyIs ==
  ASSUME NEW ob, NEW o \in Op, ob[o] # None
  PROVE  ob[o] \in MessageIn(ob) /\ [ob[o] EXCEPT !.copy = TRUE] \in MessageIn(ob)
  <1>1. o \in {p \in Op : ob[p] # None}
    OBVIOUS
  <1>2. {ob[o], [ob[o] EXCEPT !.copy = TRUE]} \in
          {{ob[p], [ob[p] EXCEPT !.copy = TRUE]} : p \in {p \in Op : ob[p] # None}}
    BY <1>1, Zenon
  <1> QED
    BY <1>2, Zenon DEF MessageIn

\* A message stays one.
LEMMA MessageStays ==
  ASSUME NEW ob, NEW pb, More(ob, pb)
  PROVE  MessageIn(ob) \subseteq MessageIn(pb)
  BY DEF More, MessageIn

-----------------------------------------------------------------------------
(* What an import makes of a record.                                       *)

LEMMA MergeOk ==
  ASSUME ImportsAssumption, NEW ob, NEW t, NEW a \in Agent, NEW o \in Op, NEW f, IsOf(ob, f, o), f.to = a,
         LetterOk(t, o, ob[o]), NEW imported \in [Agent -> [Key -> Told \cup {None}]], HeardFrom(ob, a, imported)
  PROVE  LET merged == MergeImported(imported, f.env.notes, f.from) IN
         /\ merged \in [Agent -> [Key -> Told \cup {None}]]
         /\ HeardFrom(ob, a, merged)
         /\ \A s \in Agent : s # f.from => merged[s] = imported[s]
         /\ \A k \in Key : merged[f.from][k] = IF k \in DOMAIN f.env.notes THEN f.env.notes[k] ELSE imported[f.from][k]
  <1> DEFINE notes == f.env.notes
             from == f.from
             new == [k \in Key |-> IF k \in DOMAIN notes THEN notes[k] ELSE imported[from][k]]
             merged == MergeImported(imported, notes, from)
  <1>1. from \in Agent /\ from = Agt(o) /\ notes = ob[o].env.notes /\ Wrote(ob, from, a, o)
    BY DEF IsOf, ImportsAssumption, Agt, Wrote
  <1>2. /\ notes \in Notes
        /\ \A k \in DOMAIN notes : Origin[notes[k].value] = notes[k].originally
    <2>1. ob[o].env \in Profile \/ ob[o].env \in Ledger
      BY DEF LetterOk
    <2>2. ob[o].env.notes \in Notes
      BY <2>1 DEF Profile, Ledger
    <2> QED
      BY <1>1, <2>2 DEF LetterOk
  <1>3. \A k \in DOMAIN notes : k \in Key /\ notes[k] \in Told
    <2>1. PICK n : n = f.env.notes
      OBVIOUS
    <2>2. PICK K \in SUBSET Key : n \in [K -> Told]
      BY <1>2, <2>1 DEF Notes
    <2>3. \A k \in DOMAIN n : k \in Key /\ n[k] \in Told
      BY ONLY <2>2
    <2> QED
      BY <2>1, <2>3
  <1>4. merged = [imported EXCEPT ![from] = new]
    BY DEF MergeImported
  <1> HIDE DEF notes, from, merged
  <1>5. new \in [Key -> Told \cup {None}]
    <2>1. \A k \in Key : imported[from][k] \in Told \cup {None}
      BY <1>1
    <2> QED
      BY <1>3, <2>1
  <1>6. \A k \in Key : new[k] = IF k \in DOMAIN notes THEN notes[k] ELSE imported[from][k]
    OBVIOUS
  <1> HIDE DEF new
  <1>7. merged \in [Agent -> [Key -> Told \cup {None}]] /\ merged[from] = new /\ \A s \in Agent : s # from => merged[s] = imported[s]
    BY <1>1, <1>4, <1>5
  <1>8. ASSUME NEW s \in Agent, NEW k \in Key, merged[s][k] # None
        PROVE  /\ Origin[merged[s][k].value] = merged[s][k].originally
               /\ \E p \in Op : Wrote(ob, s, a, p) /\ k \in DOMAIN ob[p].env.notes /\ ob[p].env.notes[k] = merged[s][k]
    <2>1. CASE s = from /\ k \in DOMAIN notes
      <3>1. merged[s][k] = notes[k]
        BY <1>6, <1>7, <2>1
      <3>2. Origin[notes[k].value] = notes[k].originally
        BY <1>2, <2>1
      <3>3. Wrote(ob, s, a, o) /\ k \in DOMAIN ob[o].env.notes /\ ob[o].env.notes[k] = notes[k]
        BY <1>1, <2>1
      <3> QED
        BY <3>1, <3>2, <3>3
    <2>2. CASE ~ (s = from /\ k \in DOMAIN notes)
      <3>1. merged[s][k] = imported[s][k]
        BY <1>6, <1>7, <2>2
      <3> QED
        BY <1>8, <3>1 DEF HeardFrom
    <2> QED
      BY <2>1, <2>2
  <1>9. HeardFrom(ob, a, merged)
    BY <1>8 DEF HeardFrom
  <1>10. \A k \in Key : merged[from][k] = IF k \in DOMAIN notes THEN notes[k] ELSE imported[from][k]
    BY <1>6, <1>7
  <1> QED
    BY <1>7, <1>9, <1>10 DEF merged, notes, from

\* The claims of a record with account ids held, once a peer has named ids.
MergedClaims(claims, held, ids, from) ==
  LET new == ids \ (held \cup ClaimsIn(claims, from))
  IN  IF new = {} THEN claims ELSE CapClaimsPerPeer(claims \o NewClaims(new, from), from)

\* They are the old and the new ones, if that is not too many.
MergedRight(d, c, new, from) ==
  /\ d \in Seq(Claim) /\ IsInjective(d)
  /\ \A s \in Agent : s # from => ClaimsIn(d, s) = ClaimsIn(c, s)
  /\ d = c \/ Cardinality(ClaimsIn(d, from)) <= MaxClaims
  /\ Cardinality(ClaimsIn(c, from) \cup new) <= MaxClaims => ClaimsIn(d, from) = ClaimsIn(c, from) \cup new

LEMMA MergedClaimsAre ==
  ASSUME ProfileShareAssumption, NEW c \in Seq(Claim), IsInjective(c),
         NEW held \in SUBSET Id, NEW ids \in SUBSET Id, NEW from \in Agent
  PROVE  MergedRight(MergedClaims(c, held, ids, from), c, ids \ held, from)
  <1> DEFINE d == MergedClaims(c, held, ids, from)
             all == ClaimsIn(c, from) \cup (ids \ held)
             new == ids \ (held \cup ClaimsIn(c, from))
             n == NewClaims(new, from)
             e == c \o n
  <1>1. d = IF new = {} THEN c ELSE CapClaimsPerPeer(e, from)
    BY DEF MergedClaims
  <1>2. new \in SUBSET Id /\ new \cap ClaimsIn(c, from) = {} /\ all = ClaimsIn(c, from) \cup new
    OBVIOUS
  <1>3. CASE new = {}
    <2>1. d = c /\ all = ClaimsIn(c, from)
      BY <1>1, <1>2, <1>3
    <2> HIDE DEF d, all, new
    <2> QED
      BY <2>1 DEF MergedRight, d, all
  <1>4. CASE new # {}
    <2>1. d = CapClaimsPerPeer(e, from)
      BY <1>1, <1>4
    <2> HIDE DEF d, all, new
    <2>2. /\ n \in Seq(Claim) /\ IsInjective(n) /\ ClaimsIn(n, from) = new
          /\ \A s \in Agent : s # from => ClaimsIn(n, s) = {}
      BY <1>2, NewClaimsAre
    <2> HIDE DEF n
    <2>3. \A s \in Agent : ClaimsIn(c, s) \cap ClaimsIn(n, s) = {}
      BY <1>2, <2>2
    <2>4. /\ e \in Seq(Claim) /\ IsInjective(e)
          /\ \A s \in Agent : ClaimsIn(e, s) = ClaimsIn(c, s) \cup ClaimsIn(n, s)
      BY <2>2, <2>3, ClaimsJoin
    <2>5. ClaimsIn(e, from) = all /\ \A s \in Agent : s # from => ClaimsIn(e, s) = ClaimsIn(c, s)
      BY <1>2, <2>2, <2>4
    <2> HIDE DEF e
    <2> DEFINE x == CapClaimsPerPeer(e, from)
    <2>6. /\ x \in Seq(Claim) /\ IsInjective(x)
          /\ \A s \in Agent : s # from => ClaimsIn(x, s) = ClaimsIn(e, s)
          /\ Cardinality(ClaimsIn(x, from)) <= MaxClaims
          /\ Cardinality(ClaimsIn(e, from)) <= MaxClaims => ClaimsIn(x, from) = ClaimsIn(e, from)
      BY <2>4, CapIs
    <2>7. d = x
      BY <2>1
    <2> HIDE DEF x
    <2>8. MergedRight(d, c, ids \ held, from)
      BY <2>5, <2>6, <2>7 DEF all, MergedRight
    <2> QED
      BY <2>8 DEF d
  <1> QED
    BY <1>3, <1>4

LEMMA AppliedOk ==
  ASSUME ImportsAssumption, NEW ob, NEW t, NEW a \in Agent, NEW o \in Op, NEW f, IsOf(ob, f, o), f.to = a,
         LetterOk(t, o, ob[o]), f.kind = "share_profile", NEW r, FriendOk(ob, a, r)
  PROVE  LET g == ApplyToRecord(r, f.env, f.from) IN
         /\ FriendOk(ob, a, g)
         /\ g.ids = r.ids /\ g.notes = r.notes /\ g.outcomes = r.outcomes /\ g.familiarity = r.familiarity
         /\ g.imported = MergeImported(r.imported, f.env.notes, f.from)
         /\ g.claims = MergedClaims(r.claims, r.ids, f.env.ids, f.from)
  <1> DEFINE g == ApplyToRecord(r, f.env, f.from)
             c == MergedClaims(r.claims, r.ids, f.env.ids, f.from)
             i == MergeImported(r.imported, f.env.notes, f.from)
  <1>1. r \in FriendRecord /\ TrueNotes(a, r.notes) /\ HeardFrom(ob, a, r.imported)
        /\ IsInjective(r.claims) /\ Bounded(ob, a, r.claims)
    BY DEF FriendOk
  <1>2. g = [r EXCEPT !.imported = i, !.claims = c]
    BY DEF ApplyToRecord, MergedClaims, Claims
  <1>3. i \in [Agent -> [Key -> Told \cup {None}]] /\ HeardFrom(ob, a, i)
    <2>1. r.imported \in [Agent -> [Key -> Told \cup {None}]]
      BY <1>1 DEF FriendRecord
    <2> QED
      BY <1>1, <2>1, MergeOk
  <1>4. /\ r.claims \in Seq(Claim) /\ r.ids \in SUBSET Id /\ f.env.ids \in SUBSET Id /\ f.from \in Agent
    <2>1. ob[o].env \in Profile
      BY DEF LetterOk, IsOf
    <2>2. f.env = ob[o].env /\ f.from = Agt(o)
      BY DEF IsOf
    <2>3. f.env.ids \in SUBSET Id
      BY ONLY <2>1, <2>2 DEF Profile
    <2>4. f.from \in Agent
      BY ONLY <2>2, ImportsAssumption, o \in Op DEF ImportsAssumption, Agt
    <2>5. r.claims \in Seq(Claim) /\ r.ids \in SUBSET Id
      BY ONLY <1>1 DEF FriendRecord
    <2> QED
      BY ONLY <2>3, <2>4, <2>5
  <1>5. /\ c \in Seq(Claim) /\ IsInjective(c)
        /\ \A s \in Agent : s # f.from => ClaimsIn(c, s) = ClaimsIn(r.claims, s)
        /\ c = r.claims \/ Cardinality(ClaimsIn(c, f.from)) <= MaxClaims
    <2> DEFINE cl == r.claims
               held == r.ids
               ids == f.env.ids
               from == f.from
               d == MergedClaims(cl, held, ids, from)
    <2>1. cl \in Seq(Claim) /\ IsInjective(cl) /\ held \in SUBSET Id /\ ids \in SUBSET Id /\ from \in Agent
      BY <1>1, <1>4
    <2> HIDE DEF cl, held, ids, from
    <2>2. MergedRight(d, cl, ids \ held, from)
      BY <2>1, MergedClaimsAre, ProfileShareAssumption
    <2>3. d = c
      BY DEF c, cl, held, ids, from
    <2> HIDE DEF d
    <2> QED
      BY <2>2, <2>3 DEF MergedRight, cl, from
  <1> HIDE DEF g, c, i
  <1>6. /\ g \in FriendRecord /\ g.ids = r.ids /\ g.notes = r.notes /\ g.imported = i /\ g.claims = c
        /\ g.outcomes = r.outcomes /\ g.familiarity = r.familiarity
    BY <1>1, <1>2, <1>3, <1>5 DEF FriendRecord
  <1>7. Bounded(ob, a, c)
    <2> SUFFICES ASSUME NEW s \in Agent
                 PROVE  \/ Cardinality(ClaimsIn(c, s)) <= MaxClaims
                        \/ \E p \in Op : Wrote(ob, s, a, p) /\ ob[p].env.ids = ClaimsIn(c, s)
      BY DEF Bounded
    <2>1. CASE ClaimsIn(c, s) = ClaimsIn(r.claims, s)
      BY <1>1, <2>1 DEF Bounded
    <2>2. CASE s = f.from /\ Cardinality(ClaimsIn(c, f.from)) <= MaxClaims
      BY <2>2
    <2> QED
      BY <1>5, <2>1, <2>2
  <1>8. FriendOk(ob, a, g)
    BY <1>1, <1>3, <1>5, <1>6, <1>7 DEF FriendOk
  <1> QED
    BY <1>6, <1>8 DEF g, c, i

LEMMA SeedOk ==
  ASSUME ImportsAssumption, NEW ob, NEW t, NEW a \in Agent, NEW o \in Op, NEW f, IsOf(ob, f, o), f.to = a,
         LetterOk(t, o, ob[o]), f.kind = "share_profile"
  PROVE  LET r == SeedRecord(f.env, f.from) IN
         /\ FriendOk(ob, a, r) /\ r.ids = {} /\ r.notes = NoNotes
         /\ ClaimsIn(r.claims, f.from) = f.env.ids
         /\ \A s \in Agent : s # f.from => ClaimsIn(r.claims, s) = {}
  <1> DEFINE r == SeedRecord(f.env, f.from)
             c == NewClaims(f.env.ids, f.from)
  <1>1. f.env.ids \in SUBSET Id /\ f.from \in Agent /\ Wrote(ob, f.from, a, o) /\ ob[o].env.ids = f.env.ids
    <2>1. ob[o].env \in Profile
      BY DEF LetterOk, IsOf
    <2> QED
      BY <2>1 DEF Profile, IsOf, ImportsAssumption, Agt, Wrote
  <1>2. /\ c \in Seq(Claim) /\ IsInjective(c) /\ ClaimsIn(c, f.from) = f.env.ids
        /\ \A s \in Agent : s # f.from => ClaimsIn(c, s) = {}
    BY <1>1, NewClaimsAre, ProfileShareAssumption
  <1>3. r = [ids |-> {}, claims |-> c, trust |-> Stranger, peer |-> FALSE,
             notes |-> NoNotes, imported |-> NoImported, outcomes |-> <<>>, familiarity |-> 0]
    BY DEF SeedRecord
  <1> HIDE DEF r, c
  <1>4. /\ r.ids = {} /\ r.claims = c /\ r.notes = NoNotes /\ r.imported = NoImported
    BY <1>3
  <1>5. r \in FriendRecord
    <2>1. NoNotes \in [Key -> Note \cup {None}]
      BY DEF NoNotes
    <2>2. NoImported \in [Agent -> [Key -> Told \cup {None}]]
      BY DEF NoImported, NoNotes
    <2>3. Stranger \in Stranger..Family
      BY DEF Stranger, Family
    <2>4. <<>> \in Seq([result : Result, heard : BOOLEAN]) /\ 0 \in Int /\ {} \in SUBSET Id /\ FALSE \in BOOLEAN
      OBVIOUS
    <2> QED
      BY <1>2, <1>3, <2>1, <2>2, <2>3, <2>4 DEF FriendRecord
  <1>6. TrueNotes(a, r.notes) /\ HeardFrom(ob, a, r.imported)
    BY <1>4 DEF TrueNotes, HeardFrom, NoImported, NoNotes
  <1>7. Bounded(ob, a, r.claims)
    <2> SUFFICES ASSUME NEW s \in Agent
                 PROVE  \/ Cardinality(ClaimsIn(c, s)) <= MaxClaims
                        \/ \E p \in Op : Wrote(ob, s, a, p) /\ ob[p].env.ids = ClaimsIn(c, s)
      BY <1>4 DEF Bounded
    <2>1. CASE s = f.from
      BY <1>1, <1>2, <2>1
    <2>2. CASE s # f.from
      <3>1. ClaimsIn(c, s) = {}
        BY <1>2, <2>2
      <3>2. Cardinality({}) = 0 /\ MaxClaims \in Nat
        BY FS_EmptySet, ProfileShareAssumption DEF ProfileShareAssumption
      <3>3. Cardinality({}) <= MaxClaims
        BY <3>2
      <3> QED
        BY <3>1, <3>3, Zenon
    <2> QED
      BY <2>1, <2>2
  <1> QED
    BY <1>2, <1>4, <1>5, <1>6, <1>7 DEF FriendOk, r

\* The rows of a mission once a peer's are merged: the old ones where they were, the new
\* ones the peer's, and one for every moment the peer told of.
RowsMerged(q, rows, incoming, from) ==
  /\ q \in Seq(Outcome) /\ RowsApart(q)
  /\ Len(rows) <= Len(q) /\ \A n \in 1..Len(rows) : q[n] = rows[n]
  /\ \A n \in 1..Len(q) : n \notin 1..Len(rows) => q[n].by = from
  /\ \A n \in 1..Len(incoming) : \E m \in 1..Len(q) : q[m].by = from /\ q[m].at = incoming[n].at

LEMMA MergedRowsAre ==
  ASSUME NEW rows \in Seq(Outcome), RowsApart(rows), NEW incoming \in Seq(Outcome), NEW from \in Agent
  PROVE  RowsMerged(MergeImportedOutcomes(rows, incoming, from), rows, incoming, from)
  <1> DEFINE held(at) == \E n \in DOMAIN rows : rows[n].at = at /\ rows[n].by = from
             fresh == {n \in DOMAIN incoming : /\ ~ held(incoming[n].at)
                                               /\ \A m \in 1..(n - 1) : incoming[m].at # incoming[n].at}
             p == Pick(incoming, fresh)
             x == [n \in DOMAIN p |-> [p[n] EXCEPT !.by = from]]
             q == MergeImportedOutcomes(rows, incoming, from)
             l == Len(rows)
             k == Len(p)
             j == Len(incoming)
  <1>1. q = rows \o x
    BY DEF MergeImportedOutcomes
  <1>2. p \in Seq(Outcome) /\ \E g : PlacesOf(g, p, incoming, fresh, Len(incoming))
    BY PickIs
  <1>3. /\ l \in Nat /\ DOMAIN rows = 1..l /\ (\A n \in 1..l : rows[n] \in Outcome)
        /\ j \in Nat /\ DOMAIN incoming = 1..j /\ (\A n \in 1..j : incoming[n] \in Outcome)
    OBVIOUS
  <1> HIDE DEF fresh, p
  <1>4. k \in Nat /\ DOMAIN p = 1..k /\ \A n \in 1..k : p[n] \in Outcome
    BY <1>2
  <1>5. PICK g : PlacesOf(g, p, incoming, fresh, j)
    BY <1>2
  <1> HIDE DEF q, l, k, j
  <1>6. /\ g \in [1..k -> 1..j]
        /\ \A n \in 1..k : g[n] \in fresh /\ p[n] = incoming[g[n]]
        /\ \A m, n \in 1..k : g[m] = g[n] => m = n
        /\ \A m \in 1..j : m \in fresh => \E n \in 1..k : g[n] = m
    BY <1>5 DEF PlacesOf, k
  <1>7. x = [n \in 1..k |-> [p[n] EXCEPT !.by = from]]
    BY <1>4
  <1>8. ASSUME NEW n \in 1..k
        PROVE  x[n] \in Outcome /\ x[n].by = from /\ x[n].at = incoming[g[n]].at
    <2>1. p[n] \in Outcome /\ x[n] = [p[n] EXCEPT !.by = from] /\ p[n] = incoming[g[n]]
      BY <1>4, <1>6, <1>7
    <2>2. PICK d, e : d = p[n] /\ e = x[n]
      OBVIOUS
    <2>3. d \in Outcome /\ e = [d EXCEPT !.by = from]
      BY <2>1, <2>2
    <2>4. e \in Outcome /\ e.by = from /\ e.at = d.at
      BY ONLY <2>3, from \in Agent DEF Outcome
    <2> QED
      BY <2>1, <2>2, <2>4
  <1> HIDE DEF x
  <1>9. x \in Seq(Outcome) /\ Len(x) = k
    <2>1. x = [n \in 1..k |-> x[n]]
      BY <1>7
    <2>2. x \in [1..k -> Outcome]
      BY <1>8, <2>1
    <2> QED
      BY <1>4, <2>1, <2>2
  <1>10. /\ q \in Seq(Outcome) /\ Len(q) = l + k
         /\ \A n \in 1..l : q[n] = rows[n]
    <2>1. x \in Seq(Outcome)
      BY <1>9
    <2>2. rows \o x \in Seq(Outcome) /\ Len(rows \o x) = Len(rows) + Len(x)
      BY <2>1
    <2>3. \A n \in 1..Len(rows) : (rows \o x)[n] = rows[n]
      BY <2>1
    <2>4. Len(rows) = l /\ Len(x) = k
      BY <1>9 DEF l
    <2> QED
      BY <1>1, <2>2, <2>3, <2>4, Zenon
  <1>11. ASSUME NEW n \in 1..k PROVE q[l + n] = x[n]
    BY <1>1, <1>3, <1>9 DEF l
  <1>12. ASSUME NEW n \in 1..(l + k), n \notin 1..l PROVE \E m \in 1..k : n = l + m
    <2>1. n - l \in 1..k /\ n = l + (n - l)
      BY <1>3, <1>4, <1>12
    <2> QED
      BY <2>1
  <1>13. \A n \in 1..k : l + n \in 1..(l + k)
    BY <1>3, <1>4
  <1>14. ASSUME NEW m \in 1..k, NEW n \in 1..l, rows[n].by = from PROVE rows[n].at # x[m].at
    <2>1. g[m] \in fresh /\ x[m].at = incoming[g[m]].at
      BY <1>6, <1>8
    <2>2. ~ held(incoming[g[m]].at)
      BY <2>1 DEF fresh
    <2> QED
      BY <1>3, <1>14, <2>1, <2>2
  <1>15. ASSUME NEW m \in 1..k, NEW n \in 1..k, x[m].at = x[n].at PROVE m = n
    <2>1. /\ g[m] \in fresh /\ x[m].at = incoming[g[m]].at /\ g[m] \in 1..j
          /\ g[n] \in fresh /\ x[n].at = incoming[g[n]].at /\ g[n] \in 1..j
      BY <1>6, <1>8
    <2>2. ~ (g[m] < g[n]) /\ ~ (g[n] < g[m])
      <3>1. ASSUME NEW u \in fresh, NEW v \in fresh, u \in 1..j, v \in 1..j, u < v
            PROVE  incoming[u].at # incoming[v].at
        <4>1. u \in 1..(v - 1)
          BY <1>3, <3>1
        <4> QED
          BY <4>1 DEF fresh
      <3> QED
        BY <1>15, <2>1, <3>1
    <2>3. g[m] = g[n]
      BY <1>3, <2>1, <2>2
    <2> QED
      BY <1>6, <2>3
  <1>16. RowsApart(q)
    <2> SUFFICES ASSUME NEW m \in 1..(l + k), NEW n \in 1..(l + k), q[m].by # None, q[m].by = q[n].by, q[m].at = q[n].at
                 PROVE  m = n
      <3>1. DOMAIN q = 1..(l + k)
        BY <1>10
      <3> QED
        BY <3>1 DEF RowsApart
    <2>1. CASE m \in 1..l /\ n \in 1..l
      <3>1. q[m] = rows[m] /\ q[n] = rows[n]
        BY <1>10, <2>1
      <3> QED
        BY <1>3, <2>1, <3>1 DEF RowsApart
    <2>2. ASSUME NEW v \in 1..k, n = l + v, m \in 1..l PROVE FALSE
      <3>1. q[m] = rows[m] /\ q[n] = x[v] /\ x[v].by = from
        BY <1>8, <1>10, <1>11, <2>2
      <3> QED
        BY <1>14, <2>2, <3>1
    <2>3. ASSUME NEW v \in 1..k, m = l + v, n \in 1..l PROVE FALSE
      <3>1. q[n] = rows[n] /\ q[m] = x[v] /\ x[v].by = from
        BY <1>8, <1>10, <1>11, <2>3
      <3> QED
        BY <1>14, <2>3, <3>1
    <2>4. ASSUME NEW u \in 1..k, NEW v \in 1..k, m = l + u, n = l + v PROVE m = n
      <3>1. q[m] = x[u] /\ q[n] = x[v]
        BY <1>11, <2>4
      <3>2. u = v
        BY <1>15, <3>1
      <3> QED
        BY <2>4, <3>2
    <2> QED
      BY <1>12, <2>1, <2>2, <2>3, <2>4
  <1>17. ASSUME NEW n \in 1..(l + k), n \notin 1..l PROVE q[n].by = from
    <2>1. PICK m \in 1..k : n = l + m
      BY <1>12, <1>17
    <2> QED
      BY <1>8, <1>11, <2>1
  <1>18. ASSUME NEW n \in 1..j PROVE \E m \in 1..(l + k) : q[m].by = from /\ q[m].at = incoming[n].at
    <2> DEFINE at == incoming[n].at
               S == {i \in 1..j : incoming[i].at = at}
    <2>1. PICK i \in S : \A m \in S : i <= m
      <3>1. S \subseteq Nat /\ n \in S
        BY <1>3
      <3> HIDE DEF S
      <3> QED
        BY <3>1, Least
    <2>2. i \in 1..j /\ incoming[i].at = at
      BY <2>1
    <2>3. ASSUME NEW m \in 1..(i - 1) PROVE incoming[m].at # incoming[i].at
      <3>1. m \in 1..j /\ ~ (i <= m)
        BY <1>3, <2>2
      <3>2. m \notin S
        BY <2>1, <3>1
      <3> QED
        BY <2>2, <3>1, <3>2
    <2>4. CASE held(at)
      <3>1. PICK m \in 1..l : rows[m].at = at /\ rows[m].by = from
        BY <1>3, <2>4
      <3>2. m \in 1..(l + k) /\ q[m] = rows[m]
        BY <1>3, <1>4, <1>10
      <3> QED
        BY <3>1, <3>2
    <2>5. CASE ~ held(at)
      <3>1. i \in fresh
        BY <1>3, <2>2, <2>3, <2>5 DEF fresh
      <3>2. PICK m \in 1..k : g[m] = i
        BY <1>6, <2>2, <3>1
      <3>3. l + m \in 1..(l + k) /\ q[l + m] = x[m] /\ x[m].by = from /\ x[m].at = at
        BY <1>8, <1>11, <1>13, <2>2, <3>2
      <3> QED
        BY <3>3
    <2> QED
      BY <2>4, <2>5
  <1>19. l <= l + k
    BY <1>3, <1>4
  <1>20. RowsMerged(q, rows, incoming, from)
    BY <1>10, <1>16, <1>17, <1>18, <1>19 DEF RowsMerged, l, j
  <1> QED
    BY <1>20 DEF q

\* The mission g is m with what a peer told of it.
MissionMerged(g, m, env, from) ==
  /\ g.status = m.status /\ g.participants = m.participants /\ g.learnings = m.learnings
  /\ RowsMerged(g.outcomes, m.outcomes, env.outcomes, from)

LEMMA MissionAppliedOk ==
  ASSUME ImportsAssumption, NEW ob, NEW t, NEW a \in Agent, NEW o \in Op, NEW f, IsOf(ob, f, o), f.to = a,
         LetterOk(t, o, ob[o]), f.kind = "share_mission", NEW m, MissionOk(ob, a, m)
  PROVE  /\ MissionOk(ob, a, ApplyToMission(m, f.env, f.from))
         /\ MissionMerged(ApplyToMission(m, f.env, f.from), m, f.env, f.from)
  <1> DEFINE g == ApplyToMission(m, f.env, f.from)
             q == MergeImportedOutcomes(m.outcomes, f.env.outcomes, f.from)
             i == MergeImported(m.imported, f.env.notes, f.from)
  <1>1. m \in MissionRecord /\ TrueLearnings(a, m.learnings) /\ HeardFrom(ob, a, m.imported) /\ RowsApart(m.outcomes)
    BY DEF MissionOk
  <1>2. g = [m EXCEPT !.imported = i, !.outcomes = q]
    BY DEF ApplyToMission
  <1>3. i \in [Agent -> [Key -> Told \cup {None}]] /\ HeardFrom(ob, a, i)
    <2>1. m.imported \in [Agent -> [Key -> Told \cup {None}]]
      BY <1>1 DEF MissionRecord
    <2> QED
      BY <1>1, <2>1, MergeOk
  <1>4. f.env.outcomes \in Seq(Outcome) /\ f.from \in Agent
    <2>1. ob[o].env \in Ledger
      BY DEF LetterOk, IsOf
    <2> QED
      BY <2>1 DEF Ledger, IsOf, ImportsAssumption, Agt
  <1>5. m.outcomes \in Seq(Outcome)
    BY <1>1 DEF MissionRecord
  <1>6. RowsMerged(q, m.outcomes, f.env.outcomes, f.from)
    BY <1>1, <1>4, <1>5, MergedRowsAre
  <1> HIDE DEF g, q, i
  <1>7. q \in Seq(Outcome) /\ RowsApart(q)
    BY <1>6 DEF RowsMerged
  <1>8. /\ g \in MissionRecord /\ g.status = m.status /\ g.participants = m.participants
        /\ g.learnings = m.learnings /\ g.imported = i /\ g.outcomes = q
    BY <1>1, <1>2, <1>3, <1>7 DEF MissionRecord
  <1>9. MissionOk(ob, a, g)
    BY <1>1, <1>3, <1>7, <1>8 DEF MissionOk
  <1> QED
    BY <1>6, <1>8, <1>9 DEF g, MissionMerged

-----------------------------------------------------------------------------
(* What is told of a record.                                               *)

TellsTruly(env, S) ==
  env \in S /\ \A k \in DOMAIN env.notes : Origin[env.notes[k].value] = env.notes[k].originally

LEMMA NotesAre ==
  ASSUME NEW n, NEW K \in SUBSET Key, n \in [{} -> Told] \/ n \in [K -> Told]
  PROVE  n \in Notes
  <1>1. \A L \in SUBSET Key : [L -> Told] \subseteq Notes
    BY DEF Notes
  <1>2. {} \in SUBSET Key
    OBVIOUS
  <1> QED
    BY <1>1, <1>2

LEMMA ProfileTold ==
  ASSUME ImportsAssumption, NEW ob, NEW a \in Agent, NEW f, FriendOk(ob, a, f), NEW scope
  PROVE  TellsTruly(ProfileEnvelope(f, scope, a), Profile)
  <1> DEFINE env == ProfileEnvelope(f, scope, a)
             told == BuildSharedNotes(f, scope, a)
             K == {k \in Key : f.notes[k] # None /\ (scope = "notes:all" \/ f.notes[k].shareable)}
  <1>1. f \in FriendRecord /\ TrueNotes(a, f.notes) /\ f.notes \in [Key -> Note \cup {None}] /\ f.ids \in SUBSET Id
    BY DEF FriendOk, FriendRecord
  <1>2. told = [k \in K |-> Share(f.notes[k], a)]
    BY DEF BuildSharedNotes
  <1>3. ASSUME NEW k \in K
        PROVE  Share(f.notes[k], a) \in Told /\ Origin[Share(f.notes[k], a).value] = Share(f.notes[k], a).originally
    <2> DEFINE n == f.notes[k]
    <2>1. n \in Note /\ Origin[n.value] = IF n.from = None THEN a ELSE n.from
      BY <1>1 DEF TrueNotes
    <2> HIDE DEF n
    <2>2. n.value \in Value /\ n.from \in Agent \cup {None}
      BY <2>1 DEF Note
    <2>3. OriginalAsserterOf(n, a) \in Agent /\ Origin[n.value] = OriginalAsserterOf(n, a)
      BY <2>1, <2>2 DEF OriginalAsserterOf
    <2>4. Share(n, a) = [value |-> n.value, originally |-> OriginalAsserterOf(n, a)]
      BY DEF Share
    <2>5. Share(n, a) \in Told /\ Origin[Share(n, a).value] = Share(n, a).originally
      BY <2>2, <2>3, <2>4 DEF Told
    <2> QED
      BY <2>5 DEF n
  <1>4. K \in SUBSET Key
    OBVIOUS
  <1> HIDE DEF K
  <1>5. told \in [K -> Told] /\ \A k \in K : Origin[told[k].value] = told[k].originally
    BY <1>2, <1>3
  <1>6. DOMAIN <<>> = {} /\ <<>> \in [{} -> Told]
    OBVIOUS
  <1> HIDE DEF told
  <1>7. env.notes = <<>> \/ env.notes = told
    BY DEF ProfileEnvelope, told
  <1>8. env = [ids |-> env.ids, notes |-> env.notes] /\ env.ids \in SUBSET Id
    BY <1>1 DEF ProfileEnvelope
  <1> HIDE DEF env
  <1>9. env.notes \in Notes
    <2>1. env.notes \in [{} -> Told] \/ env.notes \in [K -> Told]
      BY <1>5, <1>6, <1>7
    <2> QED
      BY <1>4, <2>1, NotesAre
  <1>10. env \in Profile
    BY <1>8, <1>9 DEF Profile
  <1>11. ASSUME NEW k \in DOMAIN env.notes PROVE Origin[env.notes[k].value] = env.notes[k].originally
    <2>1. env.notes = told /\ k \in K
      BY <1>5, <1>6, <1>7
    <2> QED
      BY <1>5, <2>1
  <1> QED
    BY <1>10, <1>11 DEF env, TellsTruly

LEMMA LedgerTold ==
  ASSUME ImportsAssumption, NEW ob, NEW a \in Agent, NEW m, MissionOk(ob, a, m), NEW scope
  PROVE  TellsTruly(MissionEnvelope(m, scope, a), Ledger)
  <1> DEFINE env == MissionEnvelope(m, scope, a)
             told == BuildSharedLearnings(m, a)
             K == {k \in Key : m.learnings[k] # None /\ m.learnings[k].shareable}
  <1>1. /\ m \in MissionRecord /\ TrueLearnings(a, m.learnings)
        /\ m.learnings \in [Key -> Learning \cup {None}] /\ m.outcomes \in Seq(Outcome)
    BY DEF MissionOk, MissionRecord
  <1>2. told = [k \in K |-> [value |-> m.learnings[k].value, originally |-> a]]
    BY DEF BuildSharedLearnings
  <1>3. ASSUME NEW k \in K
        PROVE  m.learnings[k].value \in Value /\ Origin[m.learnings[k].value] = a
    <2>1. m.learnings[k] \in Learning
      BY <1>1
    <2> QED
      BY <1>1, <2>1 DEF TrueLearnings, Learning
  <1>4. K \in SUBSET Key
    OBVIOUS
  <1> HIDE DEF K
  <1>5. told \in [K -> Told] /\ \A k \in K : Origin[told[k].value] = told[k].originally
    <2>1. \A k \in K : told[k] = [value |-> m.learnings[k].value, originally |-> a]
      BY <1>2
    <2>2. ASSUME NEW k \in K PROVE told[k] \in Told /\ Origin[told[k].value] = told[k].originally
      <3> DEFINE v == m.learnings[k].value
                 x == told[k]
      <3>1. v \in Value /\ Origin[v] = a /\ x = [value |-> v, originally |-> a]
        BY <1>3, <2>1
      <3> HIDE DEF v, x
      <3>2. x \in Told /\ Origin[x.value] = x.originally
        BY <3>1 DEF Told
      <3> QED
        BY <3>2 DEF x
    <2> QED
      BY <1>2, <2>2
  <1>6. DOMAIN <<>> = {} /\ <<>> \in [{} -> Told]
    OBVIOUS
  <1> HIDE DEF told
  <1>7. env.notes = <<>> \/ env.notes = told
    BY DEF MissionEnvelope, told
  <1>8. env = [outcomes |-> env.outcomes, notes |-> env.notes] /\ env.outcomes \in Seq(Outcome)
    BY <1>1 DEF MissionEnvelope
  <1> HIDE DEF env
  <1>9. env.notes \in Notes
    <2>1. env.notes \in [{} -> Told] \/ env.notes \in [K -> Told]
      BY <1>5, <1>6, <1>7
    <2> QED
      BY <1>4, <2>1, NotesAre
  <1>10. env \in Ledger
    BY <1>8, <1>9 DEF Ledger
  <1>11. ASSUME NEW k \in DOMAIN env.notes PROVE Origin[env.notes[k].value] = env.notes[k].originally
    <2>1. env.notes = told /\ k \in K
      BY <1>5, <1>6, <1>7
    <2> QED
      BY <1>5, <2>1
  <1> QED
    BY <1>10, <1>11 DEF env, TellsTruly

-----------------------------------------------------------------------------
(* The steps, one part of the state at a time.                             *)

\* A call goes on.
LEMMA GoOk ==
  ASSUME IInv, NEW o \in Op, NEW c \in CallState, CallOk(outbox, o, c), call[o].pc # "done",
         call' = [call EXCEPT ![o] = c], outbox' = outbox, now' = now
  PROVE  CallsOk' /\ LettersOk'
  <1>1. call \in [Op -> CallState] /\ \A p \in Op : CallOk(outbox, p, call[p])
    BY DEF IInv, CallsOk
  <1>2. call' \in [Op -> CallState] /\ call'[o] = c /\ \A p \in Op : p # o => call'[p] = call[p]
    BY <1>1
  <1>3. \A p \in Op : CallOk(outbox, p, call'[p])
    BY <1>1, <1>2
  <1>4. LettersOk'
    BY <1>2 DEF IInv, LettersOk
  <1> QED
    BY <1>2, <1>3, <1>4 DEF CallsOk

\* A host goes on.
LEMMA HostGoes ==
  ASSUME HostsOk, NEW a \in Agent, NEW h \in HostState, HostOk(outbox, a, h),
         host' = [host EXCEPT ![a] = h], outbox' = outbox
  PROVE  HostsOk'
  <1>1. host' \in [Agent -> HostState] /\ host'[a] = h /\ \A b \in Agent : b # a => host'[b] = host[b]
    BY DEF HostsOk
  <1> QED
    BY <1>1 DEF HostsOk

\* A friend record is put.
LEMMA PutKeeps ==
  ASSUME IInv, NEW a \in Agent, NEW r \in Rec, NEW was, NEW g, FriendOk(outbox, a, g),
         PutFriend(a, r, was, g), outbox' = outbox
  PROVE  FriendsOk' /\ raced' \subseteq Agent \X (Rec \cup Mis)
  <1>1. /\ friends \in [Agent -> [Rec -> FriendRecord \cup {None}]]
        /\ \A b \in Agent, q \in Rec : friends[b][q] # None => FriendOk(outbox, b, friends[b][q])
        /\ raced \subseteq Agent \X (Rec \cup Mis)
    BY DEF IInv, FriendsOk, OtherTypes
  <1>2. g \in FriendRecord /\ friends' = [friends EXCEPT ![a][r] = g]
    BY DEF FriendOk, PutFriend
  <1>3. friends' \in [Agent -> [Rec -> FriendRecord \cup {None}]]
    BY <1>1, <1>2
  <1>4. /\ friends'[a][r] = g
        /\ \A b \in Agent, q \in Rec : b # a \/ q # r => friends'[b][q] = friends[b][q]
    BY <1>1, <1>2
  <1>5. ASSUME NEW b \in Agent, NEW q \in Rec, friends'[b][q] # None PROVE FriendOk(outbox, b, friends'[b][q])
    <2>1. CASE b = a /\ q = r
      BY <1>4, <2>1
    <2>2. CASE b # a \/ q # r
      BY <1>1, <1>4, <1>5, <2>2
    <2> QED
      BY <2>1, <2>2
  <1>6. Overtaken(a, friends, r, was) \subseteq Agent \X (Rec \cup Mis)
    BY DEF Overtaken
  <1>7. raced' \subseteq Agent \X (Rec \cup Mis)
    BY <1>1, <1>6 DEF PutFriend
  <1>8. FriendsOk'
    BY <1>3, <1>5 DEF FriendsOk
  <1> QED
    BY <1>7, <1>8

\* A mission file is opened, and is torn.
LEMMA OpenKeeps ==
  ASSUME IInv, NEW a \in Agent, NEW r \in Mis, NEW was, OpenMission(a, r, was), outbox' = outbox
  PROVE  MissionsOk' /\ raced' \subseteq Agent \X (Rec \cup Mis)
  <1>1. /\ missions \in [Agent -> [Mis -> MissionRecord \cup {None, Torn}]]
        /\ \A b \in Agent, q \in Mis : missions[b][q] \notin {None, Torn} => MissionOk(outbox, b, missions[b][q])
        /\ raced \subseteq Agent \X (Rec \cup Mis)
    BY DEF IInv, MissionsOk, OtherTypes
  <1>2. missions' = [missions EXCEPT ![a][r] = Torn]
    BY DEF OpenMission
  <1>3. missions' \in [Agent -> [Mis -> MissionRecord \cup {None, Torn}]]
    BY <1>1, <1>2
  <1>4. /\ missions'[a][r] = Torn
        /\ \A b \in Agent, q \in Mis : b # a \/ q # r => missions'[b][q] = missions[b][q]
    BY <1>1, <1>2
  <1>5. ASSUME NEW b \in Agent, NEW q \in Mis, missions'[b][q] \notin {None, Torn}
        PROVE  MissionOk(outbox, b, missions'[b][q])
    <2>1. b # a \/ q # r
      BY <1>4, <1>5
    <2> QED
      BY <1>1, <1>4, <1>5, <2>1
  <1>6. Overtaken(a, missions, r, was) \subseteq Agent \X (Rec \cup Mis)
    BY DEF Overtaken
  <1>7. {<<a, m>> : m \in {m \in Mis : was = None /\ \E n \in Mis \ {r} : missions[a][n] # None}}
          \subseteq Agent \X (Rec \cup Mis)
    OBVIOUS
  <1>8. raced' \subseteq Agent \X (Rec \cup Mis)
    BY <1>1, <1>6, <1>7 DEF OpenMission
  <1>9. MissionsOk'
    BY <1>3, <1>5 DEF MissionsOk
  <1> QED
    BY <1>8, <1>9

\* A mission file is written.
LEMMA WriteKeeps ==
  ASSUME MissionsOk, NEW a \in Agent, NEW r \in Mis, NEW m, MissionOk(outbox, a, m),
         WriteMission(a, r, m), outbox' = outbox
  PROVE  MissionsOk'
  <1>1. /\ missions \in [Agent -> [Mis -> MissionRecord \cup {None, Torn}]]
        /\ \A b \in Agent, q \in Mis : missions[b][q] \notin {None, Torn} => MissionOk(outbox, b, missions[b][q])
    BY DEF MissionsOk
  <1>2. m \in MissionRecord /\ missions' = [missions EXCEPT ![a][r] = m]
    BY DEF MissionOk, WriteMission
  <1>3. missions' \in [Agent -> [Mis -> MissionRecord \cup {None, Torn}]]
    BY <1>1, <1>2
  <1>4. /\ missions'[a][r] = m
        /\ \A b \in Agent, q \in Mis : b # a \/ q # r => missions'[b][q] = missions[b][q]
    BY <1>1, <1>2
  <1>5. ASSUME NEW b \in Agent, NEW q \in Mis, missions'[b][q] \notin {None, Torn}
        PROVE  MissionOk(outbox, b, missions'[b][q])
    <2>1. CASE b = a /\ q = r
      BY <1>4, <2>1
    <2>2. CASE b # a \/ q # r
      BY <1>1, <1>4, <1>5, <2>2
    <2> QED
      BY <2>1, <2>2
  <1> QED
    BY <1>3, <1>5 DEF MissionsOk

-----------------------------------------------------------------------------
(* The calls.                                                              *)

LEMMA GetFriendOk ==
  ASSUME IInv, NEW o \in Op, NEW r \in Rec, GetFriend(o, r)
  PROVE  IInv'
  <1> DEFINE a == Agt(o)
  <1>1. a \in Agent
    BY ImportsAssumption DEF ImportsAssumption, Agt
  <1>2. friends[a][r] # None /\ friends[a][r] \in FriendRecord /\ FriendOk(outbox, a, friends[a][r])
    BY <1>1 DEF IInv, FriendsOk, GetFriend, Records
  <1>3. PICK c : c = [NoCall EXCEPT
          !.pc = IF Plan[o].kind = "note" /\ OverrideRequired(friends[a][r], Plan[o].key, Plan[o].override)
                 THEN "done" ELSE "read",
          !.at = r, !.was = friends[a][r]]
    OBVIOUS
  <1>4. /\ c.pc \in {"done", "read"} /\ c.at = r /\ c.was = friends[a][r] /\ c.ok = FALSE
        /\ c \in CallState
    BY <1>2, <1>3 DEF NoCall, CallState
  <1>5. Plan[o].kind \in AboutFriend /\ call[o].pc = "todo" /\ call' = [call EXCEPT ![o] = c]
    BY <1>3 DEF GetFriend, AboutFriend, Go
  <1>6. Plan[o].kind = "note" /\ Plan[o].from # None => c.was.imported[Plan[o].from][Plan[o].key] # None
    BY <1>4 DEF GetFriend, CanTell, Heard
  <1>7. CallOk(outbox, o, c)
    BY <1>2, <1>4, <1>5, <1>6 DEF CallOk, AboutFriend
  <1>8. UNCHANGED <<friends, missions, plan, outbox, host, seen, now, crashes, raced>>
    BY DEF GetFriend
  <1>9. CallsOk' /\ LettersOk'
    BY <1>4, <1>5, <1>7, <1>8, GoOk
  <1> QED
    BY <1>8, <1>9 DEF IInv, FriendsOk, MissionsOk, HostsOk, OtherTypes

\* A call that has read a friend record puts another for it.
LEMMA PutOk ==
  ASSUME IInv, NEW o \in Op, call[o].pc = "read", Plan[o].kind \in AboutFriend,
         NEW g, FriendOk(outbox, Agt(o), g), Put(o, g)
  PROVE  IInv'
  <1> DEFINE a == Agt(o)
             r == call[o].at
  <1>1. a \in Agent
    BY ImportsAssumption DEF ImportsAssumption, Agt
  <1>2. r \in Rec /\ call[o] \in CallState
    BY DEF IInv, CallsOk, CallOk
  <1>3. PICK c : c = [call[o] EXCEPT !.pc = "done", !.ok = TRUE, !.was = None]
    OBVIOUS
  <1>4. c \in CallState /\ c.pc = "done"
    BY <1>2, <1>3 DEF CallState
  <1>5. CallOk(outbox, o, c)
    BY <1>4 DEF CallOk
  <1>6. /\ PutFriend(a, r, call[o].was, g) /\ call' = [call EXCEPT ![o] = c]
        /\ UNCHANGED <<missions, plan, outbox, host, seen, now, crashes>>
    BY <1>3 DEF Put, Go
  <1>7. CallsOk' /\ LettersOk'
    BY <1>4, <1>5, <1>6, GoOk
  <1>8. PICK q, was : q = r /\ was = call[o].was
    OBVIOUS
  <1>9. FriendsOk' /\ raced' \subseteq Agent \X (Rec \cup Mis)
    <2>1. q \in Rec /\ PutFriend(a, q, was, g) /\ outbox' = outbox
      BY <1>2, <1>6, <1>8
    <2> QED
      BY <1>1, <2>1, PutKeeps
  <1> QED
    BY <1>6, <1>7, <1>9 DEF IInv, MissionsOk, HostsOk, OtherTypes

LEMMA SaveNoteOk ==
  ASSUME IInv, NEW o \in Op, SaveNote(o)
  PROVE  IInv'
  <1>1. call[o].pc = "read" /\ Plan[o].kind = "note"
    BY DEF SaveNote, Is
  <1>2. PICK f, g : f = call[o].was /\ g = ApplyFriendNote(f, Plan[o].key, Content(o, f), Source(o, f))
    OBVIOUS
  <1>3. FriendOk(outbox, Agt(o), f) /\ (Plan[o].from # None => f.imported[Plan[o].from][Plan[o].key] # None)
    BY <1>1, <1>2 DEF IInv, CallsOk, CallOk, AboutFriend
  <1>4. FriendOk(outbox, Agt(o), g)
    BY <1>1, <1>2, <1>3, NoteOk, ImportsAssumption
  <1>5. Put(o, g)
    BY <1>2 DEF SaveNote
  <1> QED
    BY <1>1, <1>4, <1>5, PutOk DEF AboutFriend

LEMMA RecordInteractionOk ==
  ASSUME IInv, NEW o \in Op, RecordInteraction(o)
  PROVE  IInv'
  <1>1. call[o].pc = "read" /\ Plan[o].kind = "outcome"
    BY DEF RecordInteraction, Is
  <1>2. PICK f, g : f = call[o].was /\ g = RecordOutcome(f, Plan[o].result, Plan[o].from # None, Plan[o].delta)
    OBVIOUS
  <1>3. FriendOk(outbox, Agt(o), f)
    BY <1>1, <1>2 DEF IInv, CallsOk, CallOk, AboutFriend
  <1>4. Plan[o].result \in Result /\ (Plan[o].from # None) \in BOOLEAN /\ Plan[o].delta \in Int
    BY ImportsAssumption DEF ImportsAssumption
  <1>5. FriendOk(outbox, Agt(o), g)
    BY <1>2, <1>3, <1>4, OutcomeOk, ImportsAssumption
  <1>6. Put(o, g)
    BY <1>2 DEF RecordInteraction
  <1> QED
    BY <1>1, <1>5, <1>6, PutOk DEF AboutFriend

LEMMA ChangeIdsOk ==
  ASSUME IInv, NEW o \in Op, ChangeIds(o)
  PROVE  IInv'
  <1>1. call[o].pc = "read" /\ Plan[o].kind = "ids"
    BY DEF ChangeIds, Is
  <1>2. PICK f, g : f = call[o].was /\ g = [f EXCEPT !.ids = Plan[o].ids]
    OBVIOUS
  <1>3. FriendOk(outbox, Agt(o), f)
    BY <1>1, <1>2 DEF IInv, CallsOk, CallOk, AboutFriend
  <1>4. Plan[o].ids \in SUBSET Id
    BY ImportsAssumption DEF ImportsAssumption
  <1>5. FriendOk(outbox, Agt(o), g)
    BY <1>2, <1>3, <1>4, IdsOk
  <1>6. Put(o, g)
    BY <1>2 DEF ChangeIds
  <1> QED
    BY <1>1, <1>5, <1>6, PutOk DEF AboutFriend

\* What is found of the mission is the record that is there, or room for one.
LEMMA FoundIs ==
  ASSUME MissionsOk, NEW a \in Agent, NEW f \in Found(a)
  PROVE  /\ f = <<f[1], f[2]>> /\ f[1] \in Mis /\ f[2] = missions[a][f[1]]
         /\ f[2] = None \/ (f[1] \in Missions(a) /\ f[2] \in MissionRecord /\ MissionOk(outbox, a, f[2]))
         /\ f[2] = None => Missions(a) = {}
  <1>1. CASE Missions(a) = {}
    <2> DEFINE free == {r \in Mis : missions[a][r] = None}
    <2>1. PICK r \in Fresh(free) : f = <<r, None>>
      BY <1>1 DEF Found
    <2>2. free # {} /\ r = CHOOSE q \in free : TRUE
      BY <2>1 DEF Fresh
    <2>3. r \in free
      BY <2>2
    <2> QED
      BY <1>1, <2>1, <2>3
  <1>2. CASE Missions(a) # {}
    <2>1. PICK r \in Missions(a) : f = <<r, missions[a][r]>>
      BY <1>2 DEF Found
    <2>2. r \in Mis /\ missions[a][r] \notin {None, Torn}
      BY <2>1 DEF Missions
    <2>3. MissionOk(outbox, a, missions[a][r]) /\ missions[a][r] \in MissionRecord
      BY <2>2 DEF MissionsOk
    <2> QED
      BY <2>1, <2>2, <2>3
  <1> QED
    BY <1>1, <1>2

LEMMA GetMissionOk ==
  ASSUME IInv, NEW o \in Op, GetMission(o)
  PROVE  IInv'
  <1>1. Agt(o) \in Agent
    BY ImportsAssumption DEF ImportsAssumption, Agt
  <1>2. PICK f \in Found(Agt(o)) :
          /\ Plan[o].kind = "record" \/ (Plan[o].kind = "share_mission" /\ f[2] # None)
          /\ Go(o, [NoCall EXCEPT !.pc = "read", !.at = f[1], !.was = f[2]])
    BY DEF GetMission
  <1>3. /\ f[1] \in Mis
        /\ f[2] = None \/ (f[2] \in MissionRecord /\ MissionOk(outbox, Agt(o), f[2]))
    BY <1>1, FoundIs DEF IInv
  <1>4. PICK c : c = [NoCall EXCEPT !.pc = "read", !.at = f[1], !.was = f[2]]
    OBVIOUS
  <1>5. c \in CallState /\ c.pc = "read" /\ c.at = f[1] /\ c.was = f[2] /\ c.ok = FALSE
    BY <1>3, <1>4 DEF NoCall, CallState
  <1>6. CallOk(outbox, o, c)
    BY <1>2, <1>3, <1>5 DEF CallOk, AboutFriend
  <1>7. /\ call[o].pc = "todo" /\ call' = [call EXCEPT ![o] = c]
        /\ UNCHANGED <<friends, missions, plan, outbox, host, seen, now, crashes, raced>>
    BY <1>2, <1>4 DEF GetMission, Go
  <1>8. CallsOk' /\ LettersOk'
    BY <1>5, <1>6, <1>7, GoOk
  <1> QED
    BY <1>7, <1>8 DEF IInv, FriendsOk, MissionsOk, HostsOk, OtherTypes

LEMMA OpenRecordedOk ==
  ASSUME IInv, NEW o \in Op, OpenRecorded(o)
  PROVE  IInv'
  <1> DEFINE a == Agt(o)
  <1>1. a \in Agent /\ now \in Nat
    BY ImportsAssumption DEF ImportsAssumption, Agt, IInv, OtherTypes
  <1>2. /\ call[o].pc = "read" /\ Plan[o].kind = "record" /\ OpenMission(a, call[o].at, call[o].was)
        /\ call' = [call EXCEPT ![o] = [call[o] EXCEPT !.pc = "open", !.was = Recorded(o)]]
        /\ UNCHANGED <<friends, plan, outbox, host, seen, now, crashes>>
    BY DEF OpenRecorded, Is, Go
  <1>3. PICK r, was, m, g : /\ r = call[o].at /\ was = call[o].was
                            /\ m = (IF was = None THEN NewMission ELSE was) /\ g = Recorded(o)
    OBVIOUS
  <1>4. r \in Mis /\ call[o] \in CallState /\ MissionOk(outbox, a, m)
    BY <1>2, <1>3, NewMissionOk DEF IInv, CallsOk, CallOk
  <1>5. MissionOk(outbox, a, g) /\ g \in MissionRecord
    <2>1. g = RecordMission(m, [status |-> Plan[o].status, participants |-> {Plan[o].to}, key |-> Plan[o].key,
                                value |-> Plan[o].value, shareable |-> Plan[o].shareable], now)
      BY <1>3 DEF Recorded
    <2>2. MissionOk(outbox, a, g)
      BY <1>1, <1>2, <1>4, <2>1, RecordedOk, ImportsAssumption
    <2> QED
      BY <2>2 DEF MissionOk
  <1>6. PICK c : c = [call[o] EXCEPT !.pc = "open", !.was = g]
    OBVIOUS
  <1>7. c \in CallState /\ c.pc = "open" /\ c.at = r /\ c.was = g /\ c.ok = call[o].ok
    BY <1>3, <1>4, <1>5, <1>6 DEF CallState
  <1>8. ~ call[o].ok
    BY <1>2 DEF IInv, CallsOk, CallOk
  <1>9. CallOk(outbox, o, c)
    BY <1>2, <1>4, <1>5, <1>7, <1>8 DEF CallOk
  <1>10. call' = [call EXCEPT ![o] = c]
    BY <1>2, <1>3, <1>6
  <1>11. CallsOk' /\ LettersOk'
    BY <1>2, <1>7, <1>9, <1>10, GoOk
  <1>12. MissionsOk' /\ raced' \subseteq Agent \X (Rec \cup Mis)
    BY <1>1, <1>2, <1>3, <1>4, OpenKeeps
  <1> QED
    BY <1>2, <1>11, <1>12 DEF IInv, FriendsOk, HostsOk, OtherTypes

LEMMA WriteRecordedOk ==
  ASSUME IInv, NEW o \in Op, WriteRecorded(o)
  PROVE  IInv'
  <1> DEFINE a == Agt(o)
  <1>1. a \in Agent
    BY ImportsAssumption DEF ImportsAssumption, Agt
  <1>2. /\ call[o].pc = "open" /\ WriteMission(a, call[o].at, call[o].was)
        /\ call' = [call EXCEPT ![o] = [call[o] EXCEPT !.pc = "done", !.ok = TRUE, !.was = None]]
        /\ UNCHANGED <<friends, plan, outbox, host, seen, now, crashes, raced>>
    BY DEF WriteRecorded, Is, Go
  <1>3. PICK r, m, c : r = call[o].at /\ m = call[o].was /\ c = [call[o] EXCEPT !.pc = "done", !.ok = TRUE, !.was = None]
    OBVIOUS
  <1>4. r \in Mis /\ MissionOk(outbox, a, m) /\ call[o] \in CallState
    BY <1>2, <1>3 DEF IInv, CallsOk, CallOk
  <1>5. c \in CallState /\ c.pc = "done"
    BY <1>3, <1>4 DEF CallState
  <1>6. CallOk(outbox, o, c)
    BY <1>5 DEF CallOk
  <1>7. CallsOk' /\ LettersOk'
    BY <1>2, <1>3, <1>5, <1>6, GoOk
  <1>8. MissionsOk'
    BY <1>1, <1>2, <1>3, <1>4, WriteKeeps DEF IInv
  <1> QED
    BY <1>2, <1>7, <1>8 DEF IInv, FriendsOk, HostsOk, OtherTypes

\* What is sent is true, and is added to what there was.
LEMMA SendOk ==
  ASSUME IInv, NEW o \in Op, Send(o)
  PROVE  /\ IInv' /\ More(outbox, outbox') /\ outbox[o] = None
         /\ outbox'[o].at = now /\ \A p \in Op : p # o => outbox'[p] = outbox[p]
  <1> DEFINE a == Agt(o)
             kind == Plan[o].kind
  <1>1. /\ a \in Agent /\ Plan[o].to \in Agent /\ Plan[o].rank \in Nat
        /\ now \in Nat
    BY ImportsAssumption DEF ImportsAssumption, Agt, IInv, OtherTypes
  <1>2. /\ call[o].pc = "read" /\ kind \in Sharing
        /\ outbox' = [outbox EXCEPT ![o] = BuildOutgoing(o, Plan[o].rank, a, Plan[o].to, now, kind, Envelope(o))]
        /\ call' = [call EXCEPT ![o] = [call[o] EXCEPT !.pc = "done", !.ok = TRUE, !.was = None]]
        /\ UNCHANGED <<friends, missions, plan, host, seen, now, crashes, raced>>
    BY DEF Send, Is, Go, Sharing
  <1>3. PICK env, f : env = Envelope(o) /\ f = BuildOutgoing(o, Plan[o].rank, a, Plan[o].to, now, kind, env)
    OBVIOUS
  <1>4. PICK was : was = call[o].was
    OBVIOUS
  <1>5. /\ env \in IF kind = "share_profile" THEN Profile ELSE Ledger
        /\ \A k \in DOMAIN env.notes : Origin[env.notes[k].value] = env.notes[k].originally
    <2>1. CASE kind = "share_profile"
      <3>1. FriendOk(outbox, a, was)
        BY <1>2, <1>4, <2>1 DEF IInv, CallsOk, CallOk, AboutFriend
      <3>2. env = ProfileEnvelope(was, Plan[o].scope, a)
        BY <1>3, <1>4, <2>1 DEF Envelope
      <3>3. PICK scope : scope = Plan[o].scope
        OBVIOUS
      <3> DEFINE e == ProfileEnvelope(was, scope, a)
      <3>4. TellsTruly(e, Profile)
        BY <1>1, <3>1, ProfileTold, ImportsAssumption
      <3>5. e = env
        BY <3>2, <3>3
      <3> HIDE DEF e
      <3> QED
        BY <2>1, <3>4, <3>5 DEF TellsTruly
    <2>2. CASE kind # "share_profile"
      <3>1. MissionOk(outbox, a, was)
        BY <1>2, <1>4, <2>2 DEF IInv, CallsOk, CallOk, Sharing
      <3>2. env = MissionEnvelope(was, Plan[o].scope, a)
        BY <1>3, <1>4, <2>2 DEF Envelope
      <3>3. PICK scope : scope = Plan[o].scope
        OBVIOUS
      <3> DEFINE e == MissionEnvelope(was, scope, a)
      <3>4. TellsTruly(e, Ledger)
        BY <1>1, <3>1, LedgerTold, ImportsAssumption
      <3>5. e = env
        BY <3>2, <3>3
      <3> HIDE DEF e
      <3> QED
        BY <2>2, <3>4, <3>5 DEF TellsTruly
    <2> QED
      BY <2>1, <2>2
  <1>6. /\ f.from = a /\ f.to = Plan[o].to /\ f.at = now /\ f.kind = kind /\ f.env = env /\ f.id = o
        /\ f = [path |-> [from |-> a, to |-> Plan[o].to], parses |-> TRUE, version |-> Supported, copy |-> FALSE,
                id |-> o, rank |-> Plan[o].rank, from |-> a, to |-> Plan[o].to, at |-> now, kind |-> kind, env |-> env]
    BY <1>3 DEF BuildOutgoing
  <1>7. f \in File
    <2>1. env \in Profile \cup Ledger /\ [from |-> a, to |-> Plan[o].to] \in [from : Agent, to : Agent]
      BY <1>1, <1>5
    <2> QED
      BY <1>1, <1>2, <1>6, <2>1 DEF File
  <1>8. LetterOk(now, o, f)
    BY <1>1, <1>3, <1>5, <1>6, <1>7 DEF LetterOk
  <1>9. outbox[o] = None
    BY <1>2 DEF IInv, LettersOk
  <1>10. /\ outbox' \in [Op -> File \cup {None}] /\ outbox'[o] = f
         /\ \A p \in Op : p # o => outbox'[p] = outbox[p]
    BY <1>2, <1>3, <1>7 DEF IInv, LettersOk
  <1>11. More(outbox, outbox')
    BY <1>9, <1>10 DEF More
  <1>12. PICK ob, pb : ob = outbox /\ pb = outbox'
    OBVIOUS
  <1>13. /\ \A b, g : FriendOk(ob, b, g) => FriendOk(pb, b, g)
         /\ \A b, m : MissionOk(ob, b, m) => MissionOk(pb, b, m)
         /\ MessageIn(ob) \subseteq MessageIn(pb)
    BY <1>11, <1>12, FriendStays, MissionStays, MessageStays
  <1>14. FriendsOk'
    BY <1>2, <1>12, <1>13 DEF IInv, FriendsOk
  <1>15. MissionsOk'
    BY <1>2, <1>12, <1>13 DEF IInv, MissionsOk
  <1>16. PICK c : c = [call[o] EXCEPT !.pc = "done", !.ok = TRUE, !.was = None]
    OBVIOUS
  <1>17. /\ call \in [Op -> CallState] /\ \A p \in Op : CallOk(ob, p, call[p])
         /\ call' = [call EXCEPT ![o] = c] /\ c \in CallState /\ c.pc = "done"
    BY <1>2, <1>12, <1>16 DEF IInv, CallsOk, CallState
  <1>18. /\ call' \in [Op -> CallState] /\ call'[o] = c
         /\ \A p \in Op : p # o => call'[p] = call[p]
    BY <1>17
  <1>19. CallsOk'
    <2>1. \A p \in Op : CallOk(pb, p, call[p])
      BY <1>13, <1>17 DEF CallOk
    <2>2. CallOk(pb, o, c)
      BY <1>17 DEF CallOk
    <2>3. \A p \in Op : CallOk(pb, p, call'[p])
      BY <1>18, <2>1, <2>2
    <2> QED
      BY <1>12, <1>18, <2>3 DEF CallsOk
  <1>20. LettersOk'
    BY <1>2, <1>8, <1>10, <1>17, <1>18 DEF IInv, LettersOk
  <1>21. HostsOk'
    <2>1. \A b \in Agent : HostOk(ob, b, host[b])
      BY <1>12 DEF IInv, HostsOk
    <2>2. \A b \in Agent : HostOk(pb, b, host[b])
      BY <1>13, <2>1 DEF HostOk
    <2> QED
      BY <1>2, <1>12, <2>2 DEF IInv, HostsOk
  <1> QED
    BY <1>2, <1>6, <1>9, <1>10, <1>11, <1>14, <1>15, <1>19, <1>20, <1>21 DEF IInv, OtherTypes

-----------------------------------------------------------------------------
(* The host.                                                               *)

LEMMA LettersAre ==
  ASSUME LettersOk
  PROVE  LettersIn(outbox, now)
  BY DEF LettersOk, LettersIn

\* A file that is ready is a message as it was written, or a copy of one.
LEMMA ReadyIs ==
  ASSUME LettersOk, NEW a \in Agent, NEW f \in ReadIncoming(Files, a, seen[a])
  PROVE  f \in MessageIn(outbox) /\ f.to = a /\ f.id \notin seen[a]
  <1>1. f \in Files /\ f.parses /\ f.version = Supported /\ f.path = [from |-> f.from, to |-> f.to]
        /\ f.to = a /\ f.id \notin seen[a]
    BY DEF ReadIncoming, Ready, PathBound, IsSeen
  <1>2. CASE \E o \in Op : outbox[o] # None /\ f = outbox[o]
    BY <1>1, <1>2 DEF MessageIn
  <1>3. ASSUME NEW s \in Stray, outbox[s.of] # None, f = Altered(s) PROVE f \in MessageIn(outbox)
    <2>1. s.of \in Op /\ s.as \in {"copy", "spoof", "misrouted", "broken", "future"}
      BY ImportsAssumption DEF ImportsAssumption
    <2>2. PICK g : g = outbox[s.of]
      OBVIOUS
    <2>3. LetterOk(now, s.of, g)
      BY <1>3, <2>1, <2>2 DEF LettersOk
    <2>4. g \in File /\ g.path = [from |-> g.from, to |-> g.to]
      BY <2>3 DEF LetterOk, BuildOutgoing
    <2>5. CASE s.as = "copy"
      <3>1. f = [g EXCEPT !.copy = TRUE]
        BY <1>3, <2>2, <2>5 DEF Altered
      <3> QED
        BY <1>3, <2>1, <2>2, <3>1, CopyIs
    <2>6. CASE s.as = "spoof"
      <3>1. f = [g EXCEPT !.from = s.by]
        BY <1>3, <2>2, <2>6 DEF Altered
      <3>2. f.path = g.path /\ f.from = s.by /\ f.to = g.to
        BY <2>4, <3>1 DEF File
      <3>3. s.by = g.from
        BY <1>1, <2>4, <3>2
      <3>4. f = g
        BY <2>4, <3>1, <3>3 DEF File
      <3> QED
        BY <1>3, <2>1, <2>2, <3>4 DEF MessageIn
    <2>7. CASE s.as = "misrouted"
      <3>1. f = [g EXCEPT !.to = s.by]
        BY <1>3, <2>2, <2>7 DEF Altered
      <3>2. f.path = g.path /\ f.to = s.by /\ f.from = g.from
        BY <2>4, <3>1 DEF File
      <3>3. s.by = g.to
        BY <1>1, <2>4, <3>2
      <3>4. f = g
        BY <2>4, <3>1, <3>3 DEF File
      <3> QED
        BY <1>3, <2>1, <2>2, <3>4 DEF MessageIn
    <2>8. CASE s.as = "broken"
      <3>1. f = [g EXCEPT !.parses = FALSE]
        BY <1>3, <2>2, <2>8 DEF Altered
      <3>2. f.parses = FALSE
        BY <2>4, <3>1 DEF File
      <3> QED
        BY <1>1, <3>2
    <2>9. CASE s.as = "future"
      <3>1. f = [g EXCEPT !.version = Supported + 1]
        BY <1>3, <2>2, <2>9 DEF Altered
      <3>2. f.version = Supported + 1
        BY <2>4, <3>1 DEF File
      <3> QED
        BY <1>1, <3>2 DEF Supported
    <2> QED
      BY <2>1, <2>5, <2>6, <2>7, <2>8, <2>9
  <1>4. \/ \E o \in Op : outbox[o] # None /\ f = outbox[o]
        \/ \E s \in Stray : outbox[s.of] # None /\ f = Altered(s)
    BY <1>1 DEF Files
  <1> QED
    BY <1>1, <1>2, <1>3, <1>4

LEMMA PollOk ==
  ASSUME IInv, NEW a \in Agent, Poll(a)
  PROVE  IInv'
  <1>1. PICK ready : ready = ReadIncoming(Files, a, seen[a])
    OBVIOUS
  <1>2. PICK h : h = [batch |-> ready, import |-> NoImport]
    OBVIOUS
  <1>3. /\ host' = [host EXCEPT ![a] = h]
        /\ UNCHANGED <<friends, missions, plan, call, outbox, seen, now, crashes, raced>>
    BY <1>1, <1>2 DEF Poll, Hosts
  <1>4. \A f \in ready : f \in MessageIn(outbox) /\ f.to = a
    BY <1>1, ReadyIs DEF IInv
  <1>5. \A f \in ready : f \in File
    <2>1. PICK ob, t : ob = outbox /\ t = now
      OBVIOUS
    <2>2. LettersIn(ob, t)
      BY <2>1, LettersAre DEF IInv
    <2> QED
      BY <1>4, <2>1, <2>2, MessageIs
  <1>6. h \in HostState
    <2>1. NoImport \in ImportState
      BY DEF NoImport, ImportState
    <2> QED
      BY <1>2, <1>5, <2>1 DEF HostState
  <1>7. HostOk(outbox, a, h)
    BY <1>2, <1>4 DEF HostOk, NoImport
  <1>8. HostsOk'
    BY <1>3, <1>6, <1>7, HostGoes DEF IInv
  <1> QED
    BY <1>3, <1>8 DEF IInv, FriendsOk, MissionsOk, CallsOk, LettersOk, OtherTypes

\* A message in the batch of a host is one that was written to its agent.
LEMMA InBatch ==
  ASSUME IInv, NEW a \in Agent, NEW f \in host[a].batch
  PROVE  /\ f \in File /\ f.to = a
         /\ \E o \in Op : IsOf(outbox, f, o) /\ LetterOk(now, o, outbox[o])
  <1>1. f \in MessageIn(outbox) /\ f.to = a
    BY DEF IInv, HostsOk, HostOk
  <1>2. PICK ob, t : ob = outbox /\ t = now
    OBVIOUS
  <1>3. LettersIn(ob, t)
    BY <1>2, LettersAre DEF IInv
  <1>4. f \in File /\ \E o \in Op : IsOf(ob, f, o) /\ LetterOk(t, o, ob[o])
    BY <1>1, <1>2, <1>3, MessageIs
  <1> QED
    BY <1>1, <1>2, <1>4

\* Where an import lands is a record of the agent's, or room for one.
LEMMA TargetsAre ==
  ASSUME IInv, NEW a \in Agent, NEW f, NEW t \in Targets(a, f)
  PROVE  /\ f.kind = "share_profile" =>
              /\ t[1] \in Rec /\ t[2] = friends[a][t[1]]
              /\ t[2] = None \/ (t[2] \in FriendRecord /\ FriendOk(outbox, a, t[2]))
              /\ t[2] = None <=> ResolveSubject(Held(a), f.env.ids, f.from) = {}
         /\ f.kind # "share_profile" =>
              /\ t[1] \in Mis /\ t[2] = missions[a][t[1]]
              /\ t[2] = None \/ (t[2] \in MissionRecord /\ MissionOk(outbox, a, t[2]))
  <1>1. CASE f.kind = "share_profile"
    <2> DEFINE found == ResolveSubject(Held(a), f.env.ids, f.from)
               free == Rec \ Records(a)
    <2>1. t \in FriendTargets(a, f)
      BY <1>1 DEF Targets
    <2>2. CASE found # {}
      <3>1. PICK r \in found : t = <<r, friends[a][r]>>
        BY <2>1, <2>2 DEF FriendTargets
      <3>2. r \in Records(a)
        BY <3>1 DEF ResolveSubject, Held
      <3>3. r \in Rec /\ friends[a][r] # None
        BY <3>2 DEF Records
      <3>4. FriendOk(outbox, a, friends[a][r]) /\ friends[a][r] \in FriendRecord
        BY <3>3 DEF IInv, FriendsOk
      <3> QED
        BY <1>1, <2>2, <3>1, <3>3, <3>4
    <2>3. CASE found = {}
      <3>1. PICK r \in Fresh(free) : t = <<r, None>>
        BY <2>1, <2>3 DEF FriendTargets
      <3>2. free # {} /\ r = CHOOSE q \in free : TRUE
        BY <3>1 DEF Fresh
      <3>3. r \in free
        BY <3>2
      <3>4. r \in Rec /\ friends[a][r] = None
        BY <3>3 DEF Records
      <3> QED
        BY <1>1, <2>3, <3>1, <3>4
    <2> QED
      BY <2>2, <2>3
  <1>2. CASE f.kind # "share_profile"
    <2>1. t \in Found(a)
      BY <1>2 DEF Targets, MissionTargets
    <2>2. /\ t[1] \in Mis /\ t[2] = missions[a][t[1]]
          /\ t[2] = None \/ (t[2] \in MissionRecord /\ MissionOk(outbox, a, t[2]))
      BY <2>1, FoundIs DEF IInv
    <2> QED
      BY <1>2, <2>2
  <1> QED
    BY <1>1, <1>2

LEMMA StartImportOk ==
  ASSUME IInv, NEW a \in Agent, StartImport(a)
  PROVE  IInv'
  <1>1. PICK f \in First(host[a].batch) :
          \/ Hosts(a, [host[a] EXCEPT !.import = [NoImport EXCEPT !.pc = "imported", !.file = f]])
          \/ \E t \in Targets(a, f) :
               Hosts(a, [host[a] EXCEPT !.import = [pc |-> "read", at |-> t[1], was |-> t[2], file |-> f]])
    BY DEF StartImport
  <1>2. f \in host[a].batch
    BY <1>1 DEF First
  <1>3. f \in File
    BY <1>2, InBatch
  <1>4. host[a] \in HostState /\ HostOk(outbox, a, host[a])
    BY DEF IInv, HostsOk
  <1>5. UNCHANGED <<friends, missions, plan, call, outbox, seen, now, crashes, raced>>
    BY DEF StartImport
  <1>6. ASSUME NEW i \in ImportState, i.file = f, host' = [host EXCEPT ![a] = [host[a] EXCEPT !.import = i]],
               i.pc = "read" /\ f.kind = "share_profile" => i.at \in Rec /\ (i.was # None => FriendOk(outbox, a, i.was)),
               i.pc = "read" /\ f.kind = "share_mission" => i.at \in Mis /\ (i.was # None => MissionOk(outbox, a, i.was)),
               i.pc # "open"
        PROVE  IInv'
    <2>1. PICK h : h = [host[a] EXCEPT !.import = i]
      OBVIOUS
    <2>2. h \in HostState /\ h.batch = host[a].batch /\ h.import = i
      BY <1>4, <1>6, <2>1 DEF HostState
    <2>3. HostOk(outbox, a, h)
      BY <1>2, <1>4, <1>6, <2>2 DEF HostOk
    <2>4. HostsOk'
      BY <1>5, <1>6, <2>1, <2>2, <2>3, HostGoes DEF IInv
    <2> QED
      BY <1>5, <2>4 DEF IInv, FriendsOk, MissionsOk, CallsOk, LettersOk, OtherTypes
  <1>7. CASE Hosts(a, [host[a] EXCEPT !.import = [NoImport EXCEPT !.pc = "imported", !.file = f]])
    <2>1. PICK i : i = [NoImport EXCEPT !.pc = "imported", !.file = f]
      OBVIOUS
    <2>2. i \in ImportState /\ i.pc = "imported" /\ i.file = f
      BY <1>3, <2>1 DEF ImportState, NoImport
    <2>3. host' = [host EXCEPT ![a] = [host[a] EXCEPT !.import = i]]
      BY <1>7, <2>1 DEF Hosts
    <2> QED
      BY <1>6, <2>2, <2>3
  <1>8. ASSUME NEW t \in Targets(a, f),
               Hosts(a, [host[a] EXCEPT !.import = [pc |-> "read", at |-> t[1], was |-> t[2], file |-> f]])
        PROVE  IInv'
    <2>1. PICK i : i = [pc |-> "read", at |-> t[1], was |-> t[2], file |-> f]
      OBVIOUS
    <2>2. i.pc = "read" /\ i.file = f /\ i.at = t[1] /\ i.was = t[2]
      BY <2>1
    <2>3. /\ f.kind = "share_profile" =>
               t[1] \in Rec /\ (t[2] = None \/ (t[2] \in FriendRecord /\ FriendOk(outbox, a, t[2])))
          /\ f.kind # "share_profile" =>
               t[1] \in Mis /\ (t[2] = None \/ (t[2] \in MissionRecord /\ MissionOk(outbox, a, t[2])))
      BY TargetsAre
    <2>4. i \in ImportState
      BY <1>3, <2>1, <2>3 DEF ImportState
    <2>5. host' = [host EXCEPT ![a] = [host[a] EXCEPT !.import = i]]
      BY <1>8, <2>1 DEF Hosts
    <2> QED
      BY <1>6, <2>2, <2>3, <2>4, <2>5
  <1> QED
    BY <1>1, <1>7, <1>8

\* The import under way of a host that has read a record: its message, and the record.
LEMMA ImportIs ==
  ASSUME IInv, NEW a \in Agent, host[a].import.pc \in {"read", "open", "imported"}
  PROVE  /\ host[a] \in HostState /\ host[a].import \in ImportState
         /\ host[a].import.file \in host[a].batch /\ HostOk(outbox, a, host[a])
  BY DEF IInv, HostsOk, HostOk, HostState

\* An import goes on, with the same message.
LEMMA ImportGoes ==
  ASSUME IInv, NEW a \in Agent, host[a].import.pc # "idle",
         NEW i \in ImportState, i.file = host[a].import.file, i.pc \in {"open", "imported"},
         i.pc = "open" => i.file.kind = "share_mission" /\ i.at \in Mis /\ MissionOk(outbox, a, i.was),
         Hosts(a, [host[a] EXCEPT !.import = i]), outbox' = outbox
  PROVE  HostsOk'
  <1>1. host[a] \in HostState /\ HostOk(outbox, a, host[a])
    BY DEF IInv, HostsOk
  <1>2. PICK h : h = [host[a] EXCEPT !.import = i]
    OBVIOUS
  <1>3. h \in HostState /\ h.batch = host[a].batch /\ h.import = i
    BY <1>1, <1>2 DEF HostState
  <1>4. HostOk(outbox, a, h)
    BY <1>1, <1>3 DEF HostOk
  <1>5. host' = [host EXCEPT ![a] = h]
    BY <1>2 DEF Hosts
  <1> QED
    BY <1>3, <1>4, <1>5, HostGoes DEF IInv

\* The record that an import of a profile puts.
Landing(i) == ApplyToRecord(IF i.was = None THEN SeedRecord(i.file.env, i.file.from) ELSE i.was, i.file.env, i.file.from)

LEMMA LandingOk ==
  ASSUME IInv, NEW a \in Agent, NEW i, i = host[a].import, i.pc = "read", i.file.kind = "share_profile"
  PROVE  i.at \in Rec /\ FriendOk(outbox, a, Landing(i))
  <1>1. PICK f : f = i.file
    OBVIOUS
  <1>2. f \in host[a].batch /\ f.kind = "share_profile" /\ i.at \in Rec /\ (i.was # None => FriendOk(outbox, a, i.was))
    BY <1>1 DEF IInv, HostsOk, HostOk
  <1>3. PICK o \in Op : f.to = a /\ IsOf(outbox, f, o) /\ LetterOk(now, o, outbox[o])
    BY <1>2, InBatch
  <1>4. PICK ob, t : ob = outbox /\ t = now
    OBVIOUS
  <1>5. PICK r : r = IF i.was = None THEN SeedRecord(f.env, f.from) ELSE i.was
    OBVIOUS
  <1>6. FriendOk(ob, a, SeedRecord(f.env, f.from))
    BY <1>2, <1>3, <1>4, SeedOk, ImportsAssumption
  <1>7. FriendOk(ob, a, r)
    BY <1>2, <1>4, <1>5, <1>6
  <1>8. FriendOk(ob, a, ApplyToRecord(r, f.env, f.from))
    BY <1>2, <1>3, <1>4, <1>7, AppliedOk, ImportsAssumption
  <1> QED
    BY <1>1, <1>2, <1>4, <1>5, <1>8 DEF Landing

LEMMA ImportProfileOk ==
  ASSUME IInv, NEW a \in Agent, ImportProfile(a)
  PROVE  IInv'
  <1>1. PICK i, g : i = host[a].import /\ g = Landing(i)
    OBVIOUS
  <1>2. /\ i.pc = "read" /\ i.file.kind = "share_profile" /\ PutFriend(a, i.at, i.was, g)
        /\ Hosts(a, [host[a] EXCEPT !.import = [i EXCEPT !.pc = "imported", !.was = None]])
        /\ UNCHANGED <<missions, plan, call, outbox, seen, now, crashes>>
    BY <1>1 DEF ImportProfile, Landing
  <1>3. i.at \in Rec /\ FriendOk(outbox, a, g)
    BY <1>1, <1>2, LandingOk
  <1>4. FriendsOk' /\ raced' \subseteq Agent \X (Rec \cup Mis)
    BY <1>2, <1>3, PutKeeps
  <1>5. PICK j : j = [i EXCEPT !.pc = "imported", !.was = None]
    OBVIOUS
  <1>6. i \in ImportState
    BY <1>1, <1>2, ImportIs
  <1>7. j \in ImportState /\ j.pc = "imported" /\ j.file = i.file
    BY <1>5, <1>6 DEF ImportState
  <1>8. HostsOk'
    BY <1>1, <1>2, <1>5, <1>7, ImportGoes
  <1> QED
    BY <1>2, <1>4, <1>8 DEF IInv, MissionsOk, CallsOk, LettersOk, OtherTypes

\* The mission that an import writes.
MissionLanding(i) == ApplyToMission(IF i.was = None THEN NewMission ELSE i.was, i.file.env, i.file.from)

LEMMA MissionLandingOk ==
  ASSUME IInv, NEW a \in Agent, NEW i, i = host[a].import, i.pc = "read", i.file.kind = "share_mission"
  PROVE  i.at \in Mis /\ MissionOk(outbox, a, MissionLanding(i))
  <1>1. PICK f : f = i.file
    OBVIOUS
  <1>2. f \in host[a].batch /\ f.kind = "share_mission" /\ i.at \in Mis /\ (i.was # None => MissionOk(outbox, a, i.was))
    BY <1>1 DEF IInv, HostsOk, HostOk
  <1>3. PICK o \in Op : f.to = a /\ IsOf(outbox, f, o) /\ LetterOk(now, o, outbox[o])
    BY <1>2, InBatch
  <1>4. PICK ob, t : ob = outbox /\ t = now
    OBVIOUS
  <1>5. PICK r : r = IF i.was = None THEN NewMission ELSE i.was
    OBVIOUS
  <1>6. MissionOk(ob, a, r)
    BY <1>2, <1>4, <1>5, NewMissionOk
  <1>7. MissionOk(ob, a, ApplyToMission(r, f.env, f.from))
    BY <1>2, <1>3, <1>4, <1>6, MissionAppliedOk, ImportsAssumption
  <1> QED
    BY <1>1, <1>2, <1>4, <1>5, <1>7 DEF MissionLanding

LEMMA OpenImportedOk ==
  ASSUME IInv, NEW a \in Agent, OpenImported(a)
  PROVE  IInv'
  <1>1. PICK i, g, r, was : i = host[a].import /\ g = MissionLanding(i) /\ r = i.at /\ was = i.was
    OBVIOUS
  <1>2. /\ i.pc = "read" /\ i.file.kind = "share_mission" /\ OpenMission(a, r, was)
        /\ Hosts(a, [host[a] EXCEPT !.import = [i EXCEPT !.pc = "open", !.was = g]])
        /\ UNCHANGED <<friends, plan, call, outbox, seen, now, crashes>>
    BY <1>1 DEF OpenImported, MissionLanding
  <1>3. r \in Mis /\ MissionOk(outbox, a, g)
    BY <1>1, <1>2, MissionLandingOk
  <1>4. MissionsOk' /\ raced' \subseteq Agent \X (Rec \cup Mis)
    BY <1>2, <1>3, OpenKeeps
  <1>5. PICK j : j = [i EXCEPT !.pc = "open", !.was = g]
    OBVIOUS
  <1>6. i \in ImportState /\ g \in MissionRecord
    BY <1>1, <1>2, <1>3, ImportIs DEF MissionOk
  <1>7. j \in ImportState /\ j.pc = "open" /\ j.file = i.file /\ j.at = r /\ j.was = g
    BY <1>1, <1>5, <1>6 DEF ImportState
  <1>8. HostsOk'
    BY <1>1, <1>2, <1>3, <1>5, <1>7, ImportGoes
  <1> QED
    BY <1>2, <1>4, <1>8 DEF IInv, FriendsOk, CallsOk, LettersOk, OtherTypes

LEMMA WriteImportedOk ==
  ASSUME IInv, NEW a \in Agent, WriteImported(a)
  PROVE  IInv'
  <1>1. PICK i, r, m : i = host[a].import /\ r = i.at /\ m = i.was
    OBVIOUS
  <1>2. /\ i.pc = "open" /\ WriteMission(a, r, m)
        /\ Hosts(a, [host[a] EXCEPT !.import = [i EXCEPT !.pc = "imported", !.was = None]])
        /\ UNCHANGED <<friends, plan, call, outbox, seen, now, crashes, raced>>
    BY <1>1 DEF WriteImported
  <1>3. r \in Mis /\ MissionOk(outbox, a, m) /\ i \in ImportState
    BY <1>1, <1>2, ImportIs DEF HostOk
  <1>4. MissionsOk'
    BY <1>2, <1>3, WriteKeeps DEF IInv
  <1>5. PICK j : j = [i EXCEPT !.pc = "imported", !.was = None]
    OBVIOUS
  <1>6. j \in ImportState /\ j.pc = "imported" /\ j.file = i.file
    BY <1>3, <1>5 DEF ImportState
  <1>7. HostsOk'
    BY <1>1, <1>2, <1>5, <1>6, ImportGoes
  <1> QED
    BY <1>2, <1>4, <1>7 DEF IInv, FriendsOk, CallsOk, LettersOk, OtherTypes

\* A host that stops, or that has marked a message, is idle.
LEMMA IdleOk ==
  ASSUME HostsOk, NEW a \in Agent, NEW rest, rest \subseteq host[a].batch,
         Hosts(a, [batch |-> rest, import |-> NoImport]), outbox' = outbox
  PROVE  HostsOk'
  <1>1. PICK h : h = [batch |-> rest, import |-> NoImport]
    OBVIOUS
  <1>2. host[a] \in HostState /\ HostOk(outbox, a, host[a])
    BY DEF HostsOk
  <1>3. NoImport \in ImportState /\ NoImport.pc = "idle"
    BY DEF NoImport, ImportState
  <1>4. h \in HostState
    BY <1>1, <1>2, <1>3 DEF HostState
  <1>5. HostOk(outbox, a, h)
    BY <1>1, <1>2, <1>3 DEF HostOk
  <1>6. host' = [host EXCEPT ![a] = h]
    BY <1>1 DEF Hosts
  <1> QED
    BY <1>4, <1>5, <1>6, HostGoes

LEMMA MarkOk ==
  ASSUME IInv, NEW a \in Agent, Mark(a)
  PROVE  IInv'
  <1>1. PICK f, rest : f = host[a].import.file /\ rest = host[a].batch \ {f}
    OBVIOUS
  <1>2. /\ host[a].import.pc = "imported" /\ Hosts(a, [batch |-> rest, import |-> NoImport])
        /\ seen' = [seen EXCEPT ![a] = @ \cup {f.id}]
        /\ UNCHANGED <<friends, missions, plan, call, outbox, now, crashes, raced>>
    BY <1>1 DEF Mark, Marks, MarkSeen
  <1>3. f \in host[a].batch
    BY <1>1, <1>2, ImportIs
  <1>4. f.id \in Op
    BY <1>3, InBatch DEF File
  <1>5. seen' \in [Agent -> SUBSET Op]
    BY <1>2, <1>4 DEF IInv, OtherTypes
  <1>6. HostsOk'
    BY <1>1, <1>2, IdleOk DEF IInv
  <1> QED
    BY <1>2, <1>5, <1>6 DEF IInv, FriendsOk, MissionsOk, CallsOk, LettersOk, OtherTypes

LEMMA CrashOk ==
  ASSUME IInv, NEW a \in Agent, Crash(a)
  PROVE  IInv'
  <1>1. /\ crashes < MaxCrashes /\ crashes' = crashes + 1
        /\ call' = [o \in Op |-> IF Agt(o) = a /\ call[o].pc \in {"read", "open"}
                                 THEN [call[o] EXCEPT !.pc = "done", !.was = None] ELSE call[o]]
        /\ Hosts(a, [batch |-> {}, import |-> NoImport])
        /\ raced' = raced \cup {<<a, r>> : r \in {r \in Mis : missions[a][r] = Torn}}
        /\ UNCHANGED <<friends, missions, plan, outbox, seen, now>>
    BY DEF Crash, Hosts
  <1>2. call \in [Op -> CallState] /\ \A o \in Op : CallOk(outbox, o, call[o])
    BY DEF IInv, CallsOk
  <1>3. ASSUME NEW o \in Op
        PROVE  /\ call'[o] \in CallState /\ CallOk(outbox, o, call'[o])
               /\ call[o].pc = "done" => call'[o].pc = "done"
    <2>1. CASE Agt(o) = a /\ call[o].pc \in {"read", "open"}
      <3>1. PICK c, d : c = call[o] /\ d = [c EXCEPT !.pc = "done", !.was = None]
        OBVIOUS
      <3>2. call'[o] = d /\ c \in CallState
        BY <1>1, <1>2, <2>1, <3>1
      <3>3. d \in CallState /\ d.pc = "done"
        BY <3>1, <3>2 DEF CallState
      <3> QED
        BY <2>1, <3>2, <3>3 DEF CallOk
    <2>2. CASE ~ (Agt(o) = a /\ call[o].pc \in {"read", "open"})
      <3>1. call'[o] = call[o]
        BY <1>1, <2>2
      <3> QED
        BY <1>2, <3>1
    <2> QED
      BY <2>1, <2>2
  <1>4. CallsOk'
    <2>1. call' = [o \in Op |-> call'[o]]
      BY <1>1
    <2>2. call' \in [Op -> CallState]
      BY <1>3, <2>1
    <2> QED
      BY <1>1, <1>3, <2>2 DEF CallsOk
  <1>5. LettersOk'
    BY <1>1, <1>3 DEF IInv, LettersOk
  <1>6. HostsOk'
    <2>1. PICK rest : rest = {}
      OBVIOUS
    <2>2. rest \subseteq host[a].batch /\ HostsOk
      BY <2>1 DEF IInv
    <2>3. Hosts(a, [batch |-> rest, import |-> NoImport]) /\ outbox' = outbox
      BY <1>1, <2>1
    <2> QED
      BY <2>2, <2>3, IdleOk
  <1>7. raced' \subseteq Agent \X (Rec \cup Mis)
    <2>1. raced \subseteq Agent \X (Rec \cup Mis)
      BY DEF IInv, OtherTypes
    <2>2. {<<a, r>> : r \in {r \in Mis : missions[a][r] = Torn}} \subseteq Agent \X (Rec \cup Mis)
      OBVIOUS
    <2>3. raced' = raced \cup {<<a, r>> : r \in {r \in Mis : missions[a][r] = Torn}}
      BY <1>1
    <2> QED
      BY <2>1, <2>2, <2>3
  <1>8. crashes' \in 0..MaxCrashes
    <2>1. crashes \in 0..MaxCrashes /\ MaxCrashes \in Nat
      BY ImportsAssumption DEF ImportsAssumption, IInv, OtherTypes
    <2>2. crashes < MaxCrashes /\ crashes' = crashes + 1
      BY <1>1
    <2> QED
      BY <2>1, <2>2
  <1> QED
    BY <1>1, <1>4, <1>5, <1>6, <1>7, <1>8 DEF IInv, FriendsOk, MissionsOk, OtherTypes

LEMMA TickOk ==
  ASSUME IInv, Tick
  PROVE  IInv'
  <1>1. /\ now < MaxTime /\ now' = now + 1
        /\ UNCHANGED <<friends, missions, plan, call, outbox, host, seen, crashes, raced>>
    BY DEF Tick
  <1>2. now \in Nat /\ now' \in 0..MaxTime
    BY <1>1, ImportsAssumption DEF ImportsAssumption, IInv, OtherTypes
  <1>3. LettersOk'
    <2> SUFFICES ASSUME NEW o \in Op, outbox[o] # None
                 PROVE  call[o].pc = "done" /\ LetterOk(now', o, outbox[o])
      BY <1>1 DEF IInv, LettersOk
    <2>1. call[o].pc = "done" /\ LetterOk(now, o, outbox[o])
      BY DEF IInv, LettersOk
    <2>2. outbox[o] \in File /\ outbox[o].at <= now
      BY <2>1 DEF LetterOk
    <2>3. outbox[o].at \in Nat
      BY <2>2 DEF File
    <2>4. outbox[o].at <= now'
      BY <1>1, <1>2, <2>2, <2>3
    <2> QED
      BY <2>1, <2>4 DEF LetterOk
  <1> QED
    BY <1>1, <1>2, <1>3 DEF IInv, FriendsOk, MissionsOk, CallsOk, HostsOk, OtherTypes

-----------------------------------------------------------------------------
(* The invariant holds.                                                    *)

LEMMA InitOk ==
  ASSUME Init
  PROVE  IInv
  <1>1. PICK ob, start : ob = outbox /\ start = friends
    OBVIOUS
  <1>2. start \in Starts /\ \A o \in Op : ob[o] = None
    BY <1>1 DEF Init
  <1>3. start \in [Agent -> [Rec -> FriendRecord \cup {None}]]
    BY <1>2, StartsAssumption DEF StartsAssumption
  <1>4. ASSUME NEW a \in Agent, NEW r \in Rec, start[a][r] # None
        PROVE  FriendOk(ob, a, start[a][r])
    <2>1. PICK f : f = start[a][r]
      OBVIOUS
    <2>2. f \in FriendRecord /\ f.imported = NoImported /\ f.claims = <<>>
          /\ \A k \in Key : f.notes[k] \in StartNote(a) \cup {None}
      BY <1>2, <1>3, <1>4, <2>1, StartsAssumption DEF StartsAssumption
    <2>3. TrueNotes(a, f.notes)
      <3> SUFFICES ASSUME NEW k \in Key, f.notes[k] # None
                   PROVE  Origin[f.notes[k].value] = IF f.notes[k].from = None THEN a ELSE f.notes[k].from
        BY DEF TrueNotes
      <3>1. f.notes[k] \in StartNote(a)
        BY <2>2
      <3>2. PICK v \in {w \in Value : Origin[w] = a}, s \in BOOLEAN :
              f.notes[k] = [value |-> v, shareable |-> s, from |-> None]
        BY <3>1 DEF StartNote
      <3> QED
        BY <3>2
    <2>4. HeardFrom(ob, a, f.imported)
      BY <2>2 DEF HeardFrom, NoImported, NoNotes
    <2>5. \A s \in Agent : ClaimsIn(f.claims, s) = {}
      BY <2>2 DEF ClaimsIn
    <2>6. Cardinality({}) <= MaxClaims
      BY FS_EmptySet, ProfileShareAssumption DEF ProfileShareAssumption
    <2>7. Bounded(ob, a, f.claims)
      BY <2>5, <2>6 DEF Bounded
    <2>8. IsInjective(f.claims)
      BY <2>2 DEF IsInjective
    <2> QED
      BY <2>1, <2>2, <2>3, <2>4, <2>7, <2>8 DEF FriendOk
  <1>5. FriendsOk
    BY <1>1, <1>3, <1>4 DEF FriendsOk
  <1>6. MissionsOk
    BY DEF Init, MissionsOk
  <1>7. CallsOk
    <2>1. NoCall \in CallState /\ NoCall.pc = "todo" /\ NoCall.ok = FALSE
      BY DEF NoCall, CallState
    <2>2. \A o \in Op : CallOk(ob, o, NoCall)
      BY <2>1 DEF CallOk
    <2> QED
      BY <1>1, <2>1, <2>2 DEF Init, CallsOk
  <1>8. LettersOk
    BY DEF Init, LettersOk
  <1>9. HostsOk
    <2>1. PICK h : h = [batch |-> {}, import |-> NoImport]
      OBVIOUS
    <2>2. NoImport \in ImportState /\ NoImport.pc = "idle"
      BY DEF NoImport, ImportState
    <2>3. h \in HostState
      BY <2>1, <2>2 DEF HostState
    <2>4. \A a : HostOk(ob, a, h)
      BY <2>1, <2>2 DEF HostOk
    <2>5. host = [a \in Agent |-> h]
      BY <2>1 DEF Init
    <2> QED
      BY <1>1, <2>3, <2>4, <2>5 DEF HostsOk
  <1>10. OtherTypes
    BY ImportsAssumption DEF Init, OtherTypes, ImportsAssumption
  <1> QED
    BY <1>5, <1>6, <1>7, <1>8, <1>9, <1>10 DEF IInv

LEMMA NextOk ==
  ASSUME IInv, [Next]_vars
  PROVE  IInv'
  <1>1. ASSUME NEW o \in Op, CallStep(o) PROVE IInv'
    BY <1>1, GetFriendOk, SaveNoteOk, RecordInteractionOk, ChangeIdsOk, GetMissionOk, OpenRecordedOk,
       WriteRecordedOk, SendOk DEF CallStep
  <1>2. ASSUME NEW a \in Agent, HostStep(a) PROVE IInv'
    BY <1>2, PollOk, StartImportOk, ImportProfileOk, OpenImportedOk, WriteImportedOk, MarkOk DEF HostStep
  <1>3. ASSUME UNCHANGED vars PROVE IInv'
    BY <1>3 DEF vars, IInv, FriendsOk, MissionsOk, CallsOk, LettersOk, HostsOk, OtherTypes
  <1> QED
    BY <1>1, <1>2, <1>3, CrashOk, TickOk DEF Next

\* Every record, wherever it is held, and every message is what IInv says.
THEOREM ImportsInductive == Spec => []IInv
  <1>1. Init => IInv
    BY InitOk
  <1>2. IInv /\ [Next]_vars => IInv'
    BY NextOk
  <1> QED
    BY <1>1, <1>2, PTL DEF Spec

\* A host works only on messages that were written to its agent (readIncoming's
\* path-binding), whatever files there are.
THEOREM HostsWorkOnTheirOwn == Spec => []ImportsInv
  <1>1. ASSUME IInv PROVE ImportsInv
    <2>1. TypeOK
      BY <1>1 DEF IInv, FriendsOk, MissionsOk, CallsOk, CallState, OtherTypes, TypeOK
    <2>2. Message = MessageIn(outbox)
      BY DEF Message, MessageIn
    <2> QED
      BY <1>1, <2>1, <2>2 DEF IInv, HostsOk, HostOk, ImportsInv
  <1> QED
    BY <1>1, ImportsInductive, PTL

\* No laundering: what the records of an agent say was said by whom they name, over
\* however many hands it came.
THEOREM OriginsHold == Spec => []OriginsAreTrue
  <1>1. ASSUME IInv, NEW a \in Agent, NEW imported, HeardFrom(outbox, a, imported) PROVE TrueImports(a, imported)
    BY <1>1 DEF HeardFrom, TrueImports, Said, Wrote
  <1>2. ASSUME IInv PROVE OriginsAreTrue
    <2>1. ASSUME NEW a \in Agent, NEW r \in Records(a)
          PROVE  TrueNotes(a, friends[a][r].notes) /\ TrueImports(a, friends[a][r].imported)
      <3>1. FriendOk(outbox, a, friends[a][r])
        BY <1>2 DEF Records, IInv, FriendsOk
      <3> QED
        BY <1>1, <1>2, <3>1 DEF FriendOk
    <2>2. ASSUME NEW a \in Agent, NEW r \in Missions(a)
          PROVE  TrueImports(a, missions[a][r].imported)
      <3>1. MissionOk(outbox, a, missions[a][r])
        BY <1>2 DEF Missions, IInv, MissionsOk
      <3> QED
        BY <1>1, <1>2, <3>1 DEF MissionOk
    <2> QED
      BY <2>1, <2>2 DEF OriginsAreTrue
  <1> QED
    BY <1>2, ImportsInductive, PTL

\* A peer holds no more claims on a record than the bound, but for one that its own
\* share has seeded, and then those that the share named.
THEOREM ClaimsStayBounded == Spec => []ClaimsBounded
  <1>1. ASSUME IInv PROVE ClaimsBounded
    <2> SUFFICES ASSUME NEW a \in Agent, NEW s \in Agent, NEW r \in Records(a)
                 PROVE  \/ Cardinality(Claims(friends[a][r], s)) <= MaxClaims
                        \/ \E f \in Message : f.from = s /\ f.to = a /\ f.env.ids = Claims(friends[a][r], s)
      BY DEF ClaimsBounded
    <2>1. PICK c : c = ClaimsIn(friends[a][r].claims, s)
      OBVIOUS
    <2>2. Cardinality(c) <= MaxClaims \/ \E o \in Op : Wrote(outbox, s, a, o) /\ outbox[o].env.ids = c
      BY <1>1, <2>1 DEF Records, IInv, FriendsOk, FriendOk, Bounded
    <2>3. ASSUME NEW o \in Op, Wrote(outbox, s, a, o), outbox[o].env.ids = c
          PROVE  \E f \in Message : f.from = s /\ f.to = a /\ f.env.ids = c
      <3>1. PICK f : f = outbox[o]
        OBVIOUS
      <3>2. outbox[o] # None /\ f.to = a /\ f.env.ids = c
        BY <2>3, <3>1 DEF Wrote
      <3>3. f \in MessageIn(outbox)
        BY <3>1, <3>2, CopyIs
      <3>4. LetterOk(now, o, f)
        BY <1>1, <3>1, <3>2 DEF IInv, LettersOk
      <3>5. f.from = s
        BY <2>3, <3>4 DEF LetterOk, BuildOutgoing, Wrote
      <3>6. Message = MessageIn(outbox)
        BY DEF Message, MessageIn
      <3> QED
        BY <3>2, <3>3, <3>5, <3>6
    <2> QED
      BY <2>1, <2>2, <2>3 DEF Claims
  <1> QED
    BY <1>1, ImportsInductive, PTL

-----------------------------------------------------------------------------
(* Standing.                                                               *)

\* A put changes one record; if that is not the one that was read, it is known.
LEMMA PutIs ==
  ASSUME IInv, NEW a \in Agent, NEW r \in Rec, NEW was, NEW g, PutFriend(a, r, was, g)
  PROVE  /\ friends'[a][r] = g
         /\ \A b \in Agent, q \in Rec : b # a \/ q # r => friends'[b][q] = friends[b][q]
         /\ friends[a][r] = was \/ <<a, r>> \in raced'
         /\ raced \subseteq raced'
  <1>1. friends \in [Agent -> [Rec -> FriendRecord \cup {None}]] /\ friends' = [friends EXCEPT ![a][r] = g]
    BY DEF IInv, FriendsOk, PutFriend
  <1>2. /\ friends'[a][r] = g
        /\ \A b \in Agent, q \in Rec : b # a \/ q # r => friends'[b][q] = friends[b][q]
    BY <1>1
  <1>3. raced' = raced \cup Overtaken(a, friends, r, was)
    BY DEF PutFriend
  <1>4. friends[a][r] = was \/ <<a, r>> \in Overtaken(a, friends, r, was)
    BY DEF Overtaken
  <1> QED
    BY <1>2, <1>3, <1>4

\* Standing is of the outcomes and the familiarity of a record.
LEMMA StandingOf ==
  ASSUME NEW f, NEW g, g.outcomes = f.outcomes, g.familiarity = f.familiarity
  PROVE  AssessStanding(g) = AssessStanding(f)
  BY DEF AssessStanding

\* What was only heard leaves it as it is, unless it makes an agent familiar or a stranger.
LEMMA HeardLeavesStanding ==
  ASSUME NEW f \in FriendRecord, NEW result \in Result, NEW delta \in Int, ~ Crosses(f.familiarity, delta)
  PROVE  AssessStanding(RecordOutcome(f, result, TRUE, delta)) = AssessStanding(f)
  <1>1. CASE ~ f.peer
    BY <1>1 DEF RecordOutcome
  <1>2. CASE f.peer
    <2> DEFINE row == [result |-> result, heard |-> TRUE]
               s == f.outcomes
               q == Append(s, row)
               x == f.familiarity
               y == f.familiarity + delta
               g == RecordOutcome(f, result, TRUE, delta)
    <2>1. g = [f EXCEPT !.outcomes = q, !.familiarity = y]
      BY <1>2 DEF RecordOutcome
    <2>2. s \in Seq([result : Result, heard : BOOLEAN]) /\ row \in [result : Result, heard : BOOLEAN] /\ row.heard = TRUE
      BY DEF FriendRecord
    <2> HIDE DEF q, y, g, s, row
    <2>3. g.outcomes = q /\ g.familiarity = y
      BY <2>1 DEF FriendRecord
    <2>4. /\ DOMAIN s = 1..Len(s) /\ Len(s) \in Nat /\ DOMAIN q = 1..(Len(s) + 1)
          /\ q[Len(s) + 1] = row /\ \A n \in 1..Len(s) : q[n] = s[n]
      BY <2>2 DEF q
    <2>5. {m \in DOMAIN q : ~ q[m].heard} = {m \in DOMAIN s : ~ s[m].heard}
      <3>1. \A n \in DOMAIN q : n \in DOMAIN s \/ (n = Len(s) + 1 /\ q[n].heard = TRUE)
        BY <2>2, <2>4
      <3>2. \A n \in DOMAIN s : n \in DOMAIN q /\ q[n] = s[n]
        BY <2>4
      <3> QED
        BY <3>1, <3>2
    <2>6. FirstParty(q) = FirstParty(s)
      <3>1. \A n \in {m \in DOMAIN s : ~ s[m].heard} : q[n] = s[n]
        BY <2>4
      <3> QED
        BY <2>5, <3>1 DEF FirstParty
    <2>7. (x >= FamiliarityThreshold) = (y >= FamiliarityThreshold)
      BY DEF Crosses, y
    <2>8. Tier(FirstParty(q), y) = Tier(FirstParty(s), x)
      <3> DEFINE p == FirstParty(s)
      <3> HIDE DEF p
      <3>1. Tier(p, y) = Tier(p, x)
        BY <2>7 DEF Tier
      <3> QED
        BY <2>6, <3>1 DEF p
    <2>9. AssessStanding(g) = Tier(FirstParty(q), y) /\ AssessStanding(f) = Tier(FirstParty(s), x)
      BY <2>3 DEF AssessStanding, s
    <2> QED
      BY <2>8, <2>9 DEF g
  <1> QED
    BY <1>1, <1>2

Earned ==
  \A a \in Agent : \A r \in Records(a) :
    AssessStanding(friends'[a][r]) # AssessStanding(friends[a][r]) =>
      \/ <<a, r>> \in raced'
      \/ \E o \in Planned : /\ Plan[o].kind = "outcome" /\ Agt(o) = a
                          /\ call'[o].at = r /\ call'[o].ok /\ ~ call[o].ok
                          /\ (Plan[o].from = None \/ Crosses(friends[a][r].familiarity, Plan[o].delta))

\* A put of a record with the same outcomes and familiarity.
LEMMA PutEarns ==
  ASSUME IInv, NEW b \in Agent, NEW q \in Rec, NEW was, NEW g, PutFriend(b, q, was, g),
         friends[b][q] # None /\ friends[b][q] = was => g.outcomes = was.outcomes /\ g.familiarity = was.familiarity
  PROVE  Earned
  <1> SUFFICES ASSUME NEW a \in Agent, NEW r \in Records(a),
                      AssessStanding(friends'[a][r]) # AssessStanding(friends[a][r])
               PROVE  <<a, r>> \in raced'
    BY DEF Earned
  <1>1. r \in Rec /\ friends[a][r] # None
    BY DEF Records
  <1>2. a = b /\ r = q
    <2>1. \A c \in Agent, p \in Rec : c # b \/ p # q => friends'[c][p] = friends[c][p]
      BY PutIs
    <2> QED
      BY <1>1, <2>1
  <1>3. CASE friends[b][q] = was
    <2>1. AssessStanding(g) = AssessStanding(was)
      BY <1>1, <1>2, <1>3, StandingOf
    <2> QED
      BY <1>2, <1>3, <2>1, PutIs
  <1>4. CASE friends[b][q] # was
    BY <1>2, <1>4, PutIs
  <1> QED
    BY <1>3, <1>4

LEMMA StepEarns ==
  ASSUME IInv, Next
  PROVE  Earned
  <1>1. ASSUME friends' = friends PROVE Earned
    BY <1>1 DEF Earned
  <1>2. ASSUME NEW o \in Op, SaveNote(o) PROVE Earned
    <2>1. PICK was, g, q : /\ was = call[o].was /\ q = call[o].at
                           /\ g = ApplyFriendNote(was, Plan[o].key, Content(o, was), Source(o, was))
      OBVIOUS
    <2>2. call[o].pc = "read" /\ Plan[o].kind = "note" /\ PutFriend(Agt(o), q, was, g)
      BY <1>2, <2>1 DEF SaveNote, Put, Is
    <2>3. q \in Rec /\ FriendOk(outbox, Agt(o), was) /\ Agt(o) \in Agent
      BY <2>1, <2>2, ImportsAssumption DEF IInv, CallsOk, CallOk, AboutFriend, ImportsAssumption, Agt
    <2>4. g.outcomes = was.outcomes /\ g.familiarity = was.familiarity
      BY <2>1, <2>3 DEF ApplyFriendNote, FriendOk, FriendRecord
    <2> QED
      BY <2>2, <2>3, <2>4, PutEarns
  <1>3. ASSUME NEW o \in Op, ChangeIds(o) PROVE Earned
    <2>1. PICK was, g, q : was = call[o].was /\ q = call[o].at /\ g = [was EXCEPT !.ids = Plan[o].ids]
      OBVIOUS
    <2>2. call[o].pc = "read" /\ Plan[o].kind = "ids" /\ PutFriend(Agt(o), q, was, g)
      BY <1>3, <2>1 DEF ChangeIds, Put, Is
    <2>3. q \in Rec /\ FriendOk(outbox, Agt(o), was) /\ Agt(o) \in Agent
      BY <2>1, <2>2, ImportsAssumption DEF IInv, CallsOk, CallOk, AboutFriend, ImportsAssumption, Agt
    <2>4. g.outcomes = was.outcomes /\ g.familiarity = was.familiarity
      BY <2>1, <2>3 DEF FriendOk, FriendRecord
    <2> QED
      BY <2>2, <2>3, <2>4, PutEarns
  <1>4. ASSUME NEW o \in Op, RecordInteraction(o) PROVE Earned
    <2>1. PICK was, g, q, b : /\ was = call[o].was /\ q = call[o].at /\ b = Agt(o)
                              /\ g = RecordOutcome(was, Plan[o].result, Plan[o].from # None, Plan[o].delta)
      OBVIOUS
    <2>2. /\ call[o].pc = "read" /\ Plan[o].kind = "outcome" /\ PutFriend(b, q, was, g) /\ o \in Planned
          /\ call' = [call EXCEPT ![o] = [call[o] EXCEPT !.pc = "done", !.ok = TRUE, !.was = None]]
      BY <1>4, <2>1 DEF RecordInteraction, Put, Is, Go
    <2>3. q \in Rec /\ FriendOk(outbox, b, was) /\ b \in Agent /\ call[o] \in CallState /\ ~ call[o].ok
      BY <2>1, <2>2, ImportsAssumption DEF IInv, CallsOk, CallOk, AboutFriend, ImportsAssumption, Agt
    <2>4. call'[o].at = q /\ call'[o].ok
      BY <2>1, <2>2, <2>3 DEF IInv, CallsOk, CallState
    <2> SUFFICES ASSUME NEW a \in Agent, NEW r \in Records(a),
                        AssessStanding(friends'[a][r]) # AssessStanding(friends[a][r]), <<a, r>> \notin raced'
                 PROVE  /\ a = b /\ r = q
                        /\ (Plan[o].from = None \/ Crosses(friends[a][r].familiarity, Plan[o].delta))
      BY <2>1, <2>2, <2>3, <2>4 DEF Earned
    <2>5. r \in Rec /\ friends[a][r] # None
      BY DEF Records
    <2>6. a = b /\ r = q /\ friends'[a][r] = g /\ friends[a][r] = was
      <3>1. /\ friends'[b][q] = g
            /\ a # b \/ r # q => friends'[a][r] = friends[a][r]
            /\ friends[b][q] = was \/ <<b, q>> \in raced'
        BY <2>2, <2>3, <2>5, PutIs
      <3>2. a = b /\ r = q
        BY <3>1
      <3> QED
        BY <3>1, <3>2
    <2>7. ASSUME Plan[o].from # None, ~ Crosses(was.familiarity, Plan[o].delta) PROVE FALSE
      <3>1. Plan[o].result \in Result /\ Plan[o].delta \in Int /\ was \in FriendRecord
        BY <2>3, ImportsAssumption DEF ImportsAssumption, FriendOk
      <3>2. g = RecordOutcome(was, Plan[o].result, TRUE, Plan[o].delta)
        BY <2>1, <2>7
      <3>3. AssessStanding(g) = AssessStanding(was)
        BY <2>7, <3>1, <3>2, HeardLeavesStanding
      <3> QED
        BY <2>6, <3>3
    <2> QED
      BY <2>6, <2>7
  <1>5. ASSUME NEW b \in Agent, ImportProfile(b) PROVE Earned
    <2>1. PICK i, f, g : i = host[b].import /\ f = i.file /\ g = Landing(i)
      OBVIOUS
    <2>2. i.pc = "read" /\ f.kind = "share_profile" /\ PutFriend(b, i.at, i.was, g)
      BY <1>5, <2>1 DEF ImportProfile, Landing
    <2>3. i.at \in Rec /\ f \in host[b].batch /\ (i.was # None => FriendOk(outbox, b, i.was))
      BY <2>1, <2>2 DEF IInv, HostsOk, HostOk
    <2>4. ASSUME i.was # None PROVE g.outcomes = i.was.outcomes /\ g.familiarity = i.was.familiarity
      <3>1. g = ApplyToRecord(i.was, f.env, f.from) /\ i.was \in FriendRecord
        BY <2>1, <2>3, <2>4 DEF Landing, FriendOk
      <3> QED
        BY <3>1 DEF ApplyToRecord, FriendRecord
    <2> QED
      BY <2>2, <2>3, <2>4, PutEarns
  <1>6. ASSUME NEW o \in Op, CallStep(o) PROVE Earned
    BY <1>1, <1>2, <1>3, <1>4, <1>6 DEF CallStep, GetFriend, GetMission, OpenRecorded, WriteRecorded, Send
  <1>7. ASSUME NEW a \in Agent, HostStep(a) PROVE Earned
    BY <1>1, <1>5, <1>7 DEF HostStep, Poll, StartImport, OpenImported, WriteImported, Mark, Marks
  <1> QED
    BY <1>1, <1>6, <1>7 DEF Next, Crash, Tick

\* The firewalls of standing: it moves when the agent records an outcome of its own, and
\* otherwise only by a put that was overtaken, or by what was heard where that takes the
\* familiarity over its threshold.
THEOREM EarnedStanding == Spec => StandingIsEarned
  <1>1. IInv /\ [Next]_vars => [Earned]_vars
    BY StepEarns
  <1>2. Spec => [][Earned]_vars
    BY <1>1, ImportsInductive, PTL DEF Spec
  <1> QED
    BY <1>2 DEF StandingIsEarned, Earned

-----------------------------------------------------------------------------
(* The order in which messages are seen.                                   *)

\* Of the messages in the outboxes ob to the agent a, those its ledger se has are no
\* later than the rest, those its host h works on come next, and the one it imports is
\* the first of them.
InOrder(ob, a, se, h) ==
  /\ \A o \in se : ob[o] # None /\ ob[o].to = a
  /\ \A o \in se, p \in Op : ob[p] # None /\ ob[p].to = a /\ p \notin se => ob[o].at <= ob[p].at
  /\ \A o \in se, f \in h.batch : ob[o].at <= f.at
  /\ \A f \in h.batch, p \in Op :
       ob[p] # None /\ ob[p].to = a /\ p \notin se /\ ob[p] \notin h.batch => f.at <= ob[p].at
  /\ h.import.pc # "idle" => \A g \in h.batch : h.import.file.at <= g.at

SeenInOrder == \A a \in Agent : InOrder(outbox, a, seen[a], host[a])

\* Only the host of a goes on, or only its agent's ledger.
LEMMA OrderOf ==
  ASSUME IInv, SeenInOrder, NEW a \in Agent, NEW h \in HostState, NEW se \in SUBSET Op,
         InOrder(outbox, a, se, h), host' = [host EXCEPT ![a] = h], seen' = [seen EXCEPT ![a] = se], outbox' = outbox
  PROVE  SeenInOrder'
  <1>1. /\ host'[a] = h /\ seen'[a] = se
        /\ \A b \in Agent : b # a => host'[b] = host[b] /\ seen'[b] = seen[b]
    BY DEF IInv, HostsOk, OtherTypes
  <1>2. ASSUME NEW b \in Agent PROVE InOrder(outbox, b, seen'[b], host'[b])
    <2>1. CASE b = a
      BY <1>1, <2>1
    <2>2. CASE b # a
      BY <1>1, <2>2 DEF SeenInOrder
    <2> QED
      BY <2>1, <2>2
  <1> QED
    BY <1>2 DEF SeenInOrder

\* Every message that its reader has not seen is ready.
LEMMA AllReady ==
  ASSUME LettersOk, NEW a \in Agent, NEW p \in Op, outbox[p] # None, outbox[p].to = a, p \notin seen[a]
  PROVE  outbox[p] \in ReadIncoming(Files, a, seen[a])
  <1>1. PICK f : f = outbox[p]
    OBVIOUS
  <1>2. LetterOk(now, p, f)
    BY <1>1 DEF LettersOk
  <1>3. f \in File /\ f.id = p /\ f.path = [from |-> f.from, to |-> f.to]
    BY <1>2 DEF LetterOk, BuildOutgoing
  <1>4. f.parses /\ f.version = Supported
    BY <1>3 DEF File
  <1>5. Ready(f, a, seen[a])
    BY <1>1, <1>3, <1>4 DEF Ready, PathBound, IsSeen
  <1>6. f \in Files
    BY <1>1 DEF Files
  <1> QED
    BY <1>1, <1>5, <1>6 DEF ReadIncoming

LEMMA PollOrder ==
  ASSUME IInv, SeenInOrder, NEW a \in Agent, Poll(a)
  PROVE  SeenInOrder'
  <1>1. PICK ready, se, ob : ready = ReadIncoming(Files, a, seen[a]) /\ se = seen[a] /\ ob = outbox
    OBVIOUS
  <1>2. PICK h : h = [batch |-> ready, import |-> NoImport]
    OBVIOUS
  <1>3. /\ host' = [host EXCEPT ![a] = h] /\ UNCHANGED <<outbox, seen>>
    BY <1>1, <1>2 DEF Poll, Hosts
  <1>4. h.batch = ready /\ h.import.pc = "idle"
    BY <1>2 DEF NoImport
  <1>5. InOrder(ob, a, se, host[a])
    BY <1>1 DEF SeenInOrder
  <1>6. ASSUME NEW f \in ready
        PROVE  /\ f \in File /\ f.at \in Nat
               /\ \E p \in Op : ob[p] # None /\ ob[p].to = a /\ p \notin se /\ f.at = ob[p].at
    <2>1. f \in MessageIn(ob) /\ f.to = a /\ f.id \notin se
      BY <1>1, ReadyIs DEF IInv
    <2>2. LettersIn(ob, now)
      BY <1>1, LettersAre DEF IInv
    <2>3. PICK t : t = now
      OBVIOUS
    <2>4. f \in File /\ \E p \in Op : IsOf(ob, f, p)
      BY <2>1, <2>2, <2>3, MessageIs
    <2> QED
      BY <2>1, <2>4 DEF IsOf, File
  <1>7. \A p \in Op : ob[p] # None /\ ob[p].to = a /\ p \notin se => ob[p] \in ready
    BY <1>1, AllReady DEF IInv
  <1>8. InOrder(ob, a, se, h)
    BY <1>4, <1>5, <1>6, <1>7 DEF InOrder
  <1>9. host'[a] = h /\ h \in HostState
    <2>1. NoImport \in ImportState
      BY DEF NoImport, ImportState
    <2>2. h \in HostState
      BY <1>2, <1>6, <2>1 DEF HostState
    <2> QED
      BY <1>3, <2>2 DEF IInv, HostsOk
  <1>10. seen' = [seen EXCEPT ![a] = se] /\ se \in SUBSET Op
    BY <1>1, <1>3 DEF IInv, OtherTypes
  <1> QED
    BY <1>1, <1>3, <1>8, <1>9, <1>10, OrderOf

\* The import of a host goes on, with the first message of its batch.
LEMMA ImportOrder ==
  ASSUME IInv, SeenInOrder, NEW a \in Agent, NEW i \in ImportState, i.file \in host[a].batch,
         \A g \in host[a].batch : i.file.at <= g.at,
         Hosts(a, [host[a] EXCEPT !.import = i]), UNCHANGED <<outbox, seen>>
  PROVE  SeenInOrder'
  <1>1. PICK h, se : h = [host[a] EXCEPT !.import = i] /\ se = seen[a]
    OBVIOUS
  <1>2. host[a] \in HostState
    BY DEF IInv, HostsOk
  <1>3. h \in HostState /\ h.batch = host[a].batch /\ h.import = i
    BY <1>1, <1>2 DEF HostState
  <1>4. InOrder(outbox, a, se, host[a])
    BY <1>1 DEF SeenInOrder
  <1>5. InOrder(outbox, a, se, h)
    BY <1>3, <1>4 DEF InOrder
  <1>6. host' = [host EXCEPT ![a] = h] /\ seen' = [seen EXCEPT ![a] = se] /\ se \in SUBSET Op
    BY <1>1 DEF Hosts, IInv, OtherTypes
  <1> QED
    BY <1>3, <1>5, <1>6, OrderOf

LEMMA StartImportOrder ==
  ASSUME IInv, SeenInOrder, NEW a \in Agent, StartImport(a)
  PROVE  SeenInOrder'
  <1>1. PICK f \in First(host[a].batch) : \E i :
          /\ i.file = f /\ Hosts(a, [host[a] EXCEPT !.import = i])
          /\ \/ i = [NoImport EXCEPT !.pc = "imported", !.file = f]
             \/ \E t \in Targets(a, f) : i = [pc |-> "read", at |-> t[1], was |-> t[2], file |-> f]
    <2>1. PICK f \in First(host[a].batch) :
            \/ Hosts(a, [host[a] EXCEPT !.import = [NoImport EXCEPT !.pc = "imported", !.file = f]])
            \/ \E t \in Targets(a, f) :
                 Hosts(a, [host[a] EXCEPT !.import = [pc |-> "read", at |-> t[1], was |-> t[2], file |-> f]])
      BY DEF StartImport
    <2>2. CASE Hosts(a, [host[a] EXCEPT !.import = [NoImport EXCEPT !.pc = "imported", !.file = f]])
      <3>1. PICK i : i = [NoImport EXCEPT !.pc = "imported", !.file = f]
        OBVIOUS
      <3>2. i.file = f
        BY <3>1 DEF NoImport
      <3> QED
        BY <2>2, <3>1, <3>2
    <2>3. ASSUME NEW t \in Targets(a, f),
                 Hosts(a, [host[a] EXCEPT !.import = [pc |-> "read", at |-> t[1], was |-> t[2], file |-> f]])
          PROVE  \E i : /\ i.file = f /\ Hosts(a, [host[a] EXCEPT !.import = i])
                        /\ i = [pc |-> "read", at |-> t[1], was |-> t[2], file |-> f]
      <3>1. PICK i : i = [pc |-> "read", at |-> t[1], was |-> t[2], file |-> f]
        OBVIOUS
      <3>2. i.file = f
        BY <3>1
      <3> QED
        BY <2>3, <3>1, <3>2
    <2> QED
      BY <2>1, <2>2, <2>3
  <1>2. PICK i : /\ i.file = f /\ Hosts(a, [host[a] EXCEPT !.import = i])
                 /\ \/ i = [NoImport EXCEPT !.pc = "imported", !.file = f]
                    \/ \E t \in Targets(a, f) : i = [pc |-> "read", at |-> t[1], was |-> t[2], file |-> f]
    BY <1>1
  <1>3. f \in host[a].batch /\ \A g \in host[a].batch : ~ Earlier(g, f)
    BY DEF First
  <1>4. f \in File /\ \A g \in host[a].batch : g \in File /\ g.at \in Nat
    BY <1>3, InBatch DEF File
  <1>5. \A g \in host[a].batch : f.at <= g.at
    <2> SUFFICES ASSUME NEW g \in host[a].batch PROVE f.at <= g.at
      OBVIOUS
    <2>1. f.at \in Nat /\ g.at \in Nat /\ ~ (g.at < f.at)
      BY <1>3, <1>4 DEF Earlier
    <2> QED
      BY <2>1
  <1>6. i \in ImportState
    <2>1. CASE i = [NoImport EXCEPT !.pc = "imported", !.file = f]
      BY <1>4, <2>1 DEF ImportState, NoImport
    <2>2. ASSUME NEW t \in Targets(a, f), i = [pc |-> "read", at |-> t[1], was |-> t[2], file |-> f] PROVE i \in ImportState
      <3>1. /\ f.kind = "share_profile" =>
                 t[1] \in Rec /\ (t[2] = None \/ (t[2] \in FriendRecord /\ FriendOk(outbox, a, t[2])))
            /\ f.kind # "share_profile" =>
                 t[1] \in Mis /\ (t[2] = None \/ (t[2] \in MissionRecord /\ MissionOk(outbox, a, t[2])))
        BY TargetsAre
      <3> QED
        BY <1>4, <2>2, <3>1 DEF ImportState
    <2> QED
      BY <1>2, <2>1, <2>2
  <1> QED
    BY <1>2, <1>3, <1>5, <1>6, ImportOrder DEF StartImport

LEMMA MarkOrder ==
  ASSUME IInv, SeenInOrder, NEW a \in Agent, Mark(a)
  PROVE  SeenInOrder'
  <1>1. PICK f, h, se, ob : /\ f = host[a].import.file /\ h = [batch |-> host[a].batch \ {f}, import |-> NoImport]
                            /\ se = seen[a] \cup {f.id} /\ ob = outbox
    OBVIOUS
  <1>2. /\ host[a].import.pc = "imported" /\ host' = [host EXCEPT ![a] = h]
        /\ seen' = [seen EXCEPT ![a] = se] /\ outbox' = outbox
    BY <1>1 DEF Mark, Marks, MarkSeen, Hosts
  <1>3. f \in host[a].batch
    BY <1>1, <1>2, ImportIs
  <1>4. \A g \in host[a].batch : g \in File /\ g.at \in Nat
    BY InBatch DEF File
  <1>5. f.id \in Op /\ ob[f.id] # None /\ ob[f.id].to = a /\ ob[f.id].at = f.at
    <2>1. f.to = a /\ \E o \in Op : IsOf(outbox, f, o)
      BY <1>3, InBatch
    <2> QED
      BY <1>1, <2>1 DEF IsOf
  <1>6. InOrder(ob, a, seen[a], host[a]) /\ host[a].import.pc # "idle"
    BY <1>1, <1>2 DEF SeenInOrder
  <1>7. h.batch = host[a].batch \ {f} /\ h.import.pc = "idle"
    BY <1>1 DEF NoImport
  <1>8. \A g \in host[a].batch : f.at <= g.at
    BY <1>1, <1>6 DEF InOrder
  <1>9. InOrder(ob, a, se, h)
    <2>1. \A o \in se : ob[o] # None /\ ob[o].to = a
      BY <1>1, <1>5, <1>6 DEF InOrder
    <2>2. ASSUME NEW p \in Op, ob[p] # None, ob[p].to = a, p \notin se PROVE f.at <= ob[p].at
      <3>1. CASE ob[p] \in host[a].batch
        BY <1>8, <3>1
      <3>2. CASE ob[p] \notin host[a].batch
        BY <1>1, <1>3, <1>6, <2>2, <3>2 DEF InOrder
      <3> QED
        BY <3>1, <3>2
    <2>3. \A o \in se, p \in Op : ob[p] # None /\ ob[p].to = a /\ p \notin se => ob[o].at <= ob[p].at
      BY <1>1, <1>5, <1>6, <2>2 DEF InOrder
    <2>4. \A o \in se, g \in h.batch : ob[o].at <= g.at
      BY <1>1, <1>5, <1>6, <1>7, <1>8 DEF InOrder
    <2>5. \A g \in h.batch, p \in Op :
            ob[p] # None /\ ob[p].to = a /\ p \notin se /\ ob[p] \notin h.batch => g.at <= ob[p].at
      <3> SUFFICES ASSUME NEW g \in h.batch, NEW p \in Op, ob[p] # None, ob[p].to = a, p \notin se, ob[p] \notin h.batch
                   PROVE  g.at <= ob[p].at
        OBVIOUS
      <3>1. ob[p] # f
        <4>1. LetterOk(now, p, outbox[p])
          BY <1>1 DEF IInv, LettersOk
        <4>2. ob[p].id = p
          BY <1>1, <4>1 DEF LetterOk, BuildOutgoing
        <4> QED
          BY <1>1, <4>2
      <3> QED
        BY <1>1, <1>6, <1>7, <3>1 DEF InOrder
    <2> QED
      BY <1>7, <2>1, <2>3, <2>4, <2>5 DEF InOrder
  <1>10. h \in HostState /\ se \in SUBSET Op
    <2>1. NoImport \in ImportState /\ host[a] \in HostState
      BY DEF NoImport, ImportState, IInv, HostsOk
    <2> QED
      BY <1>1, <1>5, <2>1 DEF HostState, IInv, OtherTypes
  <1> QED
    BY <1>1, <1>2, <1>9, <1>10, OrderOf

LEMMA CrashOrder ==
  ASSUME IInv, SeenInOrder, NEW a \in Agent, Crash(a)
  PROVE  SeenInOrder'
  <1>1. PICK h, se : h = [batch |-> {}, import |-> NoImport] /\ se = seen[a]
    OBVIOUS
  <1>2. host' = [host EXCEPT ![a] = h] /\ UNCHANGED <<outbox, seen>>
    BY <1>1 DEF Crash
  <1>3. InOrder(outbox, a, se, host[a])
    BY <1>1 DEF SeenInOrder
  <1>4. h.batch = {} /\ h.import.pc = "idle"
    BY <1>1 DEF NoImport
  <1>5. InOrder(outbox, a, se, h)
    BY <1>3, <1>4 DEF InOrder
  <1>6. h \in HostState
    <2>1. NoImport \in ImportState
      BY DEF NoImport, ImportState
    <2> QED
      BY <1>1, <2>1 DEF HostState
  <1>7. seen' = [seen EXCEPT ![a] = se] /\ se \in SUBSET Op
    BY <1>1, <1>2 DEF IInv, OtherTypes
  <1> QED
    BY <1>2, <1>5, <1>6, <1>7, OrderOf

LEMMA SendOrder ==
  ASSUME IInv, SeenInOrder, NEW o \in Op, Send(o)
  PROVE  SeenInOrder'
  <1>1. PICK ob, pb : ob = outbox /\ pb = outbox'
    OBVIOUS
  <1>2. ob[o] = None /\ pb[o].at = now /\ \A p \in Op : p # o => pb[p] = ob[p]
    BY <1>1, SendOk
  <1>3. UNCHANGED <<host, seen>>
    BY DEF Send
  <1> SUFFICES ASSUME NEW a \in Agent PROVE InOrder(pb, a, seen[a], host[a])
    BY <1>1, <1>3 DEF SeenInOrder
  <1>4. InOrder(ob, a, seen[a], host[a]) /\ seen[a] \subseteq Op
    BY <1>1 DEF SeenInOrder, IInv, OtherTypes
  <1>5. \A p \in Op : ob[p] # None => ob[p].at <= now
    BY <1>1 DEF IInv, LettersOk, LetterOk
  <1>6. \A f \in host[a].batch : f.at <= now
    <2> SUFFICES ASSUME NEW f \in host[a].batch PROVE f.at <= now
      OBVIOUS
    <2>1. \E p \in Op : IsOf(outbox, f, p)
      BY InBatch
    <2> QED
      BY <1>1, <1>5, <2>1 DEF IsOf
  <1>7. \A p \in seen[a] : p \in Op /\ pb[p] = ob[p] /\ ob[p] # None
    BY <1>2, <1>4 DEF InOrder
  <1> QED
    BY <1>2, <1>4, <1>5, <1>6, <1>7 DEF InOrder

LEMMA ImportsOrder ==
  ASSUME IInv, SeenInOrder, NEW a \in Agent, ImportProfile(a) \/ OpenImported(a) \/ WriteImported(a)
  PROVE  SeenInOrder'
  <1>1. PICK i : i = host[a].import
    OBVIOUS
  <1>2. i.pc \in {"read", "open"} /\ UNCHANGED <<outbox, seen>>
    BY <1>1 DEF ImportProfile, OpenImported, WriteImported
  <1>3. i \in ImportState /\ i.file \in host[a].batch
    BY <1>1, <1>2, ImportIs
  <1>4. \A g \in host[a].batch : i.file.at <= g.at
    BY <1>1, <1>2 DEF SeenInOrder, InOrder
  <1>5. ASSUME NEW j \in ImportState, j.file = i.file, Hosts(a, [host[a] EXCEPT !.import = j]) PROVE SeenInOrder'
    BY <1>2, <1>3, <1>4, <1>5, ImportOrder
  <1>6. CASE ImportProfile(a) \/ WriteImported(a)
    <2>1. PICK j : j = [i EXCEPT !.pc = "imported", !.was = None]
      OBVIOUS
    <2>2. j \in ImportState /\ j.file = i.file
      BY <1>3, <2>1 DEF ImportState
    <2>3. Hosts(a, [host[a] EXCEPT !.import = j])
      BY <1>1, <1>6, <2>1 DEF ImportProfile, WriteImported
    <2> QED
      BY <1>5, <2>2, <2>3
  <1>7. CASE OpenImported(a)
    <2>1. PICK g, j : g = MissionLanding(i) /\ j = [i EXCEPT !.pc = "open", !.was = g]
      OBVIOUS
    <2>2. i.pc = "read" /\ i.file.kind = "share_mission" /\ Hosts(a, [host[a] EXCEPT !.import = j])
      BY <1>1, <1>7, <2>1 DEF OpenImported, MissionLanding
    <2>3. g \in MissionRecord
      BY <1>1, <2>1, <2>2, MissionLandingOk DEF MissionOk
    <2>4. j \in ImportState /\ j.file = i.file
      BY <1>3, <2>1, <2>3 DEF ImportState
    <2> QED
      BY <1>5, <2>2, <2>4
  <1> QED
    BY <1>6, <1>7

LEMMA NextOrder ==
  ASSUME IInv, SeenInOrder, [Next]_vars
  PROVE  SeenInOrder'
  <1>1. ASSUME UNCHANGED <<outbox, seen, host>> PROVE SeenInOrder'
    BY <1>1 DEF SeenInOrder
  <1>2. ASSUME NEW o \in Op, CallStep(o) PROVE SeenInOrder'
    <2>1. ASSUME NEW g, Put(o, g) PROVE UNCHANGED <<outbox, seen, host>>
      BY <2>1 DEF Put
    <2> QED
      BY <1>1, <1>2, <2>1, SendOrder
         DEF CallStep, GetFriend, SaveNote, RecordInteraction, ChangeIds, GetMission, OpenRecorded, WriteRecorded
  <1>3. ASSUME NEW a \in Agent, HostStep(a) PROVE SeenInOrder'
    BY <1>3, PollOrder, StartImportOrder, ImportsOrder, MarkOrder DEF HostStep
  <1>4. ASSUME Tick PROVE SeenInOrder'
    BY <1>1, <1>4 DEF Tick
  <1>5. ASSUME UNCHANGED vars PROVE SeenInOrder'
    BY <1>1, <1>5 DEF vars
  <1> QED
    BY <1>2, <1>3, <1>4, <1>5, CrashOrder DEF Next

LEMMA InitOrder ==
  ASSUME Init
  PROVE  SeenInOrder
  <1> SUFFICES ASSUME NEW a \in Agent PROVE InOrder(outbox, a, seen[a], host[a])
    BY DEF SeenInOrder
  <1>1. seen[a] = {} /\ host[a] = [batch |-> {}, import |-> NoImport]
    BY DEF Init
  <1>2. host[a].batch = {} /\ host[a].import.pc = "idle"
    BY <1>1 DEF NoImport
  <1> QED
    BY <1>1, <1>2 DEF InOrder

-----------------------------------------------------------------------------
(* Who is writing a mission, and the rows that are held.                   *)

CallWrites(o, a, r) == Agt(o) = a /\ call[o].pc = "open" /\ call[o].at = r
HostWrites(a, r)    == host[a].import.pc = "open" /\ host[a].import.at = r

\* A mission has no more than one writer, and is torn while it has.
Sole(a, r) ==
  /\ \A o \in Op : CallWrites(o, a, r) => missions[a][r] = Torn
  /\ HostWrites(a, r) => missions[a][r] = Torn
  /\ \A o, p \in Op : CallWrites(o, a, r) /\ CallWrites(p, a, r) => o = p
  /\ \A o \in Op : ~ (CallWrites(o, a, r) /\ HostWrites(a, r))

OneWriter == \A a \in Agent, r \in Mis : Kept(a, r) => Sole(a, r)

\* A row of s of the moment t is in m, and is held in the mission r, or is about to be.
RowIn(m, s, t) == \E n \in DOMAIN m.outcomes : m.outcomes[n].by = s /\ m.outcomes[n].at = t

RowAt(a, r, s, t) ==
  \/ missions[a][r] \notin {None, Torn} /\ RowIn(missions[a][r], s, t)
  \/ HostWrites(a, r) /\ RowIn(host[a].import.was, s, t)
  \/ \E o \in Op : CallWrites(o, a, r) /\ RowIn(call[o].was, s, t)

\* A step that keeps the rows of the missions that are kept.
RowsGoOn ==
  /\ raced \subseteq raced'
  /\ \A a \in Agent, r \in Mis, s \in Agent, t \in Nat : RowAt(a, r, s, t) => RowAt(a, r, s, t)' \/ <<a, r>> \in raced'

\* A step that no writer of a mission takes.
Quiet ==
  /\ missions' = missions /\ raced \subseteq raced'
  /\ \A o \in Op : call[o].pc = "open" \/ call'[o].pc = "open" => call'[o] = call[o]
  /\ \A a \in Agent : host[a].import.pc = "open" \/ host'[a].import.pc = "open" => host'[a].import = host[a].import

LEMMA QuietKeeps ==
  ASSUME OneWriter, Quiet
  PROVE  OneWriter' /\ RowsGoOn
  <1>1. \A o \in Op : \A a, r : CallWrites(o, a, r)' <=> CallWrites(o, a, r)
    BY DEF Quiet, CallWrites, Agt
  <1>2. \A a \in Agent : \A r : HostWrites(a, r)' <=> HostWrites(a, r)
    BY DEF Quiet, HostWrites
  <1>3. \A o \in Op : \A a, r : CallWrites(o, a, r) => call'[o].was = call[o].was
    BY DEF Quiet, CallWrites
  <1>4. \A a \in Agent : \A r : HostWrites(a, r) => host'[a].import.was = host[a].import.was
    BY DEF Quiet, HostWrites
  <1>5. missions' = missions /\ raced \subseteq raced'
    BY DEF Quiet
  <1>6. \A a \in Agent, r \in Mis : Sole(a, r) => Sole(a, r)'
    BY <1>1, <1>2, <1>5 DEF Sole
  <1>7. OneWriter'
    BY <1>5, <1>6 DEF OneWriter, Kept
  <1>8. ASSUME NEW a \in Agent, NEW r \in Mis, NEW s, NEW t, RowAt(a, r, s, t) PROVE RowAt(a, r, s, t)'
    BY <1>1, <1>2, <1>3, <1>4, <1>5, <1>8 DEF RowAt
  <1> QED
    BY <1>5, <1>7, <1>8 DEF RowsGoOn

\* A mission that is opened is torn; if it is not the one that was read, it is known.
LEMMA OpenIs ==
  ASSUME IInv, NEW a \in Agent, NEW r \in Mis, NEW was, OpenMission(a, r, was)
  PROVE  /\ missions'[a][r] = Torn
         /\ \A b \in Agent, q \in Mis : b # a \/ q # r => missions'[b][q] = missions[b][q]
         /\ missions[a][r] = was \/ <<a, r>> \in raced'
         /\ raced \subseteq raced'
  <1>1. missions \in [Agent -> [Mis -> MissionRecord \cup {None, Torn}]] /\ missions' = [missions EXCEPT ![a][r] = Torn]
    BY DEF IInv, MissionsOk, OpenMission
  <1>2. /\ missions'[a][r] = Torn
        /\ \A b \in Agent, q \in Mis : b # a \/ q # r => missions'[b][q] = missions[b][q]
    BY <1>1
  <1>3. raced \subseteq raced' /\ Overtaken(a, missions, r, was) \subseteq raced'
    BY DEF OpenMission
  <1>4. missions[a][r] = was \/ <<a, r>> \in Overtaken(a, missions, r, was)
    BY DEF Overtaken
  <1> QED
    BY <1>2, <1>3, <1>4

LEMMA WriteIs ==
  ASSUME IInv, NEW a \in Agent, NEW r \in Mis, NEW m \in MissionRecord, WriteMission(a, r, m)
  PROVE  /\ missions'[a][r] = m
         /\ \A b \in Agent, q \in Mis : b # a \/ q # r => missions'[b][q] = missions[b][q]
  <1>1. missions \in [Agent -> [Mis -> MissionRecord \cup {None, Torn}]] /\ missions' = [missions EXCEPT ![a][r] = m]
    BY DEF IInv, MissionsOk, WriteMission
  <1> QED
    BY <1>1

\* A call records on top of what there was.
LEMMA RecordedKeeps ==
  ASSUME NEW m \in MissionRecord, NEW in, NEW t
  PROVE  LET g == RecordMission(m, in, t) IN
         /\ g.outcomes = Append(m.outcomes, [value |-> in.value, at |-> t, by |-> None])
         /\ \A s, u : RowIn(m, s, u) => RowIn(g, s, u)
  <1> DEFINE x == [value |-> in.value, at |-> t, by |-> None]
             q == m.outcomes
             p == Append(q, x)
             g == RecordMission(m, in, t)
  <1>1. g.outcomes = p
    BY DEF RecordMission, MissionRecord
  <1>2. q \in Seq(Outcome)
    BY DEF MissionRecord
  <1>3. \A n \in DOMAIN q : n \in DOMAIN p /\ p[n] = q[n]
    BY <1>2
  <1> HIDE DEF p, g
  <1>4. \A s, u : RowIn(m, s, u) => RowIn(g, s, u)
    BY <1>1, <1>3 DEF RowIn
  <1> QED
    BY <1>1, <1>4 DEF g, p

LEMMA OpenRecordedWrites ==
  ASSUME IInv, OneWriter, NEW o \in Op, OpenRecorded(o)
  PROVE  OneWriter' /\ RowsGoOn
  <1>1. PICK b, q, was, g : b = Agt(o) /\ q = call[o].at /\ was = call[o].was /\ g = Recorded(o)
    OBVIOUS
  <1>2. /\ call[o].pc = "read" /\ Plan[o].kind = "record" /\ OpenMission(b, q, was)
        /\ call' = [call EXCEPT ![o] = [call[o] EXCEPT !.pc = "open", !.was = g]]
        /\ host' = host
    BY <1>1 DEF OpenRecorded, Is, Go
  <1>3. b \in Agent /\ q \in Mis /\ (was = None \/ MissionOk(outbox, b, was)) /\ call \in [Op -> CallState]
    BY <1>1, <1>2, ImportsAssumption DEF ImportsAssumption, Agt, IInv, CallsOk, CallOk
  <1>4. /\ missions'[b][q] = Torn
        /\ \A a \in Agent, r \in Mis : a # b \/ r # q => missions'[a][r] = missions[a][r]
        /\ missions[b][q] = was \/ <<b, q>> \in raced'
        /\ raced \subseteq raced'
    BY <1>2, <1>3, OpenIs
  <1>5. was # Torn
    BY <1>3, ImportsAssumption DEF ImportsAssumption, MissionOk
  <1>6. /\ call'[o].pc = "open" /\ call'[o].at = q /\ call'[o].was = g
        /\ \A p \in Op : p # o => call'[p] = call[p]
    BY <1>1, <1>2, <1>3 DEF CallState
  <1>7. \A p \in Op : \A a, r : CallWrites(p, a, r)' <=> CallWrites(p, a, r) \/ (p = o /\ a = b /\ r = q)
    BY <1>1, <1>2, <1>6 DEF CallWrites, Agt
  <1>8. \A p \in Op : \A a, r : CallWrites(p, a, r) => call'[p].was = call[p].was
    BY <1>2, <1>6 DEF CallWrites
  <1>9. \A a, r : HostWrites(a, r)' <=> HostWrites(a, r)
    BY <1>2 DEF HostWrites
  <1>10. ASSUME NEW a \in Agent, NEW r \in Mis, Kept(a, r)' PROVE Sole(a, r)'
    <2>1. Sole(a, r)
      BY <1>4, <1>10 DEF OneWriter, Kept
    <2>2. CASE a = b /\ r = q
      <3>1. missions[b][q] # Torn
        BY <1>4, <1>5, <1>10, <2>2 DEF Kept
      <3>2. ~ HostWrites(a, r) /\ \A p \in Op : ~ CallWrites(p, a, r)
        BY <2>1, <2>2, <3>1 DEF Sole
      <3> QED
        BY <1>4, <1>7, <1>9, <2>2, <3>2 DEF Sole
    <2>3. CASE ~ (a = b /\ r = q)
      <3>1. missions'[a][r] = missions[a][r]
        BY <1>4, <2>3
      <3>2. \A p \in Op : CallWrites(p, a, r)' <=> CallWrites(p, a, r)
        BY <1>7, <2>3
      <3> QED
        BY <1>9, <2>1, <3>1, <3>2 DEF Sole
    <2> QED
      BY <2>2, <2>3
  <1>11. ASSUME NEW a \in Agent, NEW r \in Mis, NEW s, NEW t, RowAt(a, r, s, t), <<a, r>> \notin raced'
         PROVE  RowAt(a, r, s, t)'
    <2>1. CASE HostWrites(a, r) /\ RowIn(host[a].import.was, s, t)
      BY <1>2, <1>9, <2>1 DEF RowAt
    <2>2. CASE \E p \in Op : CallWrites(p, a, r) /\ RowIn(call[p].was, s, t)
      BY <1>7, <1>8, <2>2 DEF RowAt
    <2>3. CASE missions[a][r] \notin {None, Torn} /\ RowIn(missions[a][r], s, t)
      <3>1. CASE ~ (a = b /\ r = q)
        <4>1. missions'[a][r] = missions[a][r]
          BY <1>4, <3>1
        <4> QED
          BY <2>3, <4>1 DEF RowAt
      <3>2. CASE a = b /\ r = q
        <4>1. was = missions[a][r] /\ was # None /\ was \in MissionRecord
          BY <1>3, <1>4, <1>11, <2>3, <3>2 DEF MissionOk
        <4>2. g = RecordMission(was, [status |-> Plan[o].status, participants |-> {Plan[o].to}, key |-> Plan[o].key,
                                      value |-> Plan[o].value, shareable |-> Plan[o].shareable], now)
          BY <1>1, <4>1 DEF Recorded
        <4>3. PICK in, u : g = RecordMission(was, in, u)
          BY <4>2
        <4>4. RowIn(g, s, t)
          BY <2>3, <4>1, <4>3, RecordedKeeps
        <4>5. CallWrites(o, a, r)' /\ RowIn(call'[o].was, s, t)
          BY <1>6, <1>7, <3>2, <4>4
        <4> QED
          BY <4>5 DEF RowAt
      <3> QED
        BY <3>1, <3>2
    <2> QED
      BY <1>11, <2>1, <2>2, <2>3 DEF RowAt
  <1>12. OneWriter'
    BY <1>10 DEF OneWriter
  <1>13. RowsGoOn
    BY <1>4, <1>11 DEF RowsGoOn
  <1> QED
    BY <1>12, <1>13

LEMMA WriteRecordedWrites ==
  ASSUME IInv, OneWriter, NEW o \in Op, WriteRecorded(o)
  PROVE  OneWriter' /\ RowsGoOn
  <1>1. PICK b, q, m : b = Agt(o) /\ q = call[o].at /\ m = call[o].was
    OBVIOUS
  <1>2. /\ call[o].pc = "open" /\ WriteMission(b, q, m)
        /\ call' = [call EXCEPT ![o] = [call[o] EXCEPT !.pc = "done", !.ok = TRUE, !.was = None]]
        /\ host' = host /\ raced' = raced
    BY <1>1 DEF WriteRecorded, Is, Go
  <1>3. b \in Agent /\ q \in Mis /\ m \in MissionRecord /\ call \in [Op -> CallState]
    BY <1>1, <1>2, ImportsAssumption DEF ImportsAssumption, Agt, IInv, CallsOk, CallOk, MissionOk
  <1>4. m \notin {None, Torn}
    BY <1>3, ImportsAssumption DEF ImportsAssumption
  <1>5. /\ missions'[b][q] = m
        /\ \A a \in Agent, r \in Mis : a # b \/ r # q => missions'[a][r] = missions[a][r]
    BY <1>2, <1>3, WriteIs
  <1>6. call'[o].pc = "done" /\ \A p \in Op : p # o => call'[p] = call[p]
    BY <1>2, <1>3 DEF CallState
  <1>7. \A p \in Op : \A a, r : CallWrites(p, a, r)' <=> CallWrites(p, a, r) /\ p # o
    BY <1>6 DEF CallWrites, Agt
  <1>8. \A p \in Op : \A a, r : CallWrites(p, a, r) /\ p # o => call'[p].was = call[p].was
    BY <1>6 DEF CallWrites
  <1>9. \A a, r : HostWrites(a, r)' <=> HostWrites(a, r)
    BY <1>2 DEF HostWrites
  <1>10. CallWrites(o, b, q)
    BY <1>1, <1>2 DEF CallWrites
  <1>11. ASSUME NEW a \in Agent, NEW r \in Mis, Kept(a, r)' PROVE Sole(a, r)'
    <2>1. Sole(a, r)
      BY <1>2, <1>11 DEF OneWriter, Kept
    <2>2. CASE a = b /\ r = q
      <3>1. ~ HostWrites(a, r)' /\ \A p \in Op : ~ CallWrites(p, a, r)'
        BY <1>7, <1>9, <1>10, <2>1, <2>2 DEF Sole
      <3> QED
        BY <3>1 DEF Sole
    <2>3. CASE ~ (a = b /\ r = q)
      <3>1. missions'[a][r] = missions[a][r]
        BY <1>5, <2>3
      <3> QED
        BY <1>7, <1>9, <2>1, <3>1 DEF Sole
    <2> QED
      BY <2>2, <2>3
  <1>12. ASSUME NEW a \in Agent, NEW r \in Mis, NEW s, NEW t, RowAt(a, r, s, t), <<a, r>> \notin raced'
         PROVE  RowAt(a, r, s, t)'
    <2>1. CASE a = b /\ r = q
      <3>1. Sole(a, r)
        BY <1>2, <1>12 DEF OneWriter, Kept
      <3>2. missions[a][r] = Torn /\ ~ HostWrites(a, r) /\ \A p \in Op : CallWrites(p, a, r) => p = o
        BY <1>10, <2>1, <3>1 DEF Sole
      <3>3. RowIn(m, s, t)
        BY <1>1, <1>12, <3>2 DEF RowAt
      <3> QED
        BY <1>4, <1>5, <2>1, <3>3 DEF RowAt
    <2>2. CASE ~ (a = b /\ r = q)
      <3>1. missions'[a][r] = missions[a][r]
        BY <1>5, <2>2
      <3>2. \A p \in Op : CallWrites(p, a, r) => p # o
        BY <1>1, <2>2 DEF CallWrites
      <3> QED
        BY <1>2, <1>7, <1>8, <1>9, <1>12, <3>1, <3>2 DEF RowAt
    <2> QED
      BY <2>1, <2>2
  <1> QED
    BY <1>2, <1>11, <1>12 DEF OneWriter, RowsGoOn

LEMMA WriteImportedWrites ==
  ASSUME IInv, OneWriter, NEW b \in Agent, WriteImported(b)
  PROVE  OneWriter' /\ RowsGoOn
  <1>1. PICK i, q, m : i = host[b].import /\ q = i.at /\ m = i.was
    OBVIOUS
  <1>2. /\ i.pc = "open" /\ WriteMission(b, q, m)
        /\ host' = [host EXCEPT ![b] = [host[b] EXCEPT !.import = [i EXCEPT !.pc = "imported", !.was = None]]]
        /\ call' = call /\ raced' = raced
    BY <1>1 DEF WriteImported, Hosts
  <1>3. q \in Mis /\ m \in MissionRecord /\ i \in ImportState /\ host \in [Agent -> HostState]
    BY <1>1, <1>2, ImportIs DEF HostOk, MissionOk, IInv, HostsOk
  <1>4. m \notin {None, Torn}
    BY <1>3, ImportsAssumption DEF ImportsAssumption
  <1>5. /\ missions'[b][q] = m
        /\ \A a \in Agent, r \in Mis : a # b \/ r # q => missions'[a][r] = missions[a][r]
    BY <1>2, <1>3, WriteIs
  <1>6. host'[b].import.pc = "imported" /\ \A a \in Agent : a # b => host'[a] = host[a]
    <2>1. PICK j, h : j = [i EXCEPT !.pc = "imported", !.was = None] /\ h = [host[b] EXCEPT !.import = j]
      OBVIOUS
    <2>2. j.pc = "imported" /\ h.import = j
      BY <1>3, <2>1 DEF ImportState, HostState
    <2>3. host' = [host EXCEPT ![b] = h]
      BY <1>2, <2>1
    <2> QED
      BY <1>3, <2>2, <2>3
  <1>7. \A a \in Agent : \A r : HostWrites(a, r)' <=> HostWrites(a, r) /\ a # b
    BY <1>6 DEF HostWrites
  <1>8. \A a, r : \A p \in Op : CallWrites(p, a, r)' <=> CallWrites(p, a, r)
    BY <1>2 DEF CallWrites, Agt
  <1>9. HostWrites(b, q)
    BY <1>1, <1>2 DEF HostWrites
  <1>10. ASSUME NEW a \in Agent, NEW r \in Mis, Kept(a, r)' PROVE Sole(a, r)'
    <2>1. Sole(a, r)
      BY <1>2, <1>10 DEF OneWriter, Kept
    <2>2. CASE a = b /\ r = q
      <3>1. ~ HostWrites(a, r)' /\ \A p \in Op : ~ CallWrites(p, a, r)'
        BY <1>7, <1>8, <1>9, <2>1, <2>2 DEF Sole
      <3> QED
        BY <3>1 DEF Sole
    <2>3. CASE ~ (a = b /\ r = q)
      <3>1. missions'[a][r] = missions[a][r]
        BY <1>5, <2>3
      <3> QED
        BY <1>7, <1>8, <2>1, <3>1 DEF Sole
    <2> QED
      BY <2>2, <2>3
  <1>11. ASSUME NEW a \in Agent, NEW r \in Mis, NEW s, NEW t, RowAt(a, r, s, t), <<a, r>> \notin raced'
         PROVE  RowAt(a, r, s, t)'
    <2>1. CASE a = b /\ r = q
      <3>1. Sole(a, r)
        BY <1>2, <1>11 DEF OneWriter, Kept
      <3>2. missions[a][r] = Torn /\ \A p \in Op : ~ CallWrites(p, a, r)
        BY <1>9, <2>1, <3>1 DEF Sole
      <3>3. RowIn(m, s, t)
        BY <1>1, <1>11, <2>1, <3>2 DEF RowAt
      <3> QED
        BY <1>4, <1>5, <2>1, <3>3 DEF RowAt
    <2>2. CASE ~ (a = b /\ r = q)
      <3>1. missions'[a][r] = missions[a][r]
        BY <1>5, <2>2
      <3>2. HostWrites(a, r) => a # b
        BY <1>1, <2>2 DEF HostWrites
      <3> QED
        BY <1>2, <1>6, <1>7, <1>8, <1>11, <3>1, <3>2 DEF RowAt
    <2> QED
      BY <2>1, <2>2
  <1> QED
    BY <1>2, <1>10, <1>11 DEF OneWriter, RowsGoOn

\* The import of a mission keeps the rows there were, and has those of the message.
LEMMA LandingRows ==
  ASSUME IInv, NEW a \in Agent, NEW i, i = host[a].import, i.pc = "read", i.file.kind = "share_mission"
  PROVE  LET m == IF i.was = None THEN NewMission ELSE i.was
             g == MissionLanding(i)
         IN  /\ MissionOk(outbox, a, m) /\ MissionOk(outbox, a, g)
             /\ MissionMerged(g, m, i.file.env, i.file.from)
  <1>1. PICK f : f = i.file
    OBVIOUS
  <1>2. f \in host[a].batch /\ f.kind = "share_mission" /\ i.at \in Mis /\ (i.was # None => MissionOk(outbox, a, i.was))
    BY <1>1 DEF IInv, HostsOk, HostOk
  <1>3. PICK o \in Op : f.to = a /\ IsOf(outbox, f, o) /\ LetterOk(now, o, outbox[o])
    BY <1>2, InBatch
  <1>4. PICK ob, t : ob = outbox /\ t = now
    OBVIOUS
  <1>5. PICK m : m = IF i.was = None THEN NewMission ELSE i.was
    OBVIOUS
  <1>6. MissionOk(ob, a, m)
    BY <1>2, <1>4, <1>5, NewMissionOk
  <1>7. /\ MissionOk(ob, a, ApplyToMission(m, f.env, f.from))
        /\ MissionMerged(ApplyToMission(m, f.env, f.from), m, f.env, f.from)
    BY <1>2, <1>3, <1>4, <1>6, MissionAppliedOk, ImportsAssumption
  <1> QED
    BY <1>1, <1>4, <1>5, <1>6, <1>7 DEF MissionLanding

LEMMA OpenImportedWrites ==
  ASSUME IInv, OneWriter, NEW b \in Agent, OpenImported(b), NEW f, f = host[b].import.file
  PROVE  /\ OneWriter' /\ RowsGoOn
         /\ \A n \in DOMAIN f.env.outcomes : \E r \in Mis : RowAt(b, r, f.from, f.env.outcomes[n].at)'
  <1>1. PICK i, q, was, g : /\ i = host[b].import /\ q = i.at /\ was = i.was /\ g = MissionLanding(i) /\ f = i.file
    OBVIOUS
  <1>2. /\ i.pc = "read" /\ f.kind = "share_mission" /\ OpenMission(b, q, was)
        /\ host' = [host EXCEPT ![b] = [host[b] EXCEPT !.import = [i EXCEPT !.pc = "open", !.was = g]]]
        /\ call' = call
    BY <1>1 DEF OpenImported, Hosts, MissionLanding
  <1>3. q \in Mis /\ i \in ImportState /\ host \in [Agent -> HostState] /\ f \in host[b].batch
    BY <1>1, <1>2, ImportIs DEF HostOk, IInv, HostsOk
  <1>4. PICK m : m = IF was = None THEN NewMission ELSE was
    OBVIOUS
  <1>5. /\ MissionOk(outbox, b, m) /\ MissionOk(outbox, b, g)
        /\ RowsMerged(g.outcomes, m.outcomes, f.env.outcomes, f.from)
    BY <1>1, <1>2, <1>4, LandingRows DEF MissionMerged
  <1>6. m \in MissionRecord /\ g \in MissionRecord /\ g.outcomes \in Seq(Outcome) /\ m.outcomes \in Seq(Outcome)
    BY <1>5 DEF MissionOk, MissionRecord
  <1>7. was # Torn
    BY <1>4, <1>6, ImportsAssumption DEF ImportsAssumption
  <1>8. f.env.outcomes \in Seq(Outcome)
    <2>1. PICK o \in Op : IsOf(outbox, f, o) /\ LetterOk(now, o, outbox[o])
      BY <1>3, InBatch
    <2>2. f.env \in Ledger
      BY <1>2, <2>1 DEF IsOf, LetterOk
    <2> QED
      BY <2>2 DEF Ledger
  <1>9. /\ missions'[b][q] = Torn
        /\ \A a \in Agent, r \in Mis : a # b \/ r # q => missions'[a][r] = missions[a][r]
        /\ missions[b][q] = was \/ <<b, q>> \in raced'
        /\ raced \subseteq raced'
    BY <1>2, <1>3, OpenIs
  <1>10. /\ host'[b].import.pc = "open" /\ host'[b].import.at = q /\ host'[b].import.was = g
         /\ \A a \in Agent : a # b => host'[a] = host[a]
    <2>1. PICK j, h : j = [i EXCEPT !.pc = "open", !.was = g] /\ h = [host[b] EXCEPT !.import = j]
      OBVIOUS
    <2>2. j.pc = "open" /\ j.at = q /\ j.was = g /\ h.import = j
      BY <1>1, <1>3, <2>1 DEF ImportState, HostState
    <2>3. host' = [host EXCEPT ![b] = h]
      BY <1>2, <2>1
    <2> QED
      BY <1>3, <2>2, <2>3
  <1>11. \A a \in Agent : \A r : HostWrites(a, r)' <=> HostWrites(a, r) \/ (a = b /\ r = q)
    BY <1>1, <1>2, <1>10 DEF HostWrites
  <1>12. \A a, r : \A p \in Op : CallWrites(p, a, r)' <=> CallWrites(p, a, r)
    BY <1>2 DEF CallWrites, Agt
  <1>13. \A s, t : RowIn(m, s, t) => RowIn(g, s, t)
    BY <1>5, <1>6 DEF RowsMerged, RowIn
  <1>14. \A n \in DOMAIN f.env.outcomes : RowIn(g, f.from, f.env.outcomes[n].at)
    <2>1. PICK x, y, z : x = f.env.outcomes /\ y = g.outcomes /\ z = m.outcomes
      OBVIOUS
    <2>2. \A n \in 1..Len(x) : \E k \in 1..Len(y) : y[k].by = f.from /\ y[k].at = x[n].at
      BY <1>5, <2>1 DEF RowsMerged
    <2>3. DOMAIN x = 1..Len(x) /\ DOMAIN y = 1..Len(y)
      BY <1>6, <1>8, <2>1
    <2>4. \A n \in DOMAIN x : \E k \in DOMAIN y : y[k].by = f.from /\ y[k].at = x[n].at
      BY ONLY <2>2, <2>3, Zenon
    <2> QED
      BY <2>1, <2>4 DEF RowIn
  <1>15. ASSUME NEW a \in Agent, NEW r \in Mis, Kept(a, r)' PROVE Sole(a, r)'
    <2>1. Sole(a, r)
      BY <1>9, <1>15 DEF OneWriter, Kept
    <2>2. CASE a = b /\ r = q
      <3>1. missions[b][q] # Torn
        BY <1>7, <1>9, <1>15, <2>2 DEF Kept
      <3>2. ~ HostWrites(a, r) /\ \A p \in Op : ~ CallWrites(p, a, r)
        BY <2>1, <2>2, <3>1 DEF Sole
      <3> QED
        BY <1>9, <1>12, <2>2, <3>2 DEF Sole
    <2>3. CASE ~ (a = b /\ r = q)
      <3>1. missions'[a][r] = missions[a][r]
        BY <1>9, <2>3
      <3>2. HostWrites(a, r)' <=> HostWrites(a, r)
        BY <1>11, <2>3
      <3> QED
        BY <1>12, <2>1, <3>1, <3>2 DEF Sole
    <2> QED
      BY <2>2, <2>3
  <1>16. ASSUME NEW a \in Agent, NEW r \in Mis, NEW s, NEW t, RowAt(a, r, s, t), <<a, r>> \notin raced'
         PROVE  RowAt(a, r, s, t)'
    <2>1. CASE HostWrites(a, r) /\ RowIn(host[a].import.was, s, t)
      <3>1. a # b
        BY <1>1, <1>2, <2>1 DEF HostWrites
      <3> QED
        BY <1>10, <1>11, <2>1, <3>1 DEF RowAt
    <2>2. CASE \E p \in Op : CallWrites(p, a, r) /\ RowIn(call[p].was, s, t)
      BY <1>2, <1>12, <2>2 DEF RowAt
    <2>3. CASE missions[a][r] \notin {None, Torn} /\ RowIn(missions[a][r], s, t)
      <3>1. CASE ~ (a = b /\ r = q)
        <4>1. missions'[a][r] = missions[a][r]
          BY <1>9, <3>1
        <4> QED
          BY <2>3, <4>1 DEF RowAt
      <3>2. CASE a = b /\ r = q
        <4>1. m = missions[a][r]
          BY <1>4, <1>9, <1>16, <2>3, <3>2
        <4>2. HostWrites(a, r)' /\ RowIn(host'[a].import.was, s, t)
          BY <1>10, <1>11, <1>13, <2>3, <3>2, <4>1
        <4> QED
          BY <4>2 DEF RowAt
      <3> QED
        BY <3>1, <3>2
    <2> QED
      BY <1>16, <2>1, <2>2, <2>3 DEF RowAt
  <1>17. ASSUME NEW n \in DOMAIN f.env.outcomes PROVE RowAt(b, q, f.from, f.env.outcomes[n].at)'
    <2>1. HostWrites(b, q)' /\ RowIn(host'[b].import.was, f.from, f.env.outcomes[n].at)
      BY <1>10, <1>11, <1>14
    <2> QED
      BY <2>1 DEF RowAt
  <1>18. OneWriter' /\ RowsGoOn
    BY <1>9, <1>15, <1>16 DEF OneWriter, RowsGoOn
  <1> QED
    BY <1>3, <1>17, <1>18

\* A crash leaves what was being written torn, and it is known.
LEMMA CrashWrites ==
  ASSUME IInv, OneWriter, NEW b \in Agent, Crash(b)
  PROVE  OneWriter' /\ RowsGoOn
  <1>1. /\ call' = [o \in Op |-> IF Agt(o) = b /\ call[o].pc \in {"read", "open"}
                                 THEN [call[o] EXCEPT !.pc = "done", !.was = None] ELSE call[o]]
        /\ host' = [host EXCEPT ![b] = [batch |-> {}, import |-> NoImport]]
        /\ raced' = raced \cup {<<b, r>> : r \in {r \in Mis : missions[b][r] = Torn}}
        /\ missions' = missions
    BY DEF Crash
  <1>2. host'[b].import.pc = "idle" /\ \A a \in Agent : a # b => host'[a] = host[a]
    <2>1. PICK h : h = [batch |-> {}, import |-> NoImport]
      OBVIOUS
    <2>2. h.import.pc = "idle" /\ host' = [host EXCEPT ![b] = h]
      BY <1>1, <2>1 DEF NoImport
    <2> QED
      BY <2>2 DEF IInv, HostsOk
  <1>3. \A a \in Agent : \A r : HostWrites(a, r)' <=> HostWrites(a, r) /\ a # b
    BY <1>2 DEF HostWrites
  <1>4. ASSUME NEW o \in Op
        PROVE  IF Agt(o) = b /\ call[o].pc = "open" THEN call'[o].pc = "done"
               ELSE (call[o].pc = "open" \/ call'[o].pc = "open" => call'[o] = call[o])
    <2>1. CASE Agt(o) = b /\ call[o].pc \in {"read", "open"}
      <3>1. PICK c : c = [call[o] EXCEPT !.pc = "done", !.was = None]
        OBVIOUS
      <3>2. c.pc = "done"
        BY <3>1 DEF IInv, CallsOk, CallState
      <3>3. call'[o] = c
        BY <1>1, <2>1, <3>1
      <3> QED
        BY <2>1, <3>2, <3>3
    <2>2. CASE ~ (Agt(o) = b /\ call[o].pc \in {"read", "open"})
      <3>1. call'[o] = call[o]
        BY <1>1, <2>2
      <3> QED
        BY <2>2, <3>1
    <2> QED
      BY <2>1, <2>2
  <1>5. \A o \in Op : \A a, r : CallWrites(o, a, r)' <=> CallWrites(o, a, r) /\ a # b
    BY <1>4 DEF CallWrites, Agt
  <1>6. \A o \in Op : \A a, r : CallWrites(o, a, r) /\ a # b => call'[o].was = call[o].was
    BY <1>4 DEF CallWrites, Agt
  <1>7. ASSUME NEW a \in Agent, NEW r \in Mis, Kept(a, r)' PROVE Sole(a, r)'
    <2>1. Sole(a, r)
      BY <1>1, <1>7 DEF OneWriter, Kept
    <2> QED
      BY <1>1, <1>3, <1>5, <2>1 DEF Sole
  <1>8. ASSUME NEW a \in Agent, NEW r \in Mis, NEW s, NEW t, RowAt(a, r, s, t), <<a, r>> \notin raced'
        PROVE  RowAt(a, r, s, t)'
    <2>1. CASE a = b
      <3>1. missions[a][r] # Torn
        BY <1>1, <1>8, <2>1
      <3>2. Sole(a, r)
        BY <1>1, <1>8 DEF OneWriter, Kept
      <3>3. missions[a][r] \notin {None, Torn} /\ RowIn(missions[a][r], s, t)
        BY <1>8, <3>1, <3>2 DEF RowAt, Sole
      <3> QED
        BY <1>1, <3>3 DEF RowAt
    <2>2. CASE a # b
      BY <1>1, <1>2, <1>3, <1>5, <1>6, <1>8, <2>2 DEF RowAt
    <2> QED
      BY <2>1, <2>2
  <1> QED
    BY <1>1, <1>7, <1>8 DEF OneWriter, RowsGoOn

\* No other step is a writer's.
LEMMA CallsQuiet ==
  ASSUME IInv, NEW o \in Op, CallStep(o), ~ OpenRecorded(o), ~ WriteRecorded(o)
  PROVE  Quiet
  <1>1. ASSUME NEW c, c.pc # "open", call[o].pc # "open", call' = [call EXCEPT ![o] = c],
               UNCHANGED <<missions, host>>, raced \subseteq raced'
        PROVE  Quiet
    <2>1. call'[o] = c /\ \A p \in Op : p # o => call'[p] = call[p]
      BY <1>1 DEF IInv, CallsOk
    <2> QED
      BY <1>1, <2>1 DEF Quiet
  <1>2. call[o] \in CallState
    BY DEF IInv, CallsOk
  <1>3. ASSUME NEW g, call[o].pc = "read", Put(o, g) PROVE Quiet
    <2>1. PICK c : c = [call[o] EXCEPT !.pc = "done", !.ok = TRUE, !.was = None]
      OBVIOUS
    <2>2. c.pc = "done"
      BY <1>2, <2>1 DEF CallState
    <2>3. call' = [call EXCEPT ![o] = c] /\ UNCHANGED <<missions, host>> /\ raced \subseteq raced'
      BY <1>3, <2>1 DEF Put, Go, PutFriend
    <2> QED
      BY <1>1, <1>3, <2>2, <2>3
  <1>4. CASE SaveNote(o) \/ RecordInteraction(o) \/ ChangeIds(o)
    BY <1>3, <1>4 DEF SaveNote, RecordInteraction, ChangeIds, Is
  <1>5. ASSUME NEW r \in Rec, GetFriend(o, r) PROVE Quiet
    <2>1. PICK c : c = [NoCall EXCEPT
            !.pc = IF Plan[o].kind = "note" /\ OverrideRequired(friends[Agt(o)][r], Plan[o].key, Plan[o].override)
                   THEN "done" ELSE "read",
            !.at = r, !.was = friends[Agt(o)][r]]
      OBVIOUS
    <2>2. c.pc # "open"
      BY <2>1 DEF NoCall
    <2>3. call[o].pc = "todo" /\ call' = [call EXCEPT ![o] = c] /\ UNCHANGED <<missions, host>> /\ raced \subseteq raced'
      BY <1>5, <2>1 DEF GetFriend, Go
    <2> QED
      BY <1>1, <2>2, <2>3
  <1>6. CASE GetMission(o)
    <2>1. PICK f \in Found(Agt(o)) : Go(o, [NoCall EXCEPT !.pc = "read", !.at = f[1], !.was = f[2]])
      BY <1>6 DEF GetMission
    <2>2. PICK c : c = [NoCall EXCEPT !.pc = "read", !.at = f[1], !.was = f[2]]
      OBVIOUS
    <2>3. c.pc # "open"
      BY <2>2 DEF NoCall
    <2>4. call[o].pc = "todo" /\ call' = [call EXCEPT ![o] = c] /\ UNCHANGED <<missions, host>> /\ raced \subseteq raced'
      BY <1>6, <2>1, <2>2 DEF GetMission, Go
    <2> QED
      BY <1>1, <2>3, <2>4
  <1>7. CASE Send(o)
    <2>1. PICK c : c = [call[o] EXCEPT !.pc = "done", !.ok = TRUE, !.was = None]
      OBVIOUS
    <2>2. c.pc = "done"
      BY <1>2, <2>1 DEF CallState
    <2>3. call[o].pc = "read" /\ call' = [call EXCEPT ![o] = c] /\ UNCHANGED <<missions, host>> /\ raced \subseteq raced'
      BY <1>7, <2>1 DEF Send, Is, Go
    <2> QED
      BY <1>1, <2>2, <2>3
  <1> QED
    BY <1>4, <1>5, <1>6, <1>7 DEF CallStep

LEMMA HostsQuiet ==
  ASSUME IInv, NEW a \in Agent, HostStep(a), ~ OpenImported(a), ~ WriteImported(a)
  PROVE  Quiet
  <1>1. ASSUME NEW h, h.import.pc # "open", host[a].import.pc # "open", host' = [host EXCEPT ![a] = h],
               UNCHANGED <<missions, call>>, raced \subseteq raced'
        PROVE  Quiet
    <2>1. host'[a] = h /\ \A b \in Agent : b # a => host'[b] = host[b]
      BY <1>1 DEF IInv, HostsOk
    <2> QED
      BY <1>1, <2>1 DEF Quiet
  <1>2. host[a] \in HostState /\ host[a].import \in ImportState
    BY DEF IInv, HostsOk, HostState
  <1>3. ASSUME NEW i, i.pc # "open", host[a].import.pc # "open", Hosts(a, [host[a] EXCEPT !.import = i]),
               UNCHANGED <<missions, call>>, raced \subseteq raced'
        PROVE  Quiet
    <2>1. PICK h : h = [host[a] EXCEPT !.import = i]
      OBVIOUS
    <2>2. h.import = i
      BY <1>2, <2>1 DEF HostState
    <2> QED
      BY <1>1, <1>3, <2>1, <2>2 DEF Hosts
  <1>4. ASSUME NEW rest, host[a].import.pc # "open", Hosts(a, [batch |-> rest, import |-> NoImport]),
               UNCHANGED <<missions, call, raced>>
        PROVE  Quiet
    <2>1. PICK h : h = [batch |-> rest, import |-> NoImport]
      OBVIOUS
    <2>2. h.import.pc # "open"
      BY <2>1 DEF NoImport
    <2> QED
      BY <1>1, <1>4, <2>1, <2>2 DEF Hosts
  <1>5. CASE Poll(a)
    BY <1>4, <1>5 DEF Poll
  <1>6. CASE Mark(a)
    BY <1>4, <1>6 DEF Mark, Marks
  <1>7. CASE ImportProfile(a)
    <2>1. PICK i, j : i = host[a].import /\ j = [i EXCEPT !.pc = "imported", !.was = None]
      OBVIOUS
    <2>2. j.pc = "imported"
      BY <1>2, <2>1 DEF ImportState
    <2> QED
      BY <1>3, <1>7, <2>1, <2>2 DEF ImportProfile, PutFriend
  <1>8. CASE StartImport(a)
    <2>1. PICK f :
            \/ Hosts(a, [host[a] EXCEPT !.import = [NoImport EXCEPT !.pc = "imported", !.file = f]])
            \/ \E t \in Targets(a, f) :
                 Hosts(a, [host[a] EXCEPT !.import = [pc |-> "read", at |-> t[1], was |-> t[2], file |-> f]])
      BY <1>8 DEF StartImport
    <2>2. host[a].import.pc = "idle" /\ UNCHANGED <<missions, call>> /\ raced \subseteq raced'
      BY <1>8 DEF StartImport
    <2>3. CASE Hosts(a, [host[a] EXCEPT !.import = [NoImport EXCEPT !.pc = "imported", !.file = f]])
      <3>1. PICK i : i = [NoImport EXCEPT !.pc = "imported", !.file = f]
        OBVIOUS
      <3>2. i.pc = "imported"
        BY <3>1 DEF NoImport
      <3> QED
        BY <1>3, <2>2, <2>3, <3>1, <3>2
    <2>4. ASSUME NEW t, Hosts(a, [host[a] EXCEPT !.import = [pc |-> "read", at |-> t[1], was |-> t[2], file |-> f]])
          PROVE  Quiet
      <3>1. PICK i : i = [pc |-> "read", at |-> t[1], was |-> t[2], file |-> f]
        OBVIOUS
      <3>2. i.pc = "read"
        BY <3>1
      <3> QED
        BY <1>3, <2>2, <2>4, <3>1, <3>2
    <2> QED
      BY <2>1, <2>3, <2>4
  <1> QED
    BY <1>5, <1>6, <1>7, <1>8 DEF HostStep

LEMMA NextWrites ==
  ASSUME IInv, OneWriter, [Next]_vars
  PROVE  OneWriter' /\ RowsGoOn
  <1>1. ASSUME NEW o \in Op, CallStep(o) PROVE OneWriter' /\ RowsGoOn
    BY <1>1, CallsQuiet, QuietKeeps, OpenRecordedWrites, WriteRecordedWrites
  <1>2. ASSUME NEW a \in Agent, HostStep(a) PROVE OneWriter' /\ RowsGoOn
    <2>1. PICK f : f = host[a].import.file
      OBVIOUS
    <2>2. OpenImported(a) => OneWriter' /\ RowsGoOn
      BY <2>1, OpenImportedWrites
    <2> QED
      BY <1>2, <2>2, HostsQuiet, QuietKeeps, WriteImportedWrites
  <1>3. ASSUME Tick \/ UNCHANGED vars PROVE OneWriter' /\ RowsGoOn
    <2>1. Quiet
      BY <1>3 DEF Tick, vars, Quiet
    <2> QED
      BY <2>1, QuietKeeps
  <1> QED
    BY <1>1, <1>2, <1>3, CrashWrites DEF Next

LEMMA InitWrites ==
  ASSUME Init
  PROVE  OneWriter
  <1>1. \A o \in Op : call[o].pc = "todo"
    BY DEF Init, NoCall
  <1>2. \A a \in Agent : host[a].import.pc = "idle"
    <2> SUFFICES ASSUME NEW a \in Agent PROVE host[a].import.pc = "idle"
      OBVIOUS
    <2>1. host[a] = [batch |-> {}, import |-> NoImport]
      BY DEF Init
    <2> QED
      BY <2>1 DEF NoImport
  <1> QED
    BY <1>1, <1>2 DEF OneWriter, Sole, CallWrites, HostWrites

-----------------------------------------------------------------------------
(* What peers told is held.                                                *)

\* A record has what s told of k at the moment t, or later.
ToldAt(a, r, s, k, t) ==
  \E o \in Op : /\ Wrote(outbox, s, a, o) /\ outbox[o].kind = "share_profile" /\ outbox[o].at >= t
                /\ k \in DOMAIN outbox[o].env.notes
                /\ friends[a][r].imported[s][k] = outbox[o].env.notes[k]

\* A step after which the records that are kept have what they had, unless it imports
\* what the same peer told earlier.
Replaces(a, s, t) == ImportProfile(a) /\ host[a].import.file.from = s /\ ~ (t <= host[a].import.file.at)

ToldGoesOn ==
  /\ raced \subseteq raced' /\ \A a \in Agent : Records(a) \subseteq Records(a)'
  /\ \A a \in Agent, r \in Rec, s \in Agent, k \in Key, t \in Nat :
       r \in Records(a) /\ ToldAt(a, r, s, k, t) => ToldAt(a, r, s, k, t)' \/ <<a, r>> \in raced' \/ Replaces(a, s, t)

LEMMA RecordsStay ==
  ASSUME friends' = friends, raced \subseteq raced', More(outbox, outbox')
  PROVE  ToldGoesOn
  <1>1. \A s, a : \A o \in Op : Wrote(outbox, s, a, o) => Wrote(outbox, s, a, o)' /\ outbox'[o] = outbox[o]
    BY DEF More, Wrote, Agt
  <1>2. \A a : Records(a)' = Records(a)
    BY DEF Records
  <1> QED
    BY <1>1, <1>2 DEF ToldGoesOn, ToldAt

\* A put that keeps what was imported.
LEMMA PutsTold ==
  ASSUME IInv, NEW b \in Agent, NEW q \in Rec, NEW was, NEW g \in FriendRecord, PutFriend(b, q, was, g),
         g.imported = was.imported, outbox' = outbox
  PROVE  ToldGoesOn
  <1>1. /\ friends'[b][q] = g
        /\ friends[b][q] = was \/ <<b, q>> \in raced'
        /\ raced \subseteq raced'
    BY PutIs
  <1>2. \A a \in Agent, r \in Rec : a # b \/ r # q => friends'[a][r] = friends[a][r]
    BY PutIs
  <1>3. g # None
    BY ImportsAssumption DEF ImportsAssumption
  <1>4. \A a \in Agent : Records(a) \subseteq Records(a)'
    BY <1>1, <1>2, <1>3 DEF Records
  <1>5. ASSUME NEW a \in Agent, NEW r \in Rec, NEW s, NEW k, NEW t, ToldAt(a, r, s, k, t), <<a, r>> \notin raced'
        PROVE  ToldAt(a, r, s, k, t)'
    <2>1. friends'[a][r].imported = friends[a][r].imported
      BY <1>1, <1>2, <1>5
    <2> QED
      BY <1>5, <2>1 DEF ToldAt, Wrote, Agt
  <1> QED
    BY <1>1, <1>4, <1>5 DEF ToldGoesOn

\* What an import of a profile leaves of what was imported.
LEMMA LandingImports ==
  ASSUME IInv, NEW b \in Agent, NEW i, i = host[b].import, i.pc = "read", i.file.kind = "share_profile"
  PROVE  LET f == i.file
             g == Landing(i)
         IN  /\ f \in File /\ f.env \in Profile /\ g \in FriendRecord /\ i.at \in Rec
             /\ \A k \in Key : k \in DOMAIN f.env.notes => g.imported[f.from][k] = f.env.notes[k]
             /\ i.was # None => \A s \in Agent, k \in Key :
                  s # f.from \/ k \notin DOMAIN f.env.notes => g.imported[s][k] = i.was.imported[s][k]
             /\ \E o \in Op : IsOf(outbox, f, o) /\ LetterOk(now, o, outbox[o]) /\ f.to = b
  <1>1. PICK f : f = i.file
    OBVIOUS
  <1>2. f \in host[b].batch /\ (i.was # None => FriendOk(outbox, b, i.was))
    BY <1>1 DEF IInv, HostsOk, HostOk
  <1>3. PICK o \in Op : f.to = b /\ IsOf(outbox, f, o) /\ LetterOk(now, o, outbox[o])
    BY <1>2, InBatch
  <1>4. f \in File /\ f.env \in Profile /\ f.from \in Agent
    <2>1. f \in File
      BY <1>2, InBatch
    <2>2. f.env \in Profile
      BY <1>1, <1>3 DEF IsOf, LetterOk
    <2> QED
      BY <2>1, <2>2 DEF File
  <1>5. PICK x, g, told : /\ x = (IF i.was = None THEN SeedRecord(f.env, f.from) ELSE i.was) /\ g = Landing(i)
                          /\ told = f.env.notes
    OBVIOUS
  <1>6. i.at \in Rec /\ g \in FriendRecord
    BY <1>1, <1>5, LandingOk DEF FriendOk
  <1>7. x \in FriendRecord /\ x.imported \in [Agent -> [Key -> Told \cup {None}]]
    <2>1. FriendOk(outbox, b, SeedRecord(f.env, f.from))
      <3>1. PICK ob, t : ob = outbox /\ t = now
        OBVIOUS
      <3> QED
        BY <1>1, <1>3, <3>1, SeedOk, ImportsAssumption
    <2>2. x \in FriendRecord
      BY <1>2, <1>5, <2>1 DEF FriendOk
    <2> QED
      BY <2>2 DEF FriendRecord
  <1>8. g.imported = MergeImported(x.imported, told, f.from)
    <2>1. g = ApplyToRecord(x, f.env, f.from)
      BY <1>1, <1>5 DEF Landing
    <2>2. \A c : [x EXCEPT !.imported = MergeImported(@, told, f.from), !.claims = c].imported
                   = MergeImported(x.imported, told, f.from)
      BY <1>7 DEF FriendRecord
    <2>3. PICK env, from : env = f.env /\ from = f.from /\ told = env.notes
      BY <1>5
    <2>4. \E c : ApplyToRecord(x, env, from) = [x EXCEPT !.imported = MergeImported(@, env.notes, from), !.claims = c]
      BY ONLY DEF ApplyToRecord
    <2> QED
      BY ONLY <2>1, <2>2, <2>3, <2>4
  <1>9. \A k \in Key : k \in DOMAIN told => g.imported[f.from][k] = told[k]
    BY <1>4, <1>7, <1>8 DEF MergeImported
  <1>10. \A s \in Agent, k \in Key : s # f.from \/ k \notin DOMAIN told => g.imported[s][k] = x.imported[s][k]
    BY <1>4, <1>7, <1>8 DEF MergeImported
  <1> QED
    BY <1>1, <1>3, <1>4, <1>5, <1>6, <1>9, <1>10

LEMMA NotesOf ==
  ASSUME NEW env \in Profile \cup Ledger
  PROVE  DOMAIN env.notes \subseteq Key /\ \A k \in DOMAIN env.notes : env.notes[k] \in Told
  <1>1. env.notes \in Notes
    BY DEF Profile, Ledger
  <1>2. PICK K \in SUBSET Key : env.notes \in [K -> Told]
    BY <1>1 DEF Notes
  <1> QED
    BY <1>2

LEMMA ImportProfileTold ==
  ASSUME IInv, NEW b \in Agent, ImportProfile(b), NEW f, f = host[b].import.file
  PROVE  /\ ToldGoesOn /\ f.kind = "share_profile"
         /\ \A k \in DOMAIN f.env.notes : \E r \in Rec : r \in Records(b)' /\ ToldAt(b, r, f.from, k, f.at)'
  <1>1. PICK i, q, was, g : i = host[b].import /\ q = i.at /\ was = i.was /\ g = Landing(i)
    OBVIOUS
  <1>2. i.pc = "read" /\ i.file = f /\ f.kind = "share_profile" /\ PutFriend(b, q, was, g) /\ outbox' = outbox
    BY <1>1 DEF ImportProfile, Landing
  <1>3. /\ f \in File /\ f.env \in Profile /\ g \in FriendRecord /\ q \in Rec
        /\ \A k \in Key : k \in DOMAIN f.env.notes => g.imported[f.from][k] = f.env.notes[k]
        /\ was # None => \A s \in Agent, k \in Key :
             s # f.from \/ k \notin DOMAIN f.env.notes => g.imported[s][k] = was.imported[s][k]
        /\ \E o \in Op : IsOf(outbox, f, o) /\ LetterOk(now, o, outbox[o]) /\ f.to = b
    BY <1>1, <1>2, LandingImports
  <1>4. /\ friends'[b][q] = g
        /\ friends[b][q] = was \/ <<b, q>> \in raced'
        /\ raced \subseteq raced'
    BY <1>2, <1>3, PutIs
  <1>5. \A a \in Agent, r \in Rec : a # b \/ r # q => friends'[a][r] = friends[a][r]
    BY <1>2, <1>3, PutIs
  <1>6. g # None
    BY <1>3, ImportsAssumption DEF ImportsAssumption
  <1>7. \A a \in Agent : Records(a) \subseteq Records(a)'
    BY <1>4, <1>5, <1>6 DEF Records
  <1>8. q \in Records(b)'
    BY <1>3, <1>4, <1>6 DEF Records
  <1>9. DOMAIN f.env.notes \subseteq Key /\ f.at \in Nat
    <2>1. f.at \in Nat
      BY <1>3 DEF File
    <2> QED
      BY <1>3, <2>1, NotesOf
  <1>10. ASSUME NEW k \in DOMAIN f.env.notes PROVE ToldAt(b, q, f.from, k, f.at)'
    <2>1. PICK o \in Op : IsOf(outbox, f, o) /\ f.to = b
      BY <1>3
    <2>2. /\ outbox[o] # None /\ Agt(o) = f.from /\ outbox[o].to = b /\ outbox[o].kind = "share_profile"
          /\ outbox[o].at = f.at /\ outbox[o].env = f.env
      BY <1>2, <2>1 DEF IsOf
    <2>3. friends'[b][q].imported[f.from][k] = f.env.notes[k]
      BY <1>3, <1>4, <1>9
    <2>4. f.at >= f.at
      BY <1>9
    <2> QED
      BY <1>2, <2>2, <2>3, <2>4 DEF ToldAt, Wrote, Agt
  <1>11. ASSUME NEW a \in Agent, NEW r \in Rec, NEW s \in Agent, NEW k \in Key, NEW t \in Nat, r \in Records(a),
                ToldAt(a, r, s, k, t), <<a, r>> \notin raced', ~ Replaces(a, s, t)
         PROVE  ToldAt(a, r, s, k, t)'
    <2>1. CASE a # b \/ r # q
      <3>1. friends'[a][r] = friends[a][r]
        BY <1>5, <2>1
      <3> QED
        BY <1>2, <1>11, <3>1 DEF ToldAt, Wrote, Agt
    <2>2. CASE a = b /\ r = q /\ (s # f.from \/ k \notin DOMAIN f.env.notes)
      <3>1. was # None /\ friends[a][r] = was /\ friends'[a][r] = g
        BY <1>4, <1>11, <2>2 DEF Records
      <3>2. friends'[a][r].imported[s][k] = friends[a][r].imported[s][k]
        BY <1>3, <2>2, <3>1
      <3> QED
        BY <1>2, <1>11, <3>2 DEF ToldAt, Wrote, Agt
    <2>3. CASE a = b /\ r = q /\ s = f.from /\ k \in DOMAIN f.env.notes
      <3>1. t <= f.at
        BY <1>1, <1>2, <1>11, <2>3 DEF Replaces
      <3>2. PICK o \in Op : /\ Wrote(outbox, s, a, o)' /\ outbox'[o].kind = "share_profile" /\ outbox'[o].at >= f.at
                            /\ k \in DOMAIN outbox'[o].env.notes
                            /\ friends'[a][r].imported[s][k] = outbox'[o].env.notes[k]
        BY <1>10, <2>3 DEF ToldAt
      <3>3. outbox'[o].at \in Nat
        <4>1. outbox[o] \in File
          BY <1>2, <3>2 DEF Wrote, IInv, LettersOk
        <4> QED
          BY <1>2, <4>1 DEF File
      <3>4. outbox'[o].at >= t
        BY <1>9, <3>1, <3>2, <3>3
      <3> QED
        BY <3>2, <3>4 DEF ToldAt
    <2> QED
      BY <2>1, <2>2, <2>3
  <1>12. ToldGoesOn
    BY <1>4, <1>7, <1>11 DEF ToldGoesOn
  <1> QED
    BY <1>2, <1>3, <1>8, <1>10, <1>12

\* The calls that put a friend record: what was read, what is put, and what of it changes.
PutOf(o, b, q, was, g) ==
  /\ b = Agt(o) /\ b \in Agent /\ q = call[o].at /\ q \in Rec /\ was = call[o].was
  /\ call[o].pc = "read" /\ Plan[o].kind \in {"note", "outcome", "ids"} /\ o \in Planned
  /\ FriendOk(outbox, b, was) /\ FriendOk(outbox, b, g) /\ PutFriend(b, q, was, g)
  /\ call' = [call EXCEPT ![o] = [call[o] EXCEPT !.pc = "done", !.ok = TRUE, !.was = None]]
  /\ UNCHANGED <<missions, plan, outbox, host, seen, now, crashes>>
  /\ g.imported = was.imported /\ g.claims = was.claims
  /\ g.ids = IF Plan[o].kind = "ids" THEN Plan[o].ids ELSE was.ids
  /\ g.notes = IF Plan[o].kind = "note"
               THEN [was.notes EXCEPT ![Plan[o].key] =
                       [value |-> Content(o, was), shareable |-> FALSE, from |-> Source(o, was)]]
               ELSE was.notes

LEMMA CallPuts ==
  ASSUME IInv, NEW o \in Op, SaveNote(o) \/ RecordInteraction(o) \/ ChangeIds(o)
  PROVE  \E b, q, was, g : PutOf(o, b, q, was, g)
  <1>1. PICK b, q, was : b = Agt(o) /\ q = call[o].at /\ was = call[o].was
    OBVIOUS
  <1>2. call[o].pc = "read" /\ Plan[o].kind \in {"note", "outcome", "ids"} /\ o \in Planned
    BY DEF SaveNote, RecordInteraction, ChangeIds, Is
  <1>3. b \in Agent /\ q \in Rec /\ FriendOk(outbox, b, was)
    BY <1>1, <1>2, ImportsAssumption DEF IInv, CallsOk, CallOk, AboutFriend, ImportsAssumption, Agt
  <1>4. was \in FriendRecord
    BY <1>3 DEF FriendOk
  <1>5. ASSUME NEW g, Put(o, g), FriendOk(outbox, b, g), g.imported = was.imported, g.claims = was.claims,
               g.ids = IF Plan[o].kind = "ids" THEN Plan[o].ids ELSE was.ids,
               g.notes = IF Plan[o].kind = "note"
                         THEN [was.notes EXCEPT ![Plan[o].key] =
                                 [value |-> Content(o, was), shareable |-> FALSE, from |-> Source(o, was)]]
                         ELSE was.notes
        PROVE  PutOf(o, b, q, was, g)
    BY <1>1, <1>2, <1>3, <1>5 DEF Put, Go, PutOf
  <1>6. CASE SaveNote(o)
    <2>1. Plan[o].kind = "note" /\ (Plan[o].from # None => was.imported[Plan[o].from][Plan[o].key] # None)
      BY <1>1, <1>6 DEF SaveNote, Is, IInv, CallsOk, CallOk
    <2>2. PICK g : g = ApplyFriendNote(was, Plan[o].key, Content(o, was), Source(o, was))
      OBVIOUS
    <2>3. FriendOk(outbox, b, g)
      BY <1>1, <1>3, <2>1, <2>2, NoteOk, ImportsAssumption
    <2>4. PICK n : n = [value |-> Content(o, was), shareable |-> FALSE, from |-> Source(o, was)]
      OBVIOUS
    <2>5. g = [was EXCEPT !.notes[Plan[o].key] = n]
      BY <2>2, <2>4 DEF ApplyFriendNote
    <2>6. /\ g.imported = was.imported /\ g.claims = was.claims /\ g.ids = was.ids
          /\ g.notes = [was.notes EXCEPT ![Plan[o].key] = n]
      BY <1>4, <2>5 DEF FriendRecord
    <2>7. Put(o, g)
      BY <1>1, <1>6, <2>2 DEF SaveNote
    <2> QED
      BY <1>5, <2>1, <2>3, <2>4, <2>6, <2>7
  <1>7. CASE RecordInteraction(o)
    <2>1. PICK g, heard : heard = (Plan[o].from # None) /\ g = RecordOutcome(was, Plan[o].result, heard, Plan[o].delta)
      OBVIOUS
    <2>2. Plan[o].result \in Result /\ heard \in BOOLEAN /\ Plan[o].delta \in Int
      BY <2>1, ImportsAssumption DEF ImportsAssumption
    <2>3. FriendOk(outbox, b, g)
      BY <1>3, <2>1, <2>2, OutcomeOk, ImportsAssumption
    <2>4. g.imported = was.imported /\ g.claims = was.claims /\ g.ids = was.ids /\ g.notes = was.notes
      BY <1>4, <2>1 DEF RecordOutcome, FriendRecord
    <2>5. Put(o, g) /\ Plan[o].kind = "outcome"
      BY <1>1, <1>7, <2>1 DEF RecordInteraction, Is
    <2> QED
      BY <1>5, <2>3, <2>4, <2>5
  <1>8. CASE ChangeIds(o)
    <2>1. PICK g : g = [was EXCEPT !.ids = Plan[o].ids]
      OBVIOUS
    <2>2. FriendOk(outbox, b, g)
      BY <1>3, <2>1, IdsOk, ImportsAssumption DEF ImportsAssumption
    <2>3. g.imported = was.imported /\ g.claims = was.claims /\ g.ids = Plan[o].ids /\ g.notes = was.notes
      BY <1>4, <2>1 DEF FriendRecord
    <2>4. Put(o, g) /\ Plan[o].kind = "ids"
      BY <1>1, <1>8, <2>1 DEF ChangeIds, Is
    <2> QED
      BY <1>5, <2>2, <2>3, <2>4
  <1> QED
    BY <1>6, <1>7, <1>8

LEMMA CallsTold ==
  ASSUME IInv, NEW o \in Op, CallStep(o)
  PROVE  ToldGoesOn
  <1>1. CASE SaveNote(o) \/ RecordInteraction(o) \/ ChangeIds(o)
    <2>1. PICK b, q, was, g : PutOf(o, b, q, was, g)
      BY <1>1, CallPuts
    <2>2. g \in FriendRecord
      BY <2>1 DEF PutOf, FriendOk
    <2> QED
      BY <2>1, <2>2, PutsTold DEF PutOf
  <1>2. CASE ~ (SaveNote(o) \/ RecordInteraction(o) \/ ChangeIds(o))
    <2>1. friends' = friends /\ raced \subseteq raced'
      BY <1>2 DEF CallStep, GetFriend, GetMission, OpenRecorded, WriteRecorded, Send, OpenMission
    <2>2. More(outbox, outbox')
      <3>1. CASE Send(o)
        BY <3>1, SendOk
      <3>2. CASE ~ Send(o)
        BY <1>2, <3>2 DEF CallStep, GetFriend, GetMission, OpenRecorded, WriteRecorded, More
      <3> QED
        BY <3>1, <3>2
    <2> QED
      BY <2>1, <2>2, RecordsStay
  <1> QED
    BY <1>1, <1>2

LEMMA NextTold ==
  ASSUME IInv, [Next]_vars
  PROVE  ToldGoesOn /\ More(outbox, outbox')
  <1>1. ASSUME friends' = friends, raced \subseteq raced', outbox' = outbox PROVE ToldGoesOn
    BY <1>1, RecordsStay DEF More
  <1>2. ASSUME NEW a \in Agent, HostStep(a) PROVE ToldGoesOn /\ outbox' = outbox
    <2>1. CASE ImportProfile(a)
      BY <2>1, ImportProfileTold DEF ImportProfile
    <2>2. CASE ~ ImportProfile(a)
      <3>1. friends' = friends /\ raced \subseteq raced' /\ outbox' = outbox
        BY <1>2, <2>2 DEF HostStep, Poll, StartImport, OpenImported, OpenMission, WriteImported, Mark, Marks
      <3> QED
        BY <1>1, <3>1
    <2> QED
      BY <2>1, <2>2
  <1>3. ASSUME NEW o \in Op, CallStep(o) PROVE ToldGoesOn /\ More(outbox, outbox')
    <2>1. CASE Send(o)
      BY <1>3, <2>1, CallsTold, SendOk
    <2>2. CASE ~ Send(o)
      <3>1. outbox' = outbox
        BY <1>3, <2>2 DEF CallStep, GetFriend, SaveNote, RecordInteraction, ChangeIds, Put, GetMission, OpenRecorded, WriteRecorded
      <3> QED
        BY <1>3, <3>1, CallsTold DEF More
    <2> QED
      BY <2>1, <2>2
  <1>4. ASSUME NEW a \in Agent, Crash(a) PROVE ToldGoesOn /\ outbox' = outbox
    BY <1>1, <1>4 DEF Crash
  <1>5. ASSUME Tick \/ UNCHANGED vars PROVE ToldGoesOn /\ outbox' = outbox
    BY <1>1, <1>5 DEF Tick, vars
  <1> QED
    BY <1>2, <1>3, <1>4, <1>5 DEF Next, More

-----------------------------------------------------------------------------
(* Nothing is missed.                                                      *)

\* The message f has been imported by a, and what it told is held.
IsHeld(a, f) ==
  /\ f.kind = "share_profile" => \A k \in DOMAIN f.env.notes :
       \E r \in Rec : r \in Records(a) /\ (~ Kept(a, r) \/ ToldAt(a, r, f.from, k, f.at))
  /\ f.kind = "share_mission" => \A n \in DOMAIN f.env.outcomes :
       \E r \in Mis : ~ Kept(a, r) \/ RowAt(a, r, f.from, f.env.outcomes[n].at)

NoneMissed ==
  \A a \in Agent :
    /\ \A o \in seen[a] : Trust[a][outbox[o].from] >= Friend => IsHeld(a, outbox[o])
    /\ host[a].import.pc \in {"open", "imported"} =>
         (Trust[a][host[a].import.file.from] >= Friend => IsHeld(a, host[a].import.file))

\* A message that may be told of a record or of a mission.
Legible(f) ==
  /\ f.from \in Agent /\ f.at \in Nat /\ f.kind \in Sharing
  /\ f.kind = "share_profile" => DOMAIN f.env.notes \subseteq Key
  /\ f.kind = "share_mission" => \A n \in DOMAIN f.env.outcomes : f.env.outcomes[n].at \in Nat

LEMMA MessageHas ==
  ASSUME NEW ob, NEW t, NEW f, NEW o \in Op, IsOf(ob, f, o), LetterOk(t, o, ob[o]), f \in File
  PROVE  Legible(f)
  <1>1. f.from \in Agent /\ f.at \in Nat /\ f.kind \in Sharing
    BY DEF File
  <1>2. f.env \in IF f.kind = "share_profile" THEN Profile ELSE Ledger
    BY DEF IsOf, LetterOk
  <1>3. DOMAIN f.env.notes \subseteq Key
    BY <1>2, NotesOf
  <1>4. ASSUME f.kind = "share_mission", NEW n \in DOMAIN f.env.outcomes PROVE f.env.outcomes[n].at \in Nat
    <2>1. f.env.outcomes \in Seq(Outcome)
      BY <1>2, <1>4 DEF Ledger
    <2>2. f.env.outcomes[n] \in Outcome
      BY <1>4, <2>1
    <2> QED
      BY <2>2 DEF Outcome
  <1> QED
    BY <1>1, <1>3, <1>4 DEF Legible

LEMMA HeldStays ==
  ASSUME ToldGoesOn, RowsGoOn, NEW a \in Agent, NEW f, Legible(f), IsHeld(a, f), ~ Replaces(a, f.from, f.at)
  PROVE  IsHeld(a, f)'
  <1>1. ASSUME f.kind = "share_profile", NEW k \in DOMAIN f.env.notes
        PROVE  \E r \in Rec : r \in Records(a)' /\ (~ Kept(a, r)' \/ ToldAt(a, r, f.from, k, f.at)')
    <2>1. PICK r \in Rec : r \in Records(a) /\ (~ Kept(a, r) \/ ToldAt(a, r, f.from, k, f.at))
      BY <1>1 DEF IsHeld
    <2>2. r \in Records(a)'
      BY <2>1 DEF ToldGoesOn
    <2>3. CASE ~ Kept(a, r)
      BY <2>2, <2>3 DEF ToldGoesOn, Kept
    <2>4. CASE ToldAt(a, r, f.from, k, f.at)
      <3>1. k \in Key /\ f.from \in Agent /\ f.at \in Nat
        BY <1>1 DEF Legible
      <3>2. ToldAt(a, r, f.from, k, f.at)' \/ <<a, r>> \in raced'
        BY <2>1, <2>4, <3>1 DEF ToldGoesOn
      <3> QED
        BY <2>2, <3>2 DEF Kept
    <2> QED
      BY <2>1, <2>3, <2>4
  <1>2. ASSUME f.kind = "share_mission", NEW n \in DOMAIN f.env.outcomes
        PROVE  \E r \in Mis : ~ Kept(a, r)' \/ RowAt(a, r, f.from, f.env.outcomes[n].at)'
    <2>1. PICK r \in Mis : ~ Kept(a, r) \/ RowAt(a, r, f.from, f.env.outcomes[n].at)
      BY <1>2 DEF IsHeld
    <2>2. f.env.outcomes[n].at \in Nat /\ f.from \in Agent
      BY <1>2 DEF Legible
    <2>3. ~ Kept(a, r)' \/ RowAt(a, r, f.from, f.env.outcomes[n].at)'
      BY <2>1, <2>2 DEF RowsGoOn, Kept
    <2> QED
      BY <2>3
  <1> QED
    BY <1>1, <1>2 DEF IsHeld

LEMMA SeenStays ==
  ASSUME IInv, SeenInOrder, NoneMissed, ToldGoesOn, RowsGoOn, More(outbox, outbox'), NEW a \in Agent, NEW o \in seen[a],
         Trust[a][outbox'[o].from] >= Friend
  PROVE  \E f : f = outbox'[o] /\ IsHeld(a, f)'
  <1>1. PICK f, se : f = outbox[o] /\ se = seen[a]
    OBVIOUS
  <1>2. o \in Op /\ InOrder(outbox, a, se, host[a]) /\ outbox[o] # None
    BY <1>1 DEF SeenInOrder, InOrder, IInv, OtherTypes
  <1>3. outbox'[o] = f
    BY <1>1, <1>2 DEF More
  <1>4. IsHeld(a, f)
    BY <1>1, <1>3 DEF NoneMissed
  <1>5. Legible(f)
    <2>1. PICK ob, t : ob = outbox /\ t = now
      OBVIOUS
    <2>2. LettersIn(ob, t) /\ f \in MessageIn(ob)
      BY <1>1, <1>2, <2>1, CopyIs, LettersAre DEF IInv
    <2>3. f \in File /\ \E p \in Op : IsOf(ob, f, p) /\ LetterOk(t, p, ob[p])
      BY <2>2, MessageIs
    <2> QED
      BY <2>3, MessageHas
  <1>6. ~ Replaces(a, f.from, f.at)
    <2> SUFFICES ASSUME ImportProfile(a) PROVE f.at <= host[a].import.file.at
      BY DEF Replaces
    <2>1. host[a].import.pc = "read"
      BY DEF ImportProfile
    <2>2. host[a].import.file \in host[a].batch
      BY <2>1, ImportIs
    <2> QED
      BY <1>1, <1>2, <2>2 DEF InOrder
  <1>7. IsHeld(a, f)'
    BY <1>4, <1>5, <1>6, HeldStays
  <1> QED
    BY <1>3, <1>7

\* The ledgers, and the imports that are done, after a step.
SeenHeld == \A a \in Agent : \A o \in seen[a] : Trust[a][outbox[o].from] >= Friend => IsHeld(a, outbox[o])
DoneHeld(a) == host[a].import.pc \in {"open", "imported"} =>
                 (Trust[a][host[a].import.file.from] >= Friend => IsHeld(a, host[a].import.file))

LEMMA StepMissed ==
  ASSUME IInv, SeenInOrder, NoneMissed, ToldGoesOn, RowsGoOn, More(outbox, outbox'), seen' = seen
  PROVE  SeenHeld'
  <1> SUFFICES ASSUME NEW a \in Agent, NEW o \in seen[a], Trust[a][outbox'[o].from] >= Friend
               PROVE  IsHeld(a, outbox[o])'
    BY DEF SeenHeld
  <1>1. PICK f : f = outbox'[o] /\ IsHeld(a, f)'
    BY SeenStays
  <1> QED
    BY <1>1 DEF IsHeld, Kept

\* An import that is done stays held.
LEMMA DoneStays ==
  ASSUME IInv, NoneMissed, ToldGoesOn, RowsGoOn, NEW a \in Agent, NEW f, f = host[a].import.file,
         host[a].import.pc \in {"open", "imported"}, Trust[a][f.from] >= Friend
  PROVE  IsHeld(a, f)'
  <1>1. IsHeld(a, f)
    BY DEF NoneMissed
  <1>2. f \in host[a].batch
    BY ImportIs
  <1>3. f \in File /\ \E o \in Op : IsOf(outbox, f, o) /\ LetterOk(now, o, outbox[o])
    BY <1>2, InBatch
  <1>4. Legible(f)
    <2>1. PICK ob, t : ob = outbox /\ t = now
      OBVIOUS
    <2> QED
      BY <1>3, <2>1, MessageHas
  <1>5. ~ Replaces(a, f.from, f.at)
    BY DEF Replaces, ImportProfile
  <1> QED
    BY <1>1, <1>4, <1>5, HeldStays

\* A message of a friend is not refused while there is room for it.
LEMMA NotRefused ==
  ASSUME NEW a \in Agent, NEW f, f.from \in Agent, Room(a, f), Trust[a][f.from] >= Friend
  PROVE  Accepted(Trust[a][f.from]) /\ Targets(a, f) # {}
  <1>1. Trust[a][f.from] \in Stranger..Family
    BY ImportsAssumption DEF ImportsAssumption
  <1>2. Accepted(Trust[a][f.from]) /\ MaySeed(Trust[a][f.from])
    BY <1>1 DEF Accepted, MaySeed, Friend, Acquaintance, Stranger, Family
  <1> SUFFICES Targets(a, f) # {}
    BY <1>2
  <1>3. CASE f.kind = "share_profile"
    <2> DEFINE found == ResolveSubject(Held(a), f.env.ids, f.from)
               free == Rec \ Records(a)
    <2>1. CASE found # {}
      <3>1. PICK r : r \in found
        BY <2>1
      <3>2. <<r, friends[a][r]>> \in {<<q, friends[a][q]>> : q \in found}
        BY <3>1
      <3> QED
        BY <1>3, <2>1, <3>2 DEF Targets, FriendTargets
    <2>2. CASE found = {}
      <3>1. free # {}
        BY <1>3, <2>2 DEF Room
      <3>2. PICK r : r \in Fresh(free)
        BY <3>1 DEF Fresh
      <3>3. <<r, None>> \in {<<q, None>> : q \in {q \in Fresh(free) : MaySeed(Trust[a][f.from])}}
        BY <1>2, <3>2
      <3> QED
        BY <1>3, <2>2, <3>3 DEF Targets, FriendTargets
    <2> QED
      BY <2>1, <2>2
  <1>4. CASE f.kind # "share_profile"
    <2>1. Found(a) # {}
      BY <1>4 DEF Room
    <2> QED
      BY <1>2, <1>4, <2>1 DEF Targets, MissionTargets
  <1> QED
    BY <1>2, <1>3, <1>4

LEMMA HostIs ==
  ASSUME IInv, NEW a \in Agent, NEW h, Hosts(a, h)
  PROVE  host'[a] = h /\ \A b \in Agent : b # a => host'[b] = host[b]
  BY DEF IInv, HostsOk, Hosts

LEMMA ImportGoesTo ==
  ASSUME IInv, NEW a \in Agent, NEW i, Hosts(a, [host[a] EXCEPT !.import = i])
  PROVE  host'[a].import = i /\ host'[a].batch = host[a].batch
  <1>1. PICK h : h = [host[a] EXCEPT !.import = i]
    OBVIOUS
  <1>2. host[a] \in HostState
    BY DEF IInv, HostsOk
  <1>3. h.import = i /\ h.batch = host[a].batch
    BY <1>1, <1>2 DEF HostState
  <1> QED
    BY <1>1, <1>3, HostIs

\* A host that is idle, or has read a record, has nothing to hold yet.
LEMMA StartMissed ==
  ASSUME IInv, NEW b \in Agent, StartImport(b)
  PROVE  DoneHeld(b)'
  <1>1. PICK f \in First(host[b].batch) :
          /\ Room(b, f)
          /\ \/ /\ ~ Accepted(Trust[b][f.from]) \/ Targets(b, f) = {}
                /\ Hosts(b, [host[b] EXCEPT !.import = [NoImport EXCEPT !.pc = "imported", !.file = f]])
             \/ \E t \in Targets(b, f) :
                  Hosts(b, [host[b] EXCEPT !.import = [pc |-> "read", at |-> t[1], was |-> t[2], file |-> f]])
    BY DEF StartImport
  <1>2. f \in File /\ f.from \in Agent
    <2>1. f \in host[b].batch
      BY DEF First
    <2>2. f \in File
      BY <2>1, InBatch
    <2> QED
      BY <2>2 DEF File
  <1>3. ASSUME ~ Accepted(Trust[b][f.from]) \/ Targets(b, f) = {},
               Hosts(b, [host[b] EXCEPT !.import = [NoImport EXCEPT !.pc = "imported", !.file = f]])
        PROVE  DoneHeld(b)'
    <2>1. PICK i : i = [NoImport EXCEPT !.pc = "imported", !.file = f]
      OBVIOUS
    <2>2. i.file = f
      BY <2>1 DEF NoImport
    <2>3. host'[b].import.file = f
      BY <1>3, <2>1, <2>2, ImportGoesTo
    <2>4. ~ (Trust[b][f.from] >= Friend)
      BY <1>1, <1>2, <1>3, NotRefused
    <2> QED
      BY <2>3, <2>4 DEF DoneHeld
  <1>4. ASSUME NEW t, Hosts(b, [host[b] EXCEPT !.import = [pc |-> "read", at |-> t[1], was |-> t[2], file |-> f]])
        PROVE  DoneHeld(b)'
    <2>1. PICK i : i = [pc |-> "read", at |-> t[1], was |-> t[2], file |-> f]
      OBVIOUS
    <2>2. i.pc = "read"
      BY <2>1
    <2>3. host'[b].import.pc = "read"
      BY <1>4, <2>1, <2>2, ImportGoesTo
    <2> QED
      BY <2>3 DEF DoneHeld
  <1> QED
    BY <1>1, <1>3, <1>4

LEMMA IdleMissed ==
  ASSUME IInv, NEW b \in Agent, Poll(b) \/ Mark(b) \/ Crash(b)
  PROVE  DoneHeld(b)' /\ \A a \in Agent : a # b => host'[a] = host[a]
  <1>1. PICK rest : Hosts(b, [batch |-> rest, import |-> NoImport])
    BY DEF Poll, Mark, Marks, Crash, Hosts
  <1>2. PICK h : h = [batch |-> rest, import |-> NoImport]
    OBVIOUS
  <1>3. h.import.pc = "idle"
    BY <1>2 DEF NoImport
  <1>4. host'[b] = h /\ \A a \in Agent : a # b => host'[a] = host[a]
    BY <1>1, <1>2, HostIs
  <1> QED
    BY <1>3, <1>4 DEF DoneHeld

LEMMA ImportMissed ==
  ASSUME IInv, SeenInOrder, OneWriter, NoneMissed, ToldGoesOn, RowsGoOn, NEW b \in Agent,
         ImportProfile(b) \/ OpenImported(b) \/ WriteImported(b)
  PROVE  DoneHeld(b)'
  <1>1. PICK i, f : i = host[b].import /\ f = i.file
    OBVIOUS
  <1>2. i.pc \in {"read", "open"}
    BY <1>1 DEF ImportProfile, OpenImported, WriteImported
  <1>3. i \in ImportState /\ HostOk(outbox, b, host[b])
    BY <1>1, <1>2, ImportIs
  <1>4. ASSUME NEW j, j.file = f, Hosts(b, [host[b] EXCEPT !.import = j]),
               Trust[b][f.from] >= Friend => IsHeld(b, f)'
        PROVE  DoneHeld(b)'
    <2>1. host'[b].import.file = f
      BY <1>4, ImportGoesTo
    <2> SUFFICES ASSUME Trust[b][host'[b].import.file.from] >= Friend PROVE IsHeld(b, host[b].import.file)'
      BY DEF DoneHeld
    <2>2. IsHeld(b, f)'
      BY <1>4, <2>1
    <2> QED
      BY <2>1, <2>2 DEF IsHeld, Kept
  <1>5. CASE ImportProfile(b)
    <2>1. PICK j : j = [i EXCEPT !.pc = "imported", !.was = None]
      OBVIOUS
    <2>2. j.file = f
      BY <1>1, <1>3, <2>1 DEF ImportState
    <2>3. Hosts(b, [host[b] EXCEPT !.import = j])
      BY <1>1, <1>5, <2>1 DEF ImportProfile
    <2>4. IsHeld(b, f)'
      <3>1. /\ f.kind = "share_profile"
            /\ \A k \in DOMAIN f.env.notes : \E r \in Rec : r \in Records(b)' /\ ToldAt(b, r, f.from, k, f.at)'
        BY <1>1, <1>5, ImportProfileTold
      <3> QED
        BY <3>1 DEF IsHeld
    <2> QED
      BY <1>4, <2>2, <2>3, <2>4
  <1>6. CASE OpenImported(b)
    <2>1. PICK g, j : g = MissionLanding(i) /\ j = [i EXCEPT !.pc = "open", !.was = g]
      OBVIOUS
    <2>2. j.file = f
      BY <1>1, <1>3, <2>1 DEF ImportState
    <2>3. Hosts(b, [host[b] EXCEPT !.import = j]) /\ f.kind = "share_mission"
      BY <1>1, <1>6, <2>1 DEF OpenImported, MissionLanding
    <2>4. IsHeld(b, f)'
      <3>1. \A n \in DOMAIN f.env.outcomes : \E r \in Mis : RowAt(b, r, f.from, f.env.outcomes[n].at)'
        BY <1>1, <1>6, OpenImportedWrites
      <3> QED
        BY <2>3, <3>1 DEF IsHeld
    <2> QED
      BY <1>4, <2>2, <2>3, <2>4
  <1>7. CASE WriteImported(b)
    <2>1. PICK j : j = [i EXCEPT !.pc = "imported", !.was = None]
      OBVIOUS
    <2>2. j.file = f
      BY <1>1, <1>3, <2>1 DEF ImportState
    <2>3. Hosts(b, [host[b] EXCEPT !.import = j]) /\ i.pc = "open"
      BY <1>1, <1>7, <2>1 DEF WriteImported
    <2>4. Trust[b][f.from] >= Friend => IsHeld(b, f)'
      BY <1>1, <2>3, DoneStays
    <2> QED
      BY <1>4, <2>2, <2>3, <2>4
  <1> QED
    BY <1>5, <1>6, <1>7

LEMMA MarkMissed ==
  ASSUME IInv, SeenInOrder, NoneMissed, ToldGoesOn, RowsGoOn, More(outbox, outbox'), NEW b \in Agent, Mark(b)
  PROVE  SeenHeld'
  <1>1. PICK f : f = host[b].import.file
    OBVIOUS
  <1>2. host[b].import.pc = "imported" /\ outbox' = outbox /\ seen' = [seen EXCEPT ![b] = @ \cup {f.id}]
    BY <1>1 DEF Mark, Marks, MarkSeen
  <1>3. \A a \in Agent : seen'[a] = IF a = b THEN seen[a] \cup {f.id} ELSE seen[a]
    BY <1>2 DEF IInv, OtherTypes
  <1>4. PICK o \in Op : IsOf(outbox, f, o)
    <2>1. f \in host[b].batch
      BY <1>1, <1>2, ImportIs
    <2> QED
      BY <2>1, InBatch
  <1>5. PICK g : g = outbox[o]
    OBVIOUS
  <1>6. f.id = o /\ g.kind = f.kind /\ g.env = f.env /\ g.from = f.from /\ g.at = f.at
    BY <1>4, <1>5 DEF IsOf
  <1>7. Trust[b][g.from] >= Friend => IsHeld(b, g)'
    <2> SUFFICES ASSUME Trust[b][f.from] >= Friend PROVE IsHeld(b, g)'
      BY <1>6
    <2>1. IsHeld(b, f)'
      BY <1>1, <1>2, DoneStays
    <2> QED
      BY <1>6, <2>1 DEF IsHeld, Kept
  <1> SUFFICES ASSUME NEW a \in Agent, NEW p \in seen'[a], Trust[a][outbox'[p].from] >= Friend
               PROVE  IsHeld(a, outbox[p])'
    BY DEF SeenHeld
  <1>8. CASE p \in seen[a]
    <2>1. PICK x : x = outbox'[p] /\ IsHeld(a, x)'
      BY <1>8, SeenStays
    <2> QED
      BY <2>1 DEF IsHeld, Kept
  <1>9. CASE p \notin seen[a]
    <2>1. a = b /\ p = o
      BY <1>3, <1>6, <1>9
    <2>2. outbox'[p] = g
      BY <1>2, <1>5, <2>1
    <2>3. IsHeld(a, g)'
      BY <1>7, <2>1, <2>2
    <2> QED
      BY <2>2, <2>3 DEF IsHeld, Kept
  <1> QED
    BY <1>8, <1>9

LEMMA NextMissed ==
  ASSUME IInv, SeenInOrder, OneWriter, NoneMissed, [Next]_vars
  PROVE  NoneMissed'
  <1>1. ToldGoesOn /\ RowsGoOn /\ More(outbox, outbox')
    BY NextTold, NextWrites
  <1>2. seen' = seen => SeenHeld'
    BY <1>1, StepMissed
  <1>3. ASSUME NEW a \in Agent, host'[a] = host[a] PROVE DoneHeld(a)'
    <2>1. PICK f : f = host[a].import.file
      OBVIOUS
    <2> SUFFICES ASSUME host[a].import.pc \in {"open", "imported"}, Trust[a][f.from] >= Friend
                 PROVE  IsHeld(a, host[a].import.file)'
      BY <1>3, <2>1 DEF DoneHeld
    <2>2. IsHeld(a, f)'
      BY <1>1, <2>1, DoneStays
    <2> QED
      BY <1>3, <2>1, <2>2 DEF IsHeld, Kept
  <1>4. ASSUME SeenHeld', \A a \in Agent : DoneHeld(a)' PROVE NoneMissed'
    BY <1>4 DEF SeenHeld, DoneHeld, NoneMissed
  <1>5. ASSUME seen' = seen, host' = host PROVE NoneMissed'
    BY <1>2, <1>3, <1>4, <1>5
  <1>6. ASSUME NEW o \in Op, CallStep(o) PROVE NoneMissed'
    BY <1>5, <1>6 DEF CallStep, GetFriend, SaveNote, RecordInteraction, ChangeIds, Put, GetMission, OpenRecorded, WriteRecorded, Send
  <1>7. ASSUME NEW b \in Agent, Poll(b) \/ Crash(b) PROVE NoneMissed'
    <2>1. seen' = seen
      BY <1>7 DEF Poll, Crash
    <2> QED
      BY <1>2, <1>3, <1>4, <1>7, <2>1, IdleMissed
  <1>8. ASSUME NEW b \in Agent, Mark(b) PROVE NoneMissed'
    BY <1>1, <1>3, <1>4, <1>8, IdleMissed, MarkMissed
  <1>9. ASSUME NEW b \in Agent, StartImport(b) \/ ImportProfile(b) \/ OpenImported(b) \/ WriteImported(b) PROVE NoneMissed'
    <2>1. seen' = seen
      BY <1>9 DEF StartImport, ImportProfile, OpenImported, WriteImported
    <2>2. \E h : Hosts(b, h)
      BY <1>9 DEF StartImport, ImportProfile, OpenImported, WriteImported
    <2>3. \A a \in Agent : a # b => host'[a] = host[a]
      BY <2>2, HostIs
    <2>4. DoneHeld(b)'
      BY <1>1, <1>9, StartMissed, ImportMissed
    <2> QED
      BY <1>2, <1>3, <1>4, <2>1, <2>3, <2>4
  <1> QED
    BY <1>5, <1>6, <1>7, <1>8, <1>9 DEF Next, HostStep, Tick, vars

LEMMA InitMissed ==
  ASSUME Init
  PROVE  NoneMissed
  <1> SUFFICES ASSUME NEW a \in Agent PROVE seen[a] = {} /\ host[a].import.pc = "idle"
    BY DEF NoneMissed
  <1>1. seen[a] = {} /\ host[a] = [batch |-> {}, import |-> NoImport]
    BY DEF Init
  <1> QED
    BY <1>1 DEF NoImport

\* A message that a friend wrote and the ledger has was imported, and what it told is
\* there, or what the same peer told later, or the put of the record was overtaken.
THEOREM NothingIsMissed == Spec => []NothingMissed
  <1> DEFINE MInv == SeenInOrder /\ OneWriter /\ NoneMissed
  <1>1. Init => MInv
    BY InitOrder, InitWrites, InitMissed
  <1>2. IInv /\ MInv /\ [Next]_vars => MInv'
    BY NextOrder, NextWrites, NextMissed
  <1>3. ASSUME IInv, MInv PROVE NothingMissed
    <2> SUFFICES ASSUME NEW a \in Agent, NEW o \in seen[a], Trust[a][outbox[o].from] >= Friend
                 PROVE  IF outbox[o].kind = "share_profile" THEN \A k \in DOMAIN outbox[o].env.notes : Landed(a, outbox[o], k)
                        ELSE \A n \in DOMAIN outbox[o].env.outcomes : RowLanded(a, outbox[o], outbox[o].env.outcomes[n])
      BY DEF NothingMissed
    <2>1. PICK f : f = outbox[o]
      OBVIOUS
    <2>2. IsHeld(a, f)
      BY <1>3, <2>1 DEF NoneMissed
    <2>3. o \in Op /\ f # None /\ f \in File
      BY <1>3, <2>1 DEF SeenInOrder, InOrder, IInv, OtherTypes, LettersOk
    <2>4. ASSUME f.kind = "share_profile", NEW k \in DOMAIN f.env.notes PROVE Landed(a, f, k)
      <3>1. PICK r \in Rec : r \in Records(a) /\ (~ Kept(a, r) \/ ToldAt(a, r, f.from, k, f.at))
        BY <2>2, <2>4 DEF IsHeld
      <3>2. CASE ~ Kept(a, r)
        BY <3>1, <3>2 DEF Landed
      <3>3. CASE ToldAt(a, r, f.from, k, f.at)
        <4>1. PICK p \in Op : /\ Wrote(outbox, f.from, a, p) /\ outbox[p].kind = "share_profile" /\ outbox[p].at >= f.at
                              /\ k \in DOMAIN outbox[p].env.notes
                              /\ friends[a][r].imported[f.from][k] = outbox[p].env.notes[k]
          BY <3>3 DEF ToldAt
        <4>2. PICK g : g = outbox[p]
          OBVIOUS
        <4>3. g \in Message
          BY <4>1, <4>2, CopyIs DEF Wrote, Message, MessageIn
        <4>4. g.from = f.from
          <5>1. LetterOk(now, p, g)
            BY <1>3, <4>1, <4>2 DEF Wrote, IInv, LettersOk
          <5> QED
            BY <4>1, <5>1 DEF LetterOk, BuildOutgoing, Wrote
        <4> QED
          BY <2>4, <3>1, <4>1, <4>2, <4>3, <4>4 DEF Landed, Wrote
      <3> QED
        BY <3>1, <3>2, <3>3
    <2>5. ASSUME f.kind = "share_mission", NEW n \in DOMAIN f.env.outcomes PROVE RowLanded(a, f, f.env.outcomes[n])
      <3>1. PICK r \in Mis : ~ Kept(a, r) \/ RowAt(a, r, f.from, f.env.outcomes[n].at)
        BY <2>2, <2>5 DEF IsHeld
      <3>2. CASE ~ Kept(a, r)
        BY <3>2 DEF RowLanded
      <3>3. CASE Kept(a, r) /\ RowAt(a, r, f.from, f.env.outcomes[n].at)
        <4>1. Sole(a, r)
          BY <1>3, <3>3 DEF OneWriter
        <4> QED
          BY <3>3, <4>1 DEF RowAt, RowIn, Sole, RowLanded
      <3> QED
        BY <3>1, <3>2, <3>3
    <2> QED
      BY <2>1, <2>3, <2>4, <2>5 DEF File, Sharing
  <1> HIDE DEF MInv
  <1>4. Spec => []MInv
    BY <1>1, <1>2, ImportsInductive, PTL DEF Spec
  <1> QED
    BY <1>3, <1>4, ImportsInductive, PTL

-----------------------------------------------------------------------------
(* What is recorded first-hand of a mission.                               *)

Own(m) == {n \in DOMAIN m.outcomes : m.outcomes[n].by = None}

\* What the calls in R recorded of the mission is in m, and nothing else is its agent's own.
Stands(m, R) ==
  /\ \A o \in R : /\ Plan[o].to \in m.participants /\ m.learnings[Plan[o].key] # None
                  /\ \E n \in Own(m) : m.outcomes[n].value = Plan[o].value
  /\ R # {} => \E p \in R : Plan[p].status = m.status
  /\ Cardinality(Own(m)) = Cardinality(R)

LEMMA NewStands ==
  Stands(NewMission, {})
  <1>1. NewMission.outcomes = <<>>
    BY DEF NewMission
  <1>2. Own(NewMission) = {}
    BY <1>1 DEF Own
  <1> QED
    BY <1>2 DEF Stands

LEMMA OwnIsFinite ==
  ASSUME NEW m \in MissionRecord
  PROVE  IsFiniteSet(Own(m))
  <1> DEFINE q == m.outcomes
  <1>1. q \in Seq(Outcome)
    BY DEF MissionRecord
  <1>2. Len(q) \in Nat /\ DOMAIN q = 1..Len(q)
    BY <1>1
  <1>3. IsFiniteSet(1..Len(q))
    BY <1>2, FS_Interval
  <1>4. Own(m) \in SUBSET (1..Len(q))
    BY <1>2 DEF Own
  <1> QED
    BY <1>3, <1>4, FS_Subset

LEMMA RecordingStands ==
  ASSUME ImportsAssumption, NEW o \in Op, NEW m \in MissionRecord, NEW R \in SUBSET Op, IsFiniteSet(R),
         o \notin R, Stands(m, R), NEW t, NEW in, in.status = Plan[o].status, in.participants = {Plan[o].to}, in.key = Plan[o].key,
         in.value = Plan[o].value, in.shareable \in BOOLEAN
  PROVE  Stands(RecordMission(m, in, t), R \cup {o})
  <1> DEFINE x == [value |-> in.value, at |-> t, by |-> None]
             l == [value |-> in.value, shareable |-> in.shareable]
             q == m.outcomes
             p == Append(q, x)
             g == RecordMission(m, in, t)
             j == Len(q)
  <1>1. q \in Seq(Outcome) /\ m.learnings \in [Key -> Learning \cup {None}]
    BY DEF MissionRecord
  <1>2. g = [m EXCEPT !.status = in.status, !.participants = @ \cup in.participants, !.learnings[in.key] = l,
                      !.outcomes = p]
    BY DEF RecordMission
  <1>3. l # None
    <2>1. Plan[o].value \in Value /\ Plan[o].key \in Key
      BY DEF ImportsAssumption
    <2>2. l \in Learning
      BY <2>1 DEF Learning
    <2> QED
      BY <2>2 DEF ImportsAssumption
  <1>5. x.by = None /\ x.value = Plan[o].value
    OBVIOUS
  <1> HIDE DEF x, q
  <1>4. /\ j \in Nat /\ DOMAIN q = 1..j /\ DOMAIN p = 1..(j + 1) /\ p[j + 1] = x
        /\ \A n \in 1..j : p[n] = q[n]
    BY ONLY <1>1
  <1> HIDE DEF l, p, g
  <1>6. /\ g.status = in.status /\ g.participants = m.participants \cup {Plan[o].to} /\ g.outcomes = p
        /\ g.learnings = [m.learnings EXCEPT ![in.key] = l]
    BY <1>2 DEF MissionRecord
  <1>7. g.learnings[Plan[o].key] = l /\ \A k \in Key : k # Plan[o].key => g.learnings[k] = m.learnings[k]
    <2>1. Plan[o].key \in Key
      BY DEF ImportsAssumption
    <2> QED
      BY <1>1, <1>6, <2>1
  <1>8. Own(g) = Own(m) \cup {j + 1} /\ j + 1 \notin Own(m)
    <2>1. Own(m) = {n \in 1..j : q[n].by = None}
      BY <1>4 DEF Own, q
    <2>2. Own(g) = {n \in 1..(j + 1) : p[n].by = None}
      BY <1>4, <1>6 DEF Own
    <2>3. \A n \in 1..(j + 1) : n \in 1..j \/ n = j + 1
      BY <1>4
    <2>4. \A n \in 1..j : n \in 1..(j + 1) /\ n # j + 1
      BY <1>4
    <2>5. j + 1 \in 1..(j + 1) /\ p[j + 1].by = None
      BY <1>4, <1>5
    <2>6. \A n \in 1..j : p[n].by = q[n].by
      BY <1>4
    <2>7. \A n : n \in Own(g) <=> n \in Own(m) \/ n = j + 1
      BY ONLY <2>1, <2>2, <2>3, <2>4, <2>5, <2>6
    <2> QED
      BY ONLY <2>1, <2>4, <2>7
  <1>9. Cardinality(Own(g)) = Cardinality(R \cup {o})
    <2>1. IsFiniteSet(Own(m))
      BY OwnIsFinite
    <2>2. PICK S, y : S = Own(m) /\ y = j + 1
      OBVIOUS
    <2>3. IsFiniteSet(S) /\ y \notin S
      BY <1>8, <2>1, <2>2
    <2>4. Cardinality(S \cup {y}) = Cardinality(S) + 1
      BY <2>3, FS_AddElement
    <2>5. Cardinality(R \cup {o}) = Cardinality(R) + 1
      BY FS_AddElement
    <2>6. Own(g) = S \cup {y} /\ Cardinality(S) = Cardinality(R)
      BY <1>8, <2>2 DEF Stands
    <2> QED
      BY <2>4, <2>5, <2>6
  <1>10. \A n \in Own(m) : n \in Own(g) /\ g.outcomes[n] = m.outcomes[n]
    BY <1>4, <1>6, <1>8 DEF Own, q
  <1>11. j + 1 \in Own(g) /\ g.outcomes[j + 1].value = Plan[o].value
    BY <1>4, <1>5, <1>6, <1>8
  <1>12. ASSUME NEW r \in R \cup {o}
         PROVE  /\ Plan[r].to \in g.participants /\ g.learnings[Plan[r].key] # None
                /\ \E n \in Own(g) : g.outcomes[n].value = Plan[r].value
    <2>1. CASE r = o
      BY <1>3, <1>6, <1>7, <1>11, <2>1
    <2>2. CASE r # o
      <3>1. /\ Plan[r].to \in m.participants /\ m.learnings[Plan[r].key] # None
            /\ \E n \in Own(m) : m.outcomes[n].value = Plan[r].value
        BY <1>12, <2>2 DEF Stands
      <3>2. g.learnings[Plan[r].key] # None
        <4>1. Plan[r].key \in Key
          BY <1>12 DEF ImportsAssumption
        <4> QED
          BY <1>3, <1>7, <3>1, <4>1
      <3> QED
        BY <1>6, <1>10, <3>1, <3>2
    <2> QED
      BY <2>1, <2>2
  <1>13. Plan[o].status = g.status
    BY <1>6
  <1>14. Stands(g, R \cup {o})
    BY <1>9, <1>12, <1>13 DEF Stands
  <1> QED
    BY <1>14 DEF g

LEMMA MergingStands ==
  ASSUME ProfileShareAssumption, NEW m \in MissionRecord, NEW g \in MissionRecord, NEW env, NEW from \in Agent,
         MissionMerged(g, m, env, from), NEW R, Stands(m, R)
  PROVE  Stands(g, R)
  <1> DEFINE p == m.outcomes
             q == g.outcomes
  <1>1. p \in Seq(Outcome) /\ q \in Seq(Outcome)
    BY DEF MissionRecord
  <1>2. /\ Len(p) \in Nat /\ DOMAIN p = 1..Len(p) /\ Len(q) \in Nat /\ DOMAIN q = 1..Len(q)
    BY <1>1
  <1>3. /\ Len(p) <= Len(q) /\ \A n \in 1..Len(p) : q[n] = p[n]
        /\ \A n \in 1..Len(q) : n \notin 1..Len(p) => q[n].by = from
    BY DEF MissionMerged, RowsMerged
  <1>4. from # None
    BY DEF ProfileShareAssumption
  <1>5. \A n \in 1..Len(p) : n \in 1..Len(q)
    BY <1>2, <1>3
  <1>6. Own(g) = Own(m)
    BY <1>2, <1>3, <1>4, <1>5 DEF Own
  <1>7. \A n \in Own(m) : g.outcomes[n] = m.outcomes[n]
    BY <1>2, <1>3 DEF Own
  <1>8. g.status = m.status /\ g.participants = m.participants /\ g.learnings = m.learnings
    BY DEF MissionMerged
  <1> QED
    BY <1>6, <1>7, <1>8 DEF Stands

\* The calls that have recorded something of the mission.
Recorders(a, r) == {p \in Planned : Agt(p) = a /\ Plan[p].kind = "record" /\ call[p].ok /\ call[p].at = r}

LEMMA RecordersAre ==
  ASSUME IInv, NEW a, NEW r
  PROVE  Recorders(a, r) \in SUBSET Op /\ IsFiniteSet(Recorders(a, r))
  <1>1. plan \in Seq(Op)
    BY DEF IInv, OtherTypes
  <1>2. Len(plan) \in Nat /\ DOMAIN plan = 1..Len(plan) /\ plan \in [1..Len(plan) -> Op]
    BY <1>1
  <1>3. Planned = {plan[n] : n \in 1..Len(plan)}
    BY <1>2 DEF Planned, ToSet
  <1>4. plan \in [1..Len(plan) -> Planned] /\ \A o \in Planned : \E n \in 1..Len(plan) : plan[n] = o
    BY <1>2, <1>3
  <1>5. IsFiniteSet(1..Len(plan))
    BY <1>2, FS_Interval
  <1>6. IsFiniteSet(Planned)
    BY <1>4, <1>5, ImageIsNoLarger
  <1>7. Recorders(a, r) \in SUBSET Planned
    BY DEF Recorders
  <1> QED
    BY <1>2, <1>3, <1>6, <1>7, FS_Subset

\* A mission that is kept, or is being written, has what was recorded of it.
StandsAt(a, r) ==
  /\ missions[a][r] = None => Recorders(a, r) = {}
  /\ missions[a][r] \notin {None, Torn} => Stands(missions[a][r], Recorders(a, r))
  /\ HostWrites(a, r) => Stands(host[a].import.was, Recorders(a, r))
  /\ \A o \in Op : CallWrites(o, a, r) => Stands(call[o].was, Recorders(a, r) \cup {o})

RecordsStand == \A a \in Agent, r \in Mis : Kept(a, r) => StandsAt(a, r)

\* A call that is done stays done, with the record it was about.
OksStay ==
  /\ plan' = plan
  /\ \A p \in Op : call[p].ok => call'[p].ok /\ call'[p].at = call[p].at

\* The calls that are done with this step.
Done(p) == call'[p].ok /\ ~ call[p].ok

LEMMA CallGoesTo ==
  ASSUME IInv, NEW o \in Op, NEW c, Go(o, c)
  PROVE  call'[o] = c /\ \A p \in Op : p # o => call'[p] = call[p]
  BY DEF IInv, CallsOk, Go

LEMMA CallsDone ==
  ASSUME IInv, NEW o \in Op, CallStep(o)
  PROVE  /\ OksStay
         /\ \A p \in Op : Done(p) => p = o /\ call'[p].at = call[p].at /\ p \in Planned
         /\ \A p \in Op : Done(p) /\ Plan[p].kind = "record" => WriteRecorded(p)
         /\ \A p \in Op : Done(p) /\ Plan[p].kind = "note" => SaveNote(p)
  <1>1. call[o] \in CallState /\ CallOk(outbox, o, call[o])
    BY DEF IInv, CallsOk
  <1>2. plan' = plan
    BY DEF CallStep, GetFriend, SaveNote, RecordInteraction, ChangeIds, Put, GetMission, OpenRecorded, WriteRecorded, Send
  <1>3. ASSUME NEW c, Go(o, c), ~ call[o].ok, c.ok => c.at = call[o].at /\ o \in Planned,
               c.ok /\ Plan[o].kind = "record" => WriteRecorded(o), c.ok /\ Plan[o].kind = "note" => SaveNote(o)
        PROVE  /\ OksStay
               /\ \A p \in Op : Done(p) => p = o /\ call'[p].at = call[p].at /\ p \in Planned
               /\ \A p \in Op : Done(p) /\ Plan[p].kind = "record" => WriteRecorded(p)
               /\ \A p \in Op : Done(p) /\ Plan[p].kind = "note" => SaveNote(p)
    <2>1. call'[o] = c /\ \A p \in Op : p # o => call'[p] = call[p]
      BY <1>3, CallGoesTo
    <2>2. OksStay
      BY <1>2, <1>3, <2>1 DEF OksStay
    <2>3. \A p \in Op : Done(p) => p = o /\ call'[p] = c
      BY <2>1 DEF Done
    <2> QED
      BY <1>3, <2>2, <2>3 DEF Done
  <1>4. CASE SaveNote(o) \/ RecordInteraction(o) \/ ChangeIds(o) \/ WriteRecorded(o) \/ Send(o)
    <2>1. PICK c : c = [call[o] EXCEPT !.pc = "done", !.ok = TRUE, !.was = None]
      OBVIOUS
    <2>2. c.at = call[o].at
      BY <1>1, <2>1 DEF CallState
    <2>3. Go(o, c) /\ call[o].pc \in {"read", "open"} /\ o \in Planned
      BY <1>4, <2>1 DEF SaveNote, RecordInteraction, ChangeIds, Put, WriteRecorded, Send, Is
    <2>4. Plan[o].kind = "record" => WriteRecorded(o)
      BY <1>4 DEF SaveNote, RecordInteraction, ChangeIds, Send, Is
    <2>5. Plan[o].kind = "note" => SaveNote(o)
      BY <1>4 DEF RecordInteraction, ChangeIds, WriteRecorded, Send, Is
    <2>6. ~ call[o].ok
      BY <1>1, <2>3 DEF CallOk
    <2> QED
      BY <1>3, <2>2, <2>3, <2>4, <2>5, <2>6
  <1>5. ASSUME NEW c, Go(o, c), call[o].pc # "done", ~ c.ok
        PROVE  /\ OksStay
               /\ \A p \in Op : Done(p) => p = o /\ call'[p].at = call[p].at /\ p \in Planned
               /\ \A p \in Op : Done(p) /\ Plan[p].kind = "record" => WriteRecorded(p)
               /\ \A p \in Op : Done(p) /\ Plan[p].kind = "note" => SaveNote(p)
    <2>1. ~ call[o].ok
      BY <1>1, <1>5 DEF CallOk
    <2> QED
      BY <1>3, <1>5, <2>1
  <1>6. ASSUME NEW r \in Rec, GetFriend(o, r) PROVE \E c : Go(o, c) /\ call[o].pc # "done" /\ ~ c.ok
    <2>1. PICK c : c = [NoCall EXCEPT
            !.pc = IF Plan[o].kind = "note" /\ OverrideRequired(friends[Agt(o)][r], Plan[o].key, Plan[o].override)
                   THEN "done" ELSE "read",
            !.at = r, !.was = friends[Agt(o)][r]]
      OBVIOUS
    <2>2. ~ c.ok
      BY <2>1 DEF NoCall
    <2> QED
      BY <1>6, <2>1, <2>2 DEF GetFriend
  <1>7. ASSUME GetMission(o) PROVE \E c : Go(o, c) /\ call[o].pc # "done" /\ ~ c.ok
    <2>1. PICK f : Go(o, [NoCall EXCEPT !.pc = "read", !.at = f[1], !.was = f[2]])
      BY <1>7 DEF GetMission
    <2>2. PICK c : c = [NoCall EXCEPT !.pc = "read", !.at = f[1], !.was = f[2]]
      OBVIOUS
    <2>3. ~ c.ok
      BY <2>2 DEF NoCall
    <2> QED
      BY <1>7, <2>1, <2>2, <2>3 DEF GetMission
  <1>8. ASSUME OpenRecorded(o) PROVE \E c : Go(o, c) /\ call[o].pc # "done" /\ ~ c.ok
    <2>1. PICK c, g : g = Recorded(o) /\ c = [call[o] EXCEPT !.pc = "open", !.was = g]
      OBVIOUS
    <2>2. c.ok = call[o].ok /\ call[o].pc = "read" /\ Go(o, c)
      BY <1>1, <1>8, <2>1 DEF CallState, OpenRecorded, Is
    <2> QED
      BY <1>1, <2>2 DEF CallOk
  <1> QED
    BY <1>4, <1>5, <1>6, <1>7, <1>8 DEF CallStep

\* Those that this step adds.
NewRecorders(a, r) == {p \in Planned : Agt(p) = a /\ Plan[p].kind = "record" /\ Done(p) /\ call'[p].at = r}

LEMMA PlannedAre ==
  ASSUME IInv
  PROVE  Planned \subseteq Op
  <1>1. plan \in Seq(Op)
    BY DEF IInv, OtherTypes
  <1>2. \A n \in DOMAIN plan : plan[n] \in Op
    BY <1>1
  <1> QED
    BY <1>2 DEF Planned, ToSet

LEMMA RecordersGo ==
  ASSUME IInv, OksStay, NEW a, NEW r
  PROVE  Recorders(a, r)' = Recorders(a, r) \cup NewRecorders(a, r)
  <1>1. Planned' = Planned
    BY DEF OksStay, Planned
  <1> QED
    BY <1>1, PlannedAre DEF Recorders, NewRecorders, Done, OksStay, Agt

\* A step that leaves the mission, its writers and its recorders alone.
LeftAlone(a, r) ==
  /\ missions'[a][r] = missions[a][r]
  /\ HostWrites(a, r)' => HostWrites(a, r) /\ host'[a].import.was = host[a].import.was
  /\ \A o \in Op : CallWrites(o, a, r)' => CallWrites(o, a, r) /\ call'[o].was = call[o].was
  /\ Recorders(a, r)' = Recorders(a, r)

LEMMA AloneStands ==
  ASSUME NEW a, NEW r, LeftAlone(a, r), StandsAt(a, r)
  PROVE  StandsAt(a, r)'
  <1>1. PICK R, h : R = Recorders(a, r) /\ h = host[a].import.was
    OBVIOUS
  <1>2. /\ R = Recorders(a, r)' /\ (HostWrites(a, r)' => HostWrites(a, r) /\ h = host'[a].import.was)
        /\ missions'[a][r] = missions[a][r]
    BY <1>1 DEF LeftAlone
  <1>3. /\ missions[a][r] = None => R = {}
        /\ missions[a][r] \notin {None, Torn} => Stands(missions[a][r], R)
        /\ HostWrites(a, r) => Stands(h, R)
        /\ \A o \in Op : CallWrites(o, a, r) => Stands(call[o].was, R \cup {o})
    BY <1>1 DEF StandsAt
  <1>4. ASSUME NEW o \in Op, CallWrites(o, a, r)' PROVE Stands(call'[o].was, R \cup {o})
    <2>1. CallWrites(o, a, r) /\ call'[o].was = call[o].was
      BY <1>4 DEF LeftAlone
    <2> QED
      BY <1>3, <2>1
  <1>5. missions'[a][r] \notin {None, Torn} => Stands(missions'[a][r], R)
    BY <1>2, <1>3
  <1>6. HostWrites(a, r)' => Stands(host'[a].import.was, R)
    BY <1>2, <1>3
  <1> QED
    BY <1>2, <1>3, <1>4, <1>5, <1>6 DEF StandsAt

\* A step that is no writer's and completes no record.
LEMMA QuietStands ==
  ASSUME IInv, Quiet, OksStay, \A p \in Op : Done(p) => Plan[p].kind # "record", RecordsStand
  PROVE  RecordsStand'
  <1> SUFFICES ASSUME NEW a \in Agent, NEW r \in Mis, Kept(a, r)' PROVE StandsAt(a, r)'
    BY DEF RecordsStand
  <1>1. Kept(a, r) /\ StandsAt(a, r)
    BY DEF Quiet, Kept, RecordsStand
  <1>2. Recorders(a, r)' = Recorders(a, r)
    <2>1. NewRecorders(a, r) = {}
      BY PlannedAre DEF NewRecorders
    <2>2. Recorders(a, r)' = Recorders(a, r) \cup NewRecorders(a, r)
      BY RecordersGo
    <2> QED
      BY <2>1, <2>2
  <1>3. missions'[a][r] = missions[a][r]
    BY DEF Quiet
  <1>4. HostWrites(a, r)' => HostWrites(a, r) /\ host'[a].import.was = host[a].import.was
    BY DEF Quiet, HostWrites
  <1>5. \A o \in Op : CallWrites(o, a, r)' => CallWrites(o, a, r) /\ call'[o].was = call[o].was
    BY DEF Quiet, CallWrites, Agt
  <1> QED
    BY <1>1, <1>2, <1>3, <1>4, <1>5, AloneStands DEF LeftAlone

\* Steps at one mission: elsewhere nothing changes.
Elsewhere(b, q) ==
  \A a \in Agent, r \in Mis : a # b \/ r # q =>
    /\ missions'[a][r] = missions[a][r]
    /\ HostWrites(a, r)' => HostWrites(a, r) /\ host'[a].import.was = host[a].import.was
    /\ \A o \in Op : CallWrites(o, a, r)' => CallWrites(o, a, r) /\ call'[o].was = call[o].was

LEMMA ElsewhereStands ==
  ASSUME NEW b, NEW q, Elsewhere(b, q), RecordsStand, raced \subseteq raced', StandsAt(b, q)' \/ ~ Kept(b, q)',
         \A a \in Agent, r \in Mis : a # b \/ r # q => Recorders(a, r)' = Recorders(a, r)
  PROVE  RecordsStand'
  <1> SUFFICES ASSUME NEW a \in Agent, NEW r \in Mis, Kept(a, r)' PROVE StandsAt(a, r)'
    BY DEF RecordsStand
  <1>1. CASE a = b /\ r = q
    BY <1>1
  <1>2. CASE a # b \/ r # q
    <2>1. StandsAt(a, r)
      BY DEF Kept, RecordsStand
    <2>2. LeftAlone(a, r)
      BY <1>2 DEF Elsewhere, LeftAlone
    <2> QED
      BY <2>1, <2>2, AloneStands
  <1> QED
    BY <1>1, <1>2

LEMMA OpenRecordedStands ==
  ASSUME IInv, OneWriter', RecordsStand, NEW o \in Op, OpenRecorded(o)
  PROVE  RecordsStand'
  <1>1. PICK b, q, was, g : b = Agt(o) /\ q = call[o].at /\ was = call[o].was /\ g = Recorded(o)
    OBVIOUS
  <1>2. PICK c : c = [call[o] EXCEPT !.pc = "open", !.was = g]
    OBVIOUS
  <1>3. /\ o \in Planned /\ Plan[o].kind = "record" /\ call[o].pc = "read" /\ OpenMission(b, q, was)
        /\ Go(o, c) /\ host' = host
    BY <1>1, <1>2 DEF OpenRecorded, Is
  <1>4. /\ b \in Agent /\ q \in Mis /\ call[o] \in CallState /\ ~ call[o].ok
        /\ (was # None => MissionOk(outbox, b, was)) /\ was \in FriendRecord \cup MissionRecord \cup {None}
    <2>1. b \in Agent
      BY <1>1, ImportsAssumption DEF Agt, ImportsAssumption
    <2>2. call[o] \in CallState /\ CallOk(outbox, o, call[o])
      BY DEF IInv, CallsOk
    <2> QED
      BY <1>1, <1>3, <2>1, <2>2 DEF CallOk, CallState
  <1>5. c.pc = "open" /\ c.at = q /\ c.was = g /\ ~ c.ok
    BY <1>1, <1>2, <1>4 DEF CallState
  <1>6. call'[o] = c /\ \A p \in Op : p # o => call'[p] = call[p]
    BY <1>3, CallGoesTo
  <1>7. /\ missions'[b][q] = Torn
        /\ \A a \in Agent, r \in Mis : a # b \/ r # q => missions'[a][r] = missions[a][r]
        /\ missions[b][q] = was \/ <<b, q>> \in raced'
        /\ raced \subseteq raced'
    BY <1>3, <1>4, OpenIs
  <1>8. OksStay /\ \A p \in Op : ~ Done(p)
    <2>1. CallStep(o)
      BY DEF CallStep
    <2>2. plan' = plan
      BY DEF OpenRecorded
    <2> QED
      BY <1>4, <1>5, <1>6, <2>2 DEF OksStay, Done
  <1>9. \A a, r : Recorders(a, r)' = Recorders(a, r)
    <2>1. \A a, r : Recorders(a, r)' = Recorders(a, r) \cup NewRecorders(a, r)
      BY <1>8, RecordersGo
    <2>2. \A a, r : NewRecorders(a, r) = {}
      BY <1>8, PlannedAre DEF NewRecorders
    <2> QED
      BY <2>1, <2>2
  <1>10. Elsewhere(b, q)
    <2>1. ASSUME NEW a \in Agent, NEW r \in Mis, a # b \/ r # q, NEW p \in Op, CallWrites(p, a, r)'
          PROVE  CallWrites(p, a, r) /\ call'[p].was = call[p].was
      <3>1. p # o
        BY <1>1, <1>5, <1>6, <2>1 DEF CallWrites, Agt
      <3> QED
        BY <1>6, <2>1, <3>1 DEF CallWrites, Agt
    <2>2. \A a \in Agent, r \in Mis : HostWrites(a, r)' <=> HostWrites(a, r)
      BY <1>3 DEF HostWrites
    <2> QED
      BY <1>3, <1>7, <2>1, <2>2 DEF Elsewhere
  <1>11. ASSUME Kept(b, q)' PROVE StandsAt(b, q)'
    <2>1. Kept(b, q) /\ missions[b][q] = was
      BY <1>7, <1>11 DEF Kept
    <2>2. PICK R : R = Recorders(b, q)
      OBVIOUS
    <2>3. /\ was = None => R = {}
          /\ was \notin {None, Torn} => Stands(was, R)
      BY <1>4, <2>1, <2>2 DEF RecordsStand, StandsAt
    <2>4. PICK m, in, t : m = (IF was = None THEN NewMission ELSE was) /\ t = now
                        /\ in = [status |-> Plan[o].status, participants |-> {Plan[o].to}, key |-> Plan[o].key,
                                 value |-> Plan[o].value, shareable |-> Plan[o].shareable]
      OBVIOUS
    <2>5. g = RecordMission(m, in, t)
      BY <1>1, <2>4 DEF Recorded
    <2>6. was # Torn /\ m \in MissionRecord
      <3>1. MissionOk(outbox, b, m)
        BY <1>4, <2>4, NewMissionOk
      <3>2. m \in MissionRecord
        BY <3>1 DEF MissionOk
      <3>3. was # None => was \in MissionRecord
        BY <1>4 DEF MissionOk
      <3> QED
        BY <3>2, <3>3, ImportsAssumption DEF ImportsAssumption
    <2>7. Stands(m, R)
      BY <2>3, <2>4, <2>6, NewStands
    <2>8. R \in SUBSET Op /\ IsFiniteSet(R) /\ o \notin R
      <3>1. R \in SUBSET Op /\ IsFiniteSet(R)
        BY <2>2, RecordersAre
      <3>2. o \notin R
        BY <1>4, <2>2 DEF Recorders
      <3> QED
        BY <3>1, <3>2
    <2>9. in.shareable \in BOOLEAN
      BY <2>4, ImportsAssumption DEF ImportsAssumption
    <2>10. Stands(g, R \cup {o})
      <3>1. /\ in.status = Plan[o].status /\ in.participants = {Plan[o].to} /\ in.key = Plan[o].key
            /\ in.value = Plan[o].value
        BY <2>4
      <3> QED
        BY <2>5, <2>6, <2>7, <2>8, <2>9, <3>1, RecordingStands, ImportsAssumption
    <2>11. CallWrites(o, b, q)'
      BY <1>1, <1>5, <1>6 DEF CallWrites, Agt
    <2>12. Sole(b, q)'
      BY <1>4, <1>11 DEF OneWriter
    <2>13. ~ HostWrites(b, q)' /\ \A p \in Op : CallWrites(p, b, q)' => p = o
      BY <2>11, <2>12 DEF Sole
    <2>14. Recorders(b, q)' = R
      BY <1>9, <2>2
    <2>15. missions'[b][q] \notin {None, Torn} => FALSE
      BY <1>7
    <2>16. missions'[b][q] # None
      BY <1>7, ImportsAssumption DEF ImportsAssumption
    <2>17. \A p \in Op : CallWrites(p, b, q)' => Stands(call'[p].was, R \cup {p})
      BY <1>5, <1>6, <2>10, <2>13
    <2> QED
      BY <2>13, <2>14, <2>15, <2>16, <2>17 DEF StandsAt
  <1> QED
    BY <1>7, <1>9, <1>10, <1>11, ElsewhereStands

LEMMA WriteRecordedStands ==
  ASSUME IInv, OneWriter, RecordsStand, NEW o \in Op, WriteRecorded(o)
  PROVE  RecordsStand'
  <1>1. PICK b, q, g : b = Agt(o) /\ q = call[o].at /\ g = call[o].was
    OBVIOUS
  <1>2. PICK c : c = [call[o] EXCEPT !.pc = "done", !.ok = TRUE, !.was = None]
    OBVIOUS
  <1>3. /\ o \in Planned /\ Plan[o].kind = "record" /\ call[o].pc = "open" /\ WriteMission(b, q, g)
        /\ Go(o, c) /\ host' = host /\ raced' = raced
    BY <1>1, <1>2 DEF WriteRecorded, Is
  <1>4. b \in Agent /\ q \in Mis /\ call[o] \in CallState /\ MissionOk(outbox, b, g)
    <2>1. b \in Agent
      BY <1>1, ImportsAssumption DEF Agt, ImportsAssumption
    <2>2. call[o] \in CallState /\ CallOk(outbox, o, call[o])
      BY DEF IInv, CallsOk
    <2> QED
      BY <1>1, <1>3, <2>1, <2>2 DEF CallOk
  <1>5. c.pc = "done" /\ c.at = q /\ c.ok
    BY <1>1, <1>2, <1>4 DEF CallState
  <1>6. call'[o] = c /\ \A p \in Op : p # o => call'[p] = call[p]
    BY <1>3, CallGoesTo
  <1>7. /\ missions'[b][q] = g
        /\ \A a \in Agent, r \in Mis : a # b \/ r # q => missions'[a][r] = missions[a][r]
    BY <1>3, <1>4, WriteIs DEF MissionOk
  <1>8. OksStay /\ \A p \in Op : Done(p) => p = o
    <2>1. plan' = plan
      BY DEF WriteRecorded
    <2> QED
      BY <1>1, <1>5, <1>6, <2>1 DEF OksStay, Done
  <1>9. \A a, r : a # b \/ r # q => Recorders(a, r)' = Recorders(a, r)
    <2>1. \A a, r : Recorders(a, r)' = Recorders(a, r) \cup NewRecorders(a, r)
      BY <1>8, RecordersGo
    <2>2. \A a, r : a # b \/ r # q => NewRecorders(a, r) = {}
      BY <1>1, <1>5, <1>6, <1>8, PlannedAre DEF NewRecorders
    <2> QED
      BY <2>1, <2>2
  <1>10. Elsewhere(b, q)
    <2>1. ASSUME NEW a \in Agent, NEW r \in Mis, a # b \/ r # q, NEW p \in Op, CallWrites(p, a, r)'
          PROVE  CallWrites(p, a, r) /\ call'[p].was = call[p].was
      <3>1. p # o
        BY <1>5, <1>6, <2>1 DEF CallWrites, Agt
      <3> QED
        BY <1>6, <2>1, <3>1 DEF CallWrites, Agt
    <2>2. \A a \in Agent, r \in Mis : HostWrites(a, r)' <=> HostWrites(a, r)
      BY <1>3 DEF HostWrites
    <2> QED
      BY <1>3, <1>7, <2>1, <2>2 DEF Elsewhere
  <1>11. ASSUME Kept(b, q)' PROVE StandsAt(b, q)'
    <2>1. Kept(b, q)
      BY <1>3, <1>11 DEF Kept
    <2>2. PICK R : R = Recorders(b, q)
      OBVIOUS
    <2>3. CallWrites(o, b, q)
      BY <1>1, <1>3 DEF CallWrites
    <2>4. Stands(g, R \cup {o})
      BY <1>1, <1>4, <2>1, <2>2, <2>3 DEF RecordsStand, StandsAt
    <2>5. Sole(b, q)
      BY <1>4, <2>1 DEF OneWriter
    <2>6. ~ HostWrites(b, q) /\ \A p \in Op : CallWrites(p, b, q) => p = o
      BY <2>3, <2>5 DEF Sole
    <2>7. ~ HostWrites(b, q)'
      BY <1>3, <2>6 DEF HostWrites
    <2>8. ASSUME NEW p \in Op, CallWrites(p, b, q)' PROVE FALSE
      <3>1. p # o
        BY <1>5, <1>6, <2>8 DEF CallWrites
      <3>2. CallWrites(p, b, q)
        BY <1>6, <2>8, <3>1 DEF CallWrites, Agt
      <3> QED
        BY <2>6, <3>1, <3>2
    <2>9. Recorders(b, q)' = R \cup {o}
      <3>1. NewRecorders(b, q) = {o}
        <4>1. Done(o)
          <5>1. ~ call[o].ok
            BY <1>3 DEF IInv, CallsOk, CallOk
          <5> QED
            BY <1>5, <1>6, <5>1 DEF Done
        <4> QED
          BY <1>1, <1>3, <1>5, <1>6, <1>8, <4>1, PlannedAre DEF NewRecorders
      <3>2. Recorders(b, q)' = Recorders(b, q) \cup NewRecorders(b, q)
        BY <1>8, RecordersGo
      <3> QED
        BY <2>2, <3>1, <3>2
    <2>10. missions'[b][q] # None
      <3>1. g \in MissionRecord
        BY <1>4 DEF MissionOk
      <3> QED
        BY <1>7, <3>1, ImportsAssumption DEF ImportsAssumption
    <2> QED
      BY <1>7, <2>4, <2>7, <2>8, <2>9, <2>10 DEF StandsAt
  <1> QED
    BY <1>3, <1>9, <1>10, <1>11, ElsewhereStands

LEMMA WriteImportedStands ==
  ASSUME IInv, OneWriter, RecordsStand, NEW b \in Agent, WriteImported(b)
  PROVE  RecordsStand'
  <1>1. PICK i, q, g : i = host[b].import /\ q = i.at /\ g = i.was
    OBVIOUS
  <1>2. PICK j : j = [i EXCEPT !.pc = "imported", !.was = None]
    OBVIOUS
  <1>3. /\ i.pc = "open" /\ WriteMission(b, q, g) /\ Hosts(b, [host[b] EXCEPT !.import = j])
        /\ UNCHANGED <<call, plan, raced>>
    BY <1>1, <1>2 DEF WriteImported
  <1>4. q \in Mis /\ i \in ImportState /\ MissionOk(outbox, b, g)
    BY <1>1, <1>3, ImportIs DEF HostOk
  <1>5. j.pc = "imported"
    BY <1>2, <1>4 DEF ImportState
  <1>6. host'[b].import = j /\ \A a \in Agent : a # b => host'[a] = host[a]
    BY <1>3, HostIs, ImportGoesTo
  <1>7. /\ missions'[b][q] = g
        /\ \A a \in Agent, r \in Mis : a # b \/ r # q => missions'[a][r] = missions[a][r]
    BY <1>3, <1>4, WriteIs DEF MissionOk
  <1>8. \A a, r : Recorders(a, r)' = Recorders(a, r)
    BY <1>3 DEF Recorders, Planned, Agt
  <1>9. \A p \in Op : \A a, r : CallWrites(p, a, r)' <=> CallWrites(p, a, r)
    BY <1>3 DEF CallWrites, Agt
  <1>10. Elsewhere(b, q)
    <2>1. \A a \in Agent, r \in Mis : HostWrites(a, r)' => HostWrites(a, r) /\ host'[a].import.was = host[a].import.was
      BY <1>5, <1>6 DEF HostWrites
    <2> QED
      BY <1>3, <1>7, <1>9, <2>1 DEF Elsewhere
  <1>11. ASSUME Kept(b, q)' PROVE StandsAt(b, q)'
    <2>1. Kept(b, q)
      BY <1>3, <1>11 DEF Kept
    <2>2. HostWrites(b, q)
      BY <1>1, <1>3 DEF HostWrites
    <2>3. Stands(g, Recorders(b, q))
      BY <1>1, <1>4, <2>1, <2>2 DEF RecordsStand, StandsAt
    <2>4. Sole(b, q)
      BY <1>4, <2>1 DEF OneWriter
    <2>5. \A p \in Op : ~ CallWrites(p, b, q)'
      BY <1>9, <2>2, <2>4 DEF Sole
    <2>6. ~ HostWrites(b, q)'
      BY <1>5, <1>6 DEF HostWrites
    <2>7. missions'[b][q] # None
      <3>1. g \in MissionRecord
        BY <1>4 DEF MissionOk
      <3> QED
        BY <1>7, <3>1, ImportsAssumption DEF ImportsAssumption
    <2>8. PICK R : R = Recorders(b, q)
      OBVIOUS
    <2>9. Recorders(b, q)' = R
      BY <1>8, <2>8
    <2> QED
      BY <1>7, <2>3, <2>5, <2>6, <2>7, <2>8, <2>9 DEF StandsAt
  <1> QED
    BY <1>3, <1>8, <1>10, <1>11, ElsewhereStands

LEMMA OpenImportedStands ==
  ASSUME IInv, OneWriter', RecordsStand, NEW b \in Agent, OpenImported(b)
  PROVE  RecordsStand'
  <1>1. PICK i, q, was, g, f : /\ i = host[b].import /\ q = i.at /\ was = i.was /\ g = MissionLanding(i) /\ f = i.file
    OBVIOUS
  <1>2. PICK j : j = [i EXCEPT !.pc = "open", !.was = g]
    OBVIOUS
  <1>3. /\ i.pc = "read" /\ f.kind = "share_mission" /\ OpenMission(b, q, was)
        /\ Hosts(b, [host[b] EXCEPT !.import = j]) /\ UNCHANGED <<call, plan>>
    BY <1>1, <1>2 DEF OpenImported, MissionLanding
  <1>4. q \in Mis /\ i \in ImportState /\ f \in host[b].batch
    BY <1>1, <1>3, ImportIs DEF HostOk
  <1>5. j.pc = "open" /\ j.at = q /\ j.was = g
    BY <1>1, <1>2, <1>4 DEF ImportState
  <1>6. host'[b].import = j /\ \A a \in Agent : a # b => host'[a] = host[a]
    BY <1>3, HostIs, ImportGoesTo
  <1>7. PICK m : m = IF was = None THEN NewMission ELSE was
    OBVIOUS
  <1>8. m \in MissionRecord /\ g \in MissionRecord /\ MissionMerged(g, m, f.env, f.from)
    BY <1>1, <1>3, <1>7, LandingRows DEF MissionOk
  <1>9. f.from \in Agent
    <2>1. f \in File
      BY <1>4, InBatch
    <2> QED
      BY <2>1 DEF File
  <1>10. was # Torn
    BY <1>7, <1>8, ImportsAssumption DEF ImportsAssumption
  <1>11. /\ missions'[b][q] = Torn
         /\ \A a \in Agent, r \in Mis : a # b \/ r # q => missions'[a][r] = missions[a][r]
         /\ missions[b][q] = was \/ <<b, q>> \in raced'
         /\ raced \subseteq raced'
    BY <1>3, <1>4, OpenIs
  <1>12. \A a, r : Recorders(a, r)' = Recorders(a, r)
    BY <1>3 DEF Recorders, Planned, Agt
  <1>13. \A p \in Op : \A a, r : CallWrites(p, a, r)' <=> CallWrites(p, a, r)
    BY <1>3 DEF CallWrites, Agt
  <1>14. Elsewhere(b, q)
    <2>1. \A a \in Agent, r \in Mis : (a # b \/ r # q) /\ HostWrites(a, r)' =>
            HostWrites(a, r) /\ host'[a].import.was = host[a].import.was
      BY <1>5, <1>6 DEF HostWrites
    <2> QED
      BY <1>3, <1>11, <1>13, <2>1 DEF Elsewhere
  <1>15. ASSUME Kept(b, q)' PROVE StandsAt(b, q)'
    <2>1. Kept(b, q) /\ missions[b][q] = was
      BY <1>11, <1>15 DEF Kept
    <2>2. PICK R : R = Recorders(b, q)
      OBVIOUS
    <2>3. /\ was = None => R = {}
          /\ was \notin {None, Torn} => Stands(was, R)
      BY <1>4, <2>1, <2>2 DEF RecordsStand, StandsAt
    <2>4. Stands(m, R)
      BY <1>7, <1>10, <2>3, NewStands
    <2>5. PICK env, from : env = f.env /\ from = f.from
      OBVIOUS
    <2>6. Stands(g, R)
      BY <1>8, <1>9, <2>4, <2>5, MergingStands, ProfileShareAssumption
    <2>7. HostWrites(b, q)'
      BY <1>5, <1>6 DEF HostWrites
    <2>8. Sole(b, q)'
      BY <1>4, <1>15 DEF OneWriter
    <2>9. \A p \in Op : ~ CallWrites(p, b, q)'
      BY <2>7, <2>8 DEF Sole
    <2>10. Recorders(b, q)' = R
      BY <1>12, <2>2
    <2>11. missions'[b][q] # None
      BY <1>11, ImportsAssumption DEF ImportsAssumption
    <2>12. host'[b].import.was = g
      BY <1>5, <1>6
    <2> QED
      BY <1>11, <2>6, <2>9, <2>10, <2>11, <2>12 DEF StandsAt
  <1> QED
    BY <1>11, <1>12, <1>14, <1>15, ElsewhereStands

LEMMA CrashKeepsOks ==
  ASSUME IInv, NEW b \in Agent, Crash(b)
  PROVE  OksStay /\ \A p \in Op : ~ Done(p)
  <1>1. /\ call' = [o \in Op |-> IF Agt(o) = b /\ call[o].pc \in {"read", "open"}
                                 THEN [call[o] EXCEPT !.pc = "done", !.was = None] ELSE call[o]]
        /\ plan' = plan
    BY DEF Crash
  <1>2. ASSUME NEW p \in Op PROVE call'[p].ok = call[p].ok /\ call'[p].at = call[p].at
    <2>1. CASE Agt(p) = b /\ call[p].pc \in {"read", "open"}
      <3>1. PICK c : c = [call[p] EXCEPT !.pc = "done", !.was = None]
        OBVIOUS
      <3>2. c.ok = call[p].ok /\ c.at = call[p].at
        BY <3>1 DEF IInv, CallsOk, CallState
      <3> QED
        BY <1>1, <2>1, <3>1, <3>2
    <2>2. CASE ~ (Agt(p) = b /\ call[p].pc \in {"read", "open"})
      BY <1>1, <2>2
    <2> QED
      BY <2>1, <2>2
  <1> QED
    BY <1>1, <1>2 DEF OksStay, Done

\* What a crash was writing is torn, and what is torn is known.
LEMMA CrashStands ==
  ASSUME IInv, OneWriter, RecordsStand, NEW b \in Agent, Crash(b)
  PROVE  RecordsStand'
  <1>1. OksStay /\ \A p \in Op : ~ Done(p)
    BY CrashKeepsOks
  <1>2. \A a, r : Recorders(a, r)' = Recorders(a, r)
    <2>1. \A a, r : Recorders(a, r)' = Recorders(a, r) \cup NewRecorders(a, r)
      BY <1>1, RecordersGo
    <2>2. \A a, r : NewRecorders(a, r) = {}
      BY <1>1, PlannedAre DEF NewRecorders
    <2> QED
      BY <2>1, <2>2
  <1>3. /\ call' = [o \in Op |-> IF Agt(o) = b /\ call[o].pc \in {"read", "open"}
                                 THEN [call[o] EXCEPT !.pc = "done", !.was = None] ELSE call[o]]
        /\ host' = [host EXCEPT ![b] = [batch |-> {}, import |-> NoImport]]
        /\ raced' = raced \cup {<<b, r>> : r \in {r \in Mis : missions[b][r] = Torn}}
        /\ missions' = missions
    BY DEF Crash
  <1>4. host'[b].import.pc = "idle" /\ \A a \in Agent : a # b => host'[a] = host[a]
    <2>1. PICK h : h = [batch |-> {}, import |-> NoImport]
      OBVIOUS
    <2>2. h.import.pc = "idle" /\ host' = [host EXCEPT ![b] = h]
      BY <1>3, <2>1 DEF NoImport
    <2> QED
      BY <2>2 DEF IInv, HostsOk
  <1>5. \A a \in Agent, r \in Mis : HostWrites(a, r)' => HostWrites(a, r) /\ host'[a].import.was = host[a].import.was
    BY <1>4 DEF HostWrites
  <1>6. ASSUME NEW a \in Agent, NEW r \in Mis, NEW p \in Op, CallWrites(p, a, r)'
        PROVE  CallWrites(p, a, r) /\ call'[p].was = call[p].was
    <2>1. CASE Agt(p) = b /\ call[p].pc \in {"read", "open"}
      <3>1. PICK c : c = [call[p] EXCEPT !.pc = "done", !.was = None]
        OBVIOUS
      <3>2. c.pc = "done"
        BY <3>1 DEF IInv, CallsOk, CallState
      <3>3. call'[p] = c
        BY <1>3, <2>1, <3>1
      <3> QED
        BY <1>6, <3>2, <3>3 DEF CallWrites
    <2>2. CASE ~ (Agt(p) = b /\ call[p].pc \in {"read", "open"})
      <3>1. call'[p] = call[p]
        BY <1>3, <2>2
      <3> QED
        BY <1>6, <3>1 DEF CallWrites, Agt
    <2> QED
      BY <2>1, <2>2
  <1> SUFFICES ASSUME NEW a \in Agent, NEW r \in Mis, Kept(a, r)' PROVE StandsAt(a, r)'
    BY DEF RecordsStand
  <1>7. StandsAt(a, r)
    BY <1>3 DEF Kept, RecordsStand
  <1>8. LeftAlone(a, r)
    BY <1>2, <1>3, <1>5, <1>6 DEF LeftAlone
  <1> QED
    BY <1>7, <1>8, AloneStands

LEMMA NextStands ==
  ASSUME IInv, OneWriter, OneWriter', RecordsStand, [Next]_vars
  PROVE  RecordsStand'
  <1>1. ASSUME NEW o \in Op, CallStep(o) PROVE RecordsStand'
    <2>1. CASE OpenRecorded(o) \/ WriteRecorded(o)
      BY <2>1, OpenRecordedStands, WriteRecordedStands
    <2>2. CASE ~ OpenRecorded(o) /\ ~ WriteRecorded(o)
      <3>1. Quiet
        BY <1>1, <2>2, CallsQuiet
      <3>2. OksStay /\ \A p \in Op : Done(p) => Plan[p].kind # "record"
        <4>1. /\ OksStay
              /\ \A p \in Op : Done(p) => p = o
              /\ \A p \in Op : Done(p) /\ Plan[p].kind = "record" => WriteRecorded(p)
          BY <1>1, CallsDone
        <4> QED
          BY <2>2, <4>1
      <3> QED
        BY <3>1, <3>2, QuietStands
    <2> QED
      BY <2>1, <2>2
  <1>2. ASSUME UNCHANGED <<call, plan>> PROVE OksStay /\ \A p \in Op : ~ Done(p)
    BY <1>2 DEF OksStay, Done
  <1>3. ASSUME NEW a \in Agent, HostStep(a) PROVE RecordsStand'
    <2>1. CASE OpenImported(a) \/ WriteImported(a)
      BY <2>1, OpenImportedStands, WriteImportedStands
    <2>2. CASE ~ OpenImported(a) /\ ~ WriteImported(a)
      <3>1. Quiet
        BY <1>3, <2>2, HostsQuiet
      <3>2. UNCHANGED <<call, plan>>
        BY <1>3 DEF HostStep, Poll, StartImport, ImportProfile, OpenImported, WriteImported, Mark, Marks
      <3> QED
        BY <1>2, <3>1, <3>2, QuietStands
    <2> QED
      BY <2>1, <2>2
  <1>4. ASSUME Tick \/ UNCHANGED vars PROVE RecordsStand'
    <2>1. Quiet /\ UNCHANGED <<call, plan>>
      BY <1>4 DEF Tick, vars, Quiet
    <2> QED
      BY <1>2, <2>1, QuietStands
  <1> QED
    BY <1>1, <1>3, <1>4, CrashStands DEF Next

LEMMA InitStands ==
  ASSUME Init
  PROVE  RecordsStand
  <1>1. \A o \in Op : call[o].pc = "todo" /\ ~ call[o].ok
    BY DEF Init, NoCall
  <1>2. \A a \in Agent : host[a].import.pc = "idle"
    <2> SUFFICES ASSUME NEW a \in Agent PROVE host[a].import.pc = "idle"
      OBVIOUS
    <2>1. host[a] = [batch |-> {}, import |-> NoImport]
      BY DEF Init
    <2> QED
      BY <2>1 DEF NoImport
  <1>3. \A a, r : Recorders(a, r) = {}
    <2>1. IInv
      BY InitOk
    <2> QED
      BY <1>1, <2>1, PlannedAre DEF Recorders
  <1>4. \A a \in Agent, r \in Mis : missions[a][r] = None
    BY DEF Init
  <1> QED
    BY <1>1, <1>2, <1>3, <1>4 DEF RecordsStand, StandsAt, CallWrites, HostWrites

-----------------------------------------------------------------------------
(* What is noted first-hand of a friend.                                   *)

\* A note of k that one of the calls that are done has put.
NoteBy(a, r, k) ==
  LET n == friends[a][r].notes[k]
  IN  n # None /\ \E p \in Planned :
        /\ Agt(p) = a /\ Plan[p].kind = "note" /\ call[p].ok /\ call[p].at = r /\ Plan[p].key = k
        /\ IF Plan[p].from = None THEN n.value = Plan[p].value /\ n.from = None ELSE n.from # None

NoteKept(a, r, k) == r \in Records(a) /\ (Kept(a, r) => NoteBy(a, r, k))

NotesStand ==
  \A o \in Planned, a \in Agent, r \in Rec \cup Mis \cup {None} :
    call[o].ok /\ Plan[o].kind = "note" /\ a = Agt(o) /\ r = call[o].at => NoteKept(a, r, Plan[o].key)

\* A step after which the records that are kept have the notes they had.
NotesSame ==
  /\ raced \subseteq raced' /\ \A a \in Agent : Records(a) \subseteq Records(a)'
  /\ \A a \in Agent : \A r \in Records(a) : friends'[a][r].notes = friends[a][r].notes \/ <<a, r>> \in raced'

LEMMA SameNotesStand ==
  ASSUME IInv, NotesStand, NotesSame, OksStay, \A p \in Op : Done(p) => Plan[p].kind # "note"
  PROVE  NotesStand'
  <1>1. Planned' = Planned
    BY DEF OksStay, Planned
  <1> SUFFICES ASSUME NEW o \in Planned, NEW a \in Agent, NEW r \in Rec \cup Mis \cup {None},
                      call'[o].ok, Plan[o].kind = "note", a = Agt(o), r = call'[o].at
               PROVE  NoteKept(a, r, Plan[o].key)'
    BY <1>1 DEF NotesStand, Agt
  <1>2. PICK k : k = Plan[o].key
    OBVIOUS
  <1>3. o \in Op /\ call[o].ok /\ call[o].at = r
    BY PlannedAre DEF Done, OksStay
  <1>4. r \in Records(a) /\ (Kept(a, r) => NoteBy(a, r, k))
    BY <1>2, <1>3 DEF NotesStand, NoteKept
  <1>5. r \in Records(a)'
    BY <1>3, <1>4 DEF NotesSame
  <1>6. ASSUME Kept(a, r)' PROVE NoteBy(a, r, k)'
    <2>1. NoteBy(a, r, k) /\ friends'[a][r].notes = friends[a][r].notes
      BY <1>3, <1>4, <1>6 DEF NotesSame, Kept
    <2>2. PICK n : n = friends[a][r].notes[k]
      OBVIOUS
    <2>3. PICK p \in Planned :
            /\ Agt(p) = a /\ Plan[p].kind = "note" /\ call[p].ok /\ call[p].at = r /\ Plan[p].key = k
            /\ IF Plan[p].from = None THEN n.value = Plan[p].value /\ n.from = None ELSE n.from # None
      BY <2>1, <2>2 DEF NoteBy
    <2>4. n # None /\ n = friends'[a][r].notes[k]
      BY <2>1, <2>2 DEF NoteBy
    <2>5. call'[p].ok /\ call'[p].at = r
      BY <2>3, PlannedAre DEF OksStay
    <2> QED
      BY <1>1, <2>3, <2>4, <2>5 DEF NoteBy, Agt
  <1> QED
    BY <1>2, <1>5, <1>6 DEF NoteKept

\* A put of the record that was read, with other notes or the same.
LEMMA PutsNotes ==
  ASSUME IInv, NEW b \in Agent, NEW q \in Rec, NEW was, NEW g \in FriendRecord, PutFriend(b, q, was, g),
         was # None => g.notes = was.notes
  PROVE  NotesSame
  <1>1. /\ friends'[b][q] = g
        /\ friends[b][q] = was \/ <<b, q>> \in raced'
        /\ raced \subseteq raced'
    BY PutIs
  <1>2. \A a \in Agent, r \in Rec : a # b \/ r # q => friends'[a][r] = friends[a][r]
    BY PutIs
  <1>3. g # None
    BY ImportsAssumption DEF ImportsAssumption
  <1>4. \A a \in Agent : Records(a) \subseteq Records(a)'
    BY <1>1, <1>2, <1>3 DEF Records
  <1>5. ASSUME NEW a \in Agent, NEW r \in Records(a) PROVE friends'[a][r].notes = friends[a][r].notes \/ <<a, r>> \in raced'
    <2>1. r \in Rec /\ friends[a][r] # None
      BY DEF Records
    <2>2. CASE a # b \/ r # q
      BY <1>2, <2>1, <2>2
    <2>3. CASE a = b /\ r = q
      BY <1>1, <2>1, <2>3
    <2> QED
      BY <2>2, <2>3
  <1> QED
    BY <1>1, <1>4, <1>5 DEF NotesSame

LEMMA SaveNoteStands ==
  ASSUME IInv, NotesStand, NEW o \in Op, SaveNote(o)
  PROVE  NotesStand'
  <1>1. PICK b, q, was, g : PutOf(o, b, q, was, g)
    BY CallPuts
  <1>2. Plan[o].kind = "note" /\ call[o].pc = "read" /\ o \in Planned /\ b = Agt(o) /\ b \in Agent /\ q = call[o].at /\ q \in Rec
    BY <1>1 DEF PutOf, SaveNote, Is
  <1>3. was \in FriendRecord /\ g \in FriendRecord
    BY <1>1 DEF PutOf, FriendOk
  <1>4. PICK k, n : k = Plan[o].key /\ n = [value |-> Content(o, was), shareable |-> FALSE, from |-> Source(o, was)]
    OBVIOUS
  <1>5. g.notes = [was.notes EXCEPT ![k] = n]
    BY <1>1, <1>2, <1>4 DEF PutOf
  <1>6. k \in Key /\ was.notes \in [Key -> Note \cup {None}] /\ was.imported \in [Agent -> [Key -> Told \cup {None}]]
    BY <1>3, <1>4, ImportsAssumption DEF ImportsAssumption, FriendRecord, Notes
  <1>7. /\ IF Plan[o].from = None THEN n.value = Plan[o].value /\ n.from = None ELSE n.from # None
        /\ n \in Note
    <2>1. CASE Plan[o].from = None
      <3>1. n = [value |-> Plan[o].value, shareable |-> FALSE, from |-> None]
        BY <1>4, <2>1 DEF Content, Source
      <3>2. Plan[o].value \in Value
        BY ImportsAssumption DEF ImportsAssumption
      <3> QED
        BY <2>1, <3>1, <3>2 DEF Note
    <2>2. CASE Plan[o].from # None
      <3>1. PICK s : s = Plan[o].from
        OBVIOUS
      <3>2. s \in Agent
        BY <2>2, <3>1, ImportsAssumption DEF ImportsAssumption
      <3>3. was.imported[s][k] # None
        <4>1. CallOk(outbox, o, call[o]) /\ was = call[o].was
          BY <1>1 DEF IInv, CallsOk, PutOf
        <4> QED
          BY <1>2, <1>4, <2>2, <3>1, <4>1 DEF CallOk
      <3>4. was.imported[s][k] \in Told
        BY <1>6, <3>2, <3>3
      <3>5. was.imported[s][k].originally \in Agent /\ was.imported[s][k].value \in Value
        BY <3>4 DEF Told
      <3>6. n = [value |-> was.imported[s][k].value, shareable |-> FALSE, from |-> was.imported[s][k].originally]
        BY <1>4, <2>2, <3>1 DEF Content, Source
      <3>7. n \in Note
        BY <3>5, <3>6 DEF Note
      <3> QED
        BY <2>2, <3>5, <3>6, <3>7, ProfileShareAssumption DEF ProfileShareAssumption
    <2> QED
      BY <2>1, <2>2
  <1>8. n # None
    BY <1>7, ImportsAssumption DEF ImportsAssumption
  <1>9. /\ friends'[b][q] = g
        /\ friends[b][q] = was \/ <<b, q>> \in raced'
        /\ raced \subseteq raced'
    BY <1>1, <1>2, <1>3, PutIs DEF PutOf
  <1>10. \A a \in Agent, r \in Rec : a # b \/ r # q => friends'[a][r] = friends[a][r]
    BY <1>1, <1>2, <1>3, PutIs DEF PutOf
  <1>11. OksStay /\ \A p \in Op : Done(p) => p = o
    <2>1. CallStep(o)
      BY DEF CallStep
    <2> QED
      BY <2>1, CallsDone
  <1>12. call'[o].ok /\ call'[o].at = q /\ Planned' = Planned
    <2>1. PICK c : c = [call[o] EXCEPT !.pc = "done", !.ok = TRUE, !.was = None]
      OBVIOUS
    <2>2. c.ok /\ c.at = q
      BY <1>2, <2>1 DEF IInv, CallsOk, CallState
    <2>3. call'[o] = c
      BY <1>1, <2>1 DEF PutOf, IInv, CallsOk
    <2> QED
      BY <1>11, <2>2, <2>3 DEF OksStay, Planned
  <1>13. g # None
    BY <1>3, ImportsAssumption DEF ImportsAssumption
  <1>14. \A a \in Agent : Records(a) \subseteq Records(a)'
    BY <1>9, <1>10, <1>13 DEF Records
  <1>15. NoteBy(b, q, k)'
    <2>1. friends'[b][q].notes[k] = n
      BY <1>5, <1>6, <1>9
    <2>2. n = friends'[b][q].notes[k] /\ n # None
      BY <1>8, <2>1
    <2> QED
      BY <1>2, <1>4, <1>7, <1>12, <2>2 DEF NoteBy, Agt
  <1>16. ASSUME NEW p \in Planned, NEW a \in Agent, NEW r \in Rec \cup Mis \cup {None}, NEW l,
                call'[p].ok, Plan[p].kind = "note", a = Agt(p), r = call'[p].at, l = Plan[p].key
         PROVE  r \in Records(a)' /\ (Kept(a, r)' => NoteBy(a, r, l)')
    <2>1. CASE p = o
      <3>1. a = b /\ r = q /\ l = k
        BY <1>2, <1>4, <1>12, <1>16, <2>1
      <3>2. q \in Records(b)'
        BY <1>2, <1>9, <1>13 DEF Records
      <3> QED
        BY <1>15, <3>1, <3>2
    <2>2. CASE p # o
      <3>1. p \in Op /\ call[p].ok /\ call[p].at = r
        BY <1>11, <1>16, <2>2, PlannedAre DEF Done, OksStay
      <3>2. r \in Records(a) /\ (Kept(a, r) => NoteBy(a, r, l))
        BY <1>16, <3>1 DEF NotesStand, NoteKept
      <3>3. r \in Records(a)' /\ r \in Rec /\ l \in Key
        BY <1>14, <1>16, <3>1, <3>2, ImportsAssumption DEF Records, ImportsAssumption
      <3>4. ASSUME Kept(a, r)', ~ (a = b /\ r = q /\ l = k) PROVE NoteBy(a, r, l)'
        <4>1. NoteBy(a, r, l)
          BY <1>9, <3>2, <3>4 DEF Kept
        <4>2. friends'[a][r].notes[l] = friends[a][r].notes[l]
          <5>1. CASE a # b \/ r # q
            BY <1>10, <3>1, <3>3, <5>1
          <5>2. CASE a = b /\ r = q
            <6>1. friends[a][r] = was /\ friends'[a][r] = g /\ l # k
              BY <1>9, <3>4, <5>2 DEF Kept
            <6> QED
              BY <1>5, <1>6, <3>3, <6>1
          <5> QED
            BY <5>1, <5>2
        <4>3. PICK m : m = friends[a][r].notes[l]
          OBVIOUS
        <4>4. PICK e \in Planned :
                /\ Agt(e) = a /\ Plan[e].kind = "note" /\ call[e].ok /\ call[e].at = r /\ Plan[e].key = l
                /\ IF Plan[e].from = None THEN m.value = Plan[e].value /\ m.from = None ELSE m.from # None
          BY <4>1, <4>3 DEF NoteBy
        <4>5. m # None /\ m = friends'[a][r].notes[l]
          BY <4>1, <4>2, <4>3 DEF NoteBy
        <4>6. call'[e].ok /\ call'[e].at = r
          BY <1>11, <4>4, PlannedAre DEF OksStay
        <4> QED
          BY <1>12, <4>4, <4>5, <4>6 DEF NoteBy, Agt
      <3> QED
        BY <1>15, <3>3, <3>4
    <2> QED
      BY <2>1, <2>2
  <1>17. ASSUME NEW p \in Planned, NEW a \in Agent, NEW r \in Rec \cup Mis \cup {None},
                call'[p].ok, Plan[p].kind = "note", a = Agt(p), r = call'[p].at
         PROVE  NoteKept(a, r, Plan[p].key)'
    <2>1. PICK l : l = Plan[p].key
      OBVIOUS
    <2>2. r \in Records(a)' /\ (Kept(a, r)' => NoteBy(a, r, l)')
      BY <1>16, <1>17, <2>1
    <2> QED
      BY <2>1, <2>2 DEF NoteKept
  <1> QED
    BY <1>12, <1>17 DEF NotesStand, Agt

LEMMA ImportProfileNotes ==
  ASSUME IInv, NEW b \in Agent, ImportProfile(b)
  PROVE  NotesSame
  <1>1. PICK i, q, was, g : i = host[b].import /\ q = i.at /\ was = i.was /\ g = Landing(i)
    OBVIOUS
  <1>2. i.pc = "read" /\ i.file.kind = "share_profile" /\ PutFriend(b, q, was, g)
    BY <1>1 DEF ImportProfile, Landing
  <1>3. q \in Rec /\ g \in FriendRecord
    BY <1>1, <1>2, LandingOk DEF FriendOk
  <1>4. ASSUME was # None PROVE g.notes = was.notes
    <2>1. PICK f : f = i.file
      OBVIOUS
    <2>2. was \in FriendRecord
      BY <1>1, <1>2, <1>4 DEF IInv, HostsOk, HostOk, FriendOk
    <2>3. g = ApplyToRecord(was, f.env, f.from)
      BY <1>1, <1>4, <2>1 DEF Landing
    <2>4. \A m, c : [was EXCEPT !.imported = m, !.claims = c].notes = was.notes
      BY <2>2 DEF FriendRecord
    <2> QED
      BY <2>3, <2>4 DEF ApplyToRecord
  <1> QED
    BY <1>2, <1>3, <1>4, PutsNotes

LEMMA NextNotes ==
  ASSUME IInv, NotesStand, [Next]_vars
  PROVE  NotesStand'
  <1>1. ASSUME friends' = friends, raced \subseteq raced' PROVE NotesSame
    BY <1>1 DEF NotesSame, Records
  <1>2. ASSUME NEW o \in Op, CallStep(o) PROVE NotesStand'
    <2>1. CASE SaveNote(o)
      BY <2>1, SaveNoteStands
    <2>2. CASE ~ SaveNote(o)
      <3>1. OksStay /\ \A p \in Op : Done(p) => Plan[p].kind # "note"
        <4>1. /\ OksStay
              /\ \A p \in Op : Done(p) => p = o
              /\ \A p \in Op : Done(p) /\ Plan[p].kind = "note" => SaveNote(p)
          BY <1>2, CallsDone
        <4> QED
          BY <2>2, <4>1
      <3>2. CASE RecordInteraction(o) \/ ChangeIds(o)
        <4>1. PICK b, q, was, g : PutOf(o, b, q, was, g)
          BY <3>2, CallPuts
        <4>2. Plan[o].kind # "note"
          BY <3>2 DEF RecordInteraction, ChangeIds, Is
        <4>3. g.notes = was.notes /\ g \in FriendRecord /\ b \in Agent /\ q \in Rec /\ PutFriend(b, q, was, g)
          BY <4>1, <4>2 DEF PutOf, FriendOk
        <4>4. NotesSame
          BY <4>3, PutsNotes
        <4> QED
          BY <3>1, <4>4, SameNotesStand
      <3>3. CASE ~ RecordInteraction(o) /\ ~ ChangeIds(o)
        <4>1. friends' = friends /\ raced \subseteq raced'
          BY <1>2, <2>2, <3>3 DEF CallStep, GetFriend, GetMission, OpenRecorded, WriteRecorded, Send, OpenMission
        <4> QED
          BY <1>1, <3>1, <4>1, SameNotesStand
      <3> QED
        BY <3>2, <3>3
    <2> QED
      BY <2>1, <2>2
  <1>3. ASSUME UNCHANGED <<call, plan>> PROVE OksStay /\ \A p \in Op : ~ Done(p)
    BY <1>3 DEF OksStay, Done
  <1>4. ASSUME NEW a \in Agent, HostStep(a) PROVE NotesStand'
    <2>1. UNCHANGED <<call, plan>>
      BY <1>4 DEF HostStep, Poll, StartImport, ImportProfile, OpenImported, WriteImported, Mark, Marks
    <2>2. CASE ImportProfile(a)
      BY <1>3, <2>1, <2>2, ImportProfileNotes, SameNotesStand
    <2>3. CASE ~ ImportProfile(a)
      <3>1. friends' = friends /\ raced \subseteq raced'
        BY <1>4, <2>3 DEF HostStep, Poll, StartImport, OpenImported, WriteImported, Mark, Marks, OpenMission
      <3> QED
        BY <1>1, <1>3, <2>1, <3>1, SameNotesStand
    <2> QED
      BY <2>2, <2>3
  <1>5. ASSUME NEW b \in Agent, Crash(b) PROVE NotesStand'
    <2>1. friends' = friends /\ raced \subseteq raced'
      BY <1>5 DEF Crash
    <2> QED
      BY <1>1, <1>5, <2>1, CrashKeepsOks, SameNotesStand
  <1>6. ASSUME Tick \/ UNCHANGED vars PROVE NotesStand'
    <2>1. friends' = friends /\ raced' = raced /\ UNCHANGED <<call, plan>>
      BY <1>6 DEF Tick, vars
    <2> QED
      BY <1>1, <1>3, <2>1, SameNotesStand
  <1> QED
    BY <1>2, <1>4, <1>5, <1>6 DEF Next

\* What a call has recorded, it has recorded of a mission.
RecordsOfMissions == \A o \in Op : Plan[o].kind = "record" /\ call[o].ok => call[o].at \in Mis

LEMMA NextOfMissions ==
  ASSUME IInv, RecordsOfMissions, [Next]_vars
  PROVE  RecordsOfMissions'
  <1>1. ASSUME OksStay, \A p \in Op : Done(p) /\ Plan[p].kind = "record" => call'[p].at \in Mis
        PROVE  RecordsOfMissions'
    <2> SUFFICES ASSUME NEW o \in Op, Plan[o].kind = "record", call'[o].ok PROVE call'[o].at \in Mis
      BY DEF RecordsOfMissions
    <2>1. CASE Done(o)
      BY <1>1, <2>1
    <2>2. CASE ~ Done(o)
      BY <1>1, <2>2 DEF Done, OksStay, RecordsOfMissions
    <2> QED
      BY <2>1, <2>2
  <1>2. ASSUME NEW o \in Op, CallStep(o) PROVE RecordsOfMissions'
    <2>1. /\ OksStay
          /\ \A p \in Op : Done(p) => call'[p].at = call[p].at
          /\ \A p \in Op : Done(p) /\ Plan[p].kind = "record" => WriteRecorded(p)
      BY <1>2, CallsDone
    <2>2. ASSUME NEW p \in Op, WriteRecorded(p) PROVE call[p].at \in Mis
      <3>1. call[p].pc = "open" /\ CallOk(outbox, p, call[p])
        BY <2>2 DEF WriteRecorded, Is, IInv, CallsOk
      <3> QED
        BY <3>1 DEF CallOk
    <2> QED
      BY <1>1, <2>1, <2>2
  <1>3. ASSUME UNCHANGED <<call, plan>> PROVE OksStay /\ \A p \in Op : ~ Done(p)
    BY <1>3 DEF OksStay, Done
  <1>4. ASSUME NEW a \in Agent, HostStep(a) PROVE UNCHANGED <<call, plan>>
    BY <1>4 DEF HostStep, Poll, StartImport, ImportProfile, OpenImported, WriteImported, Mark, Marks
  <1>5. ASSUME Tick \/ UNCHANGED vars PROVE UNCHANGED <<call, plan>>
    BY <1>5 DEF Tick, vars
  <1> QED
    BY <1>1, <1>2, <1>3, <1>4, <1>5, CrashKeepsOks DEF Next

\* What an agent recorded or noted first-hand stands (FirstHandStands).
THEOREM WhatIsFirstHandStands == Spec => []FirstHandStands
  <1> DEFINE FInv == OneWriter /\ RecordsStand /\ NotesStand /\ RecordsOfMissions
  <1>1. Init => FInv
    <2> SUFFICES ASSUME Init PROVE FInv
      OBVIOUS
    <2>1. \A o \in Op : ~ call[o].ok
      BY DEF Init, NoCall
    <2>2. IInv
      BY InitOk
    <2>3. NotesStand
      BY <2>1, <2>2, PlannedAre DEF NotesStand
    <2>4. RecordsOfMissions
      BY <2>1 DEF RecordsOfMissions
    <2> QED
      BY <2>3, <2>4, InitWrites, InitStands
  <1>2. IInv /\ FInv /\ [Next]_vars => FInv'
    BY NextWrites, NextStands, NextNotes, NextOfMissions
  <1>3. IInv /\ FInv => FirstHandStands
    <2> SUFFICES ASSUME IInv, OneWriter, RecordsStand, NotesStand, RecordsOfMissions,
                        NEW o \in Planned, call[o].ok, Kept(Agt(o), call[o].at)
                 PROVE  /\ Plan[o].kind = "note" => NoteStands(o)
                        /\ Plan[o].kind = "record" => RecordStands(o)
      BY DEF FirstHandStands
    <2>1. PICK a, r : a = Agt(o) /\ r = call[o].at
      OBVIOUS
    <2>2. /\ o \in Op /\ a \in Agent /\ Kept(a, r) /\ r \in Rec \cup Mis \cup {None}
      <3>1. o \in Op
        BY PlannedAre
      <3>2. call[o] \in CallState
        BY <3>1 DEF IInv, CallsOk
      <3> QED
        BY <2>1, <3>1, <3>2, ImportsAssumption DEF Agt, ImportsAssumption, CallState
    <2>3. ASSUME Plan[o].kind = "note" PROVE NoteStands(o)
      <3>1. PICK k : k = Plan[o].key
        OBVIOUS
      <3>2. NoteBy(a, r, k)
        BY <2>1, <2>2, <2>3, <3>1 DEF NotesStand, NoteKept
      <3>3. PICK n : n = friends[a][r].notes[k]
        OBVIOUS
      <3>4. n # None
        BY <3>2, <3>3 DEF NoteBy
      <3>5. PICK p \in Planned :
              /\ Agt(p) = a /\ Plan[p].kind = "note" /\ call[p].ok /\ call[p].at = r /\ Plan[p].key = k
              /\ IF Plan[p].from = None THEN n.value = Plan[p].value /\ n.from = None ELSE n.from # None
        BY <3>2, <3>3 DEF NoteBy
      <3>6. p \in Op /\ Twin(o, p)
        BY <2>1, <2>3, <3>5, PlannedAre DEF Twin
      <3> QED
        BY <2>1, <3>1, <3>3, <3>4, <3>5, <3>6 DEF NoteStands
    <2>4. ASSUME Plan[o].kind = "record" PROVE RecordStands(o)
      <3>1. PICK m, R : m = missions[a][r] /\ R = Recorders(a, r)
        OBVIOUS
      <3>2. r \in Mis /\ o \in R
        BY <2>1, <2>2, <2>4, <3>1 DEF RecordsOfMissions, Recorders
      <3>3. StandsAt(a, r)
        BY <2>2, <3>2 DEF RecordsStand
      <3>4. {p \in Op : Twin(o, p)} = R
        BY <2>1, <2>4, <3>1, PlannedAre DEF Twin, Recorders
      <3>5. ASSUME m # Torn
            PROVE  /\ Plan[o].to \in m.participants
                   /\ \E p \in Op : Twin(o, p) /\ Plan[p].status = m.status
                   /\ m.learnings[Plan[o].key] # None
                   /\ \E n \in Own(m) : m.outcomes[n].value = Plan[o].value
                   /\ Cardinality(Own(m)) = Cardinality({p \in Op : Twin(o, p)})
        <4>1. Stands(m, R)
          BY <3>1, <3>2, <3>3, <3>5 DEF StandsAt
        <4>2. \E p \in Op : Twin(o, p) /\ Plan[p].status = m.status
          <5>1. PICK p \in R : Plan[p].status = m.status
            BY <3>2, <4>1 DEF Stands
          <5>2. p \in {e \in Op : Twin(o, e)}
            BY <3>4, <5>1
          <5> QED
            BY <5>1, <5>2
        <4> QED
          BY <3>2, <3>4, <4>1, <4>2 DEF Stands
      <3>6. Own(m) = {n \in DOMAIN m.outcomes : m.outcomes[n].by = None}
        BY DEF Own
      <3> QED
        BY <2>1, <3>1, <3>5, <3>6 DEF RecordStands
    <2> QED
      BY <2>3, <2>4
  <1> HIDE DEF FInv
  <1>4. Spec => []FInv
    BY <1>1, <1>2, ImportsInductive, PTL DEF Spec
  <1> QED
    BY <1>3, <1>4, ImportsInductive, PTL

-----------------------------------------------------------------------------
(* What a peer's shares have seeded.                                       *)

\* What a profile share leaves of the ids and the claims of the record it lands on.
ClaimsLand(g, was, ids, from) ==
  /\ was = None => /\ g.ids = {} /\ Claims(g, from) = ids
                   /\ \A s \in Agent : s # from => Claims(g, s) = {}
  /\ was # None => /\ g.ids = was.ids
                   /\ \A s \in Agent : s # from => Claims(g, s) = Claims(was, s)
                   /\ MergedRight(g.claims, was.claims, ids \ was.ids, from)

LEMMA AppliedIs ==
  ASSUME NEW x \in FriendRecord, NEW env, NEW from
  PROVE  /\ ApplyToRecord(x, env, from).ids = x.ids
         /\ ApplyToRecord(x, env, from).claims = MergedClaims(x.claims, x.ids, env.ids, from)
  <1>1. PICK i, c : i = MergeImported(x.imported, env.notes, from) /\ c = MergedClaims(x.claims, x.ids, env.ids, from)
    OBVIOUS
  <1>2. ApplyToRecord(x, env, from) = [x EXCEPT !.imported = i, !.claims = c]
    BY <1>1 DEF ApplyToRecord, MergedClaims, Claims
  <1>3. [x EXCEPT !.imported = i, !.claims = c].ids = x.ids /\ [x EXCEPT !.imported = i, !.claims = c].claims = c
    BY DEF FriendRecord
  <1> QED
    BY <1>1, <1>2, <1>3

LEMMA LandingClaims ==
  ASSUME IInv, NEW b \in Agent, NEW i, i = host[b].import, i.pc = "read", i.file.kind = "share_profile"
  PROVE  ClaimsLand(Landing(i), i.was, i.file.env.ids, i.file.from)
  <1>1. PICK f : f = i.file
    OBVIOUS
  <1>2. f \in host[b].batch /\ (i.was # None => FriendOk(outbox, b, i.was))
    BY <1>1 DEF IInv, HostsOk, HostOk
  <1>3. PICK o \in Op : f.to = b /\ IsOf(outbox, f, o) /\ LetterOk(now, o, outbox[o])
    BY <1>2, InBatch
  <1>4. f.env \in Profile /\ f.from \in Agent /\ f.env.ids \in SUBSET Id
    <2>1. f \in File
      BY <1>2, InBatch
    <2>2. f.env \in Profile
      BY <1>1, <1>3 DEF IsOf, LetterOk
    <2> QED
      BY <2>1, <2>2 DEF File, Profile
  <1>5. PICK ob, t, was, g, ids, from : /\ ob = outbox /\ t = now /\ was = i.was /\ g = Landing(i)
                                        /\ ids = f.env.ids /\ from = f.from
    OBVIOUS
  <1>8. f.to = b /\ IsOf(ob, f, o) /\ LetterOk(t, o, ob[o]) /\ f.kind = "share_profile"
    BY <1>1, <1>3, <1>5
  <1>6. CASE was = None
    <2>1. PICK r : r = SeedRecord(f.env, f.from)
      OBVIOUS
    <2>2. /\ FriendOk(ob, b, r) /\ r.ids = {}
          /\ ClaimsIn(r.claims, f.from) = f.env.ids
          /\ \A s \in Agent : s # f.from => ClaimsIn(r.claims, s) = {}
      BY <1>8, <2>1, SeedOk, ImportsAssumption
    <2>3. g = ApplyToRecord(r, f.env, f.from)
      BY <1>1, <1>5, <1>6, <2>1 DEF Landing
    <2>4. g.ids = r.ids /\ g.claims = MergedClaims(r.claims, r.ids, f.env.ids, f.from)
      <3>1. /\ ApplyToRecord(r, f.env, f.from).ids = r.ids
            /\ ApplyToRecord(r, f.env, f.from).claims = MergedClaims(r.claims, r.ids, f.env.ids, f.from)
        <4>1. r \in FriendRecord
          BY <2>2 DEF FriendOk
        <4> QED
          BY <4>1, AppliedIs
      <3> QED
        BY <2>3, <3>1
    <2>5. f.env.ids \ (r.ids \cup ClaimsIn(r.claims, f.from)) = {}
      BY <2>2
    <2>6. g.claims = r.claims
      BY <2>4, <2>5 DEF MergedClaims
    <2> QED
      BY <1>1, <1>5, <1>6, <2>2, <2>4, <2>6 DEF ClaimsLand, Claims
  <1>7. CASE was # None
    <2>1. FriendOk(ob, b, was)
      BY <1>2, <1>5, <1>7
    <2>2. g = ApplyToRecord(was, f.env, f.from)
      BY <1>1, <1>5, <1>7 DEF Landing
    <2>3. g.ids = was.ids /\ g.claims = MergedClaims(was.claims, was.ids, f.env.ids, f.from)
      <3>1. /\ ApplyToRecord(was, f.env, f.from).ids = was.ids
            /\ ApplyToRecord(was, f.env, f.from).claims = MergedClaims(was.claims, was.ids, f.env.ids, f.from)
        BY <2>1, AppliedIs DEF FriendOk
      <3> QED
        BY <2>2, <3>1
    <2>4. was.claims \in Seq(Claim) /\ IsInjective(was.claims) /\ was.ids \in SUBSET Id
      BY <2>1 DEF FriendOk, FriendRecord
    <2>5. PICK c, held : c = was.claims /\ held = was.ids
      OBVIOUS
    <2>6. c \in Seq(Claim) /\ IsInjective(c) /\ held \in SUBSET Id /\ ids \in SUBSET Id /\ from \in Agent
      BY <1>4, <1>5, <2>4, <2>5
    <2>7. MergedRight(MergedClaims(c, held, ids, from), c, ids \ held, from)
      BY <2>6, MergedClaimsAre, ProfileShareAssumption
    <2>8. MergedRight(g.claims, was.claims, ids \ was.ids, from)
      BY <1>5, <2>3, <2>5, <2>7
    <2>9. \A s \in Agent : s # from => Claims(g, s) = Claims(was, s)
      BY <2>8 DEF MergedRight, Claims
    <2> QED
      BY <1>1, <1>5, <1>7, <2>3, <2>8, <2>9 DEF ClaimsLand
  <1> QED
    BY <1>6, <1>7

\* The ids that s has named to a in a share of a profile.
NamedIds(a, s) == {ids \in SUBSET Id : ids # {} /\ \E o \in Op :
                     Wrote(outbox, s, a, o) /\ outbox[o].kind = "share_profile" /\ outbox[o].env.ids = ids}

Chain(S) == /\ \A x, y \in S : x \subseteq y \/ y \subseteq x
            /\ \A x \in S : Cardinality(x) <= MaxClaims

AllKept(a) == \A r \in Records(a) : Kept(a, r)

\* The records that have nothing but what peers claim, and s is one of them.
Bare(a, s) == {r \in Records(a) : friends[a][r].ids = {} /\ Claims(friends[a][r], s) # {}}

Between(claimed, S) == \E x, y \in S : x \subseteq claimed /\ claimed \subseteq y

\* An import of s that is under way has found the record that has been seeded, if one has.
FoundRight(a, s) ==
  LET i == host[a].import
  IN  i.pc = "read" /\ i.file.kind = "share_profile" /\ i.file.from = s =>
        /\ i.was # None => i.was.ids \cap i.file.env.ids # {} \/ Claims(i.was, s) \cap i.file.env.ids # {}
        /\ i.was = None => \A r \in Records(a) : Claims(friends[a][r], s) \cap i.file.env.ids = {}

SeededBy(a, s) ==
  /\ \A q, r \in Bare(a, s) : q = r
  /\ \A r \in Bare(a, s) : Between(Claims(friends[a][r], s), NamedIds(a, s))
  /\ FoundRight(a, s)

SeededOnce == \A a \in Agent, s \in Agent : AllKept(a) /\ Chain(NamedIds(a, s)) => SeededBy(a, s)

LEMMA NamedGoOn ==
  ASSUME NEW a, NEW s, More(outbox, outbox')
  PROVE  NamedIds(a, s) \subseteq NamedIds(a, s)' /\ (Chain(NamedIds(a, s)') => Chain(NamedIds(a, s)))
  <1>1. \A o \in Op : Wrote(outbox, s, a, o) => Wrote(outbox, s, a, o)' /\ outbox'[o] = outbox[o]
    BY DEF More, Wrote, Agt
  <1>2. NamedIds(a, s) \subseteq NamedIds(a, s)'
    BY <1>1 DEF NamedIds
  <1> QED
    BY <1>2 DEF Chain

\* The records of a are those it had, with the claims they had, and none has lost its last id.
ClaimsSame(a) ==
  /\ Records(a)' = Records(a)
  /\ \A r \in Records(a) : /\ friends'[a][r].claims = friends[a][r].claims
                           /\ friends'[a][r].ids = {} => friends[a][r].ids = {}

LEMMA SameSeeds ==
  ASSUME NEW a \in Agent, NEW s \in Agent, SeededBy(a, s), ClaimsSame(a), More(outbox, outbox'), FoundRight(a, s)'
  PROVE  SeededBy(a, s)'
  <1>1. Bare(a, s)' \subseteq Bare(a, s)
    BY DEF ClaimsSame, Bare, Claims
  <1>2. \A r \in Bare(a, s)' : Claims(friends'[a][r], s) = Claims(friends[a][r], s)
    BY DEF ClaimsSame, Bare, Claims
  <1>3. NamedIds(a, s) \subseteq NamedIds(a, s)'
    BY NamedGoOn
  <1>4. \A q, r \in Bare(a, s)' : q = r
    BY <1>1 DEF SeededBy
  <1>5. ASSUME NEW r \in Bare(a, s)' PROVE Between(Claims(friends'[a][r], s), NamedIds(a, s)')
    <2>1. Between(Claims(friends[a][r], s), NamedIds(a, s))
      BY <1>1, <1>5 DEF SeededBy
    <2> QED
      BY <1>2, <1>3, <1>5, <2>1 DEF Between
  <1>6. ASSUME NEW r \in Bare(a, s)' PROVE Between(Claims(friends[a][r], s), NamedIds(a, s))'
    BY <1>5, <1>6 DEF Between
  <1> QED
    BY <1>4, <1>6 DEF SeededBy

LEMMA SameFound ==
  ASSUME NEW a \in Agent, NEW s \in Agent, FoundRight(a, s), ClaimsSame(a),
         host'[a].import = host[a].import \/ host'[a].import.pc # "read"
  PROVE  FoundRight(a, s)'
  <1>1. \A r \in Records(a)' : r \in Records(a) /\ Claims(friends'[a][r], s) = Claims(friends[a][r], s)
    BY DEF ClaimsSame, Claims
  <1> QED
    BY <1>1 DEF FoundRight

LEMMA BetweenGrows ==
  ASSUME ProfileShareAssumption, NEW N \in SUBSET (SUBSET Id), Chain(N), NEW C, Between(C, N), NEW ids \in N
  PROVE  Cardinality(C \cup ids) <= MaxClaims /\ Between(C \cup ids, N)
  <1>1. PICK x, y \in N : x \subseteq C /\ C \subseteq y
    BY DEF Between
  <1>2. x \subseteq C \cup ids
    BY <1>1
  <1>3. CASE y \subseteq ids
    <2>1. C \cup ids = ids
      BY <1>1, <1>3
    <2> QED
      BY <1>1, <1>2, <2>1 DEF Chain, Between
  <1>4. CASE ids \subseteq y
    <2>1. C \cup ids \subseteq y
      BY <1>1, <1>4
    <2>2. IsFiniteSet(y)
      BY <1>1, FS_Subset, ProfileShareAssumption DEF ProfileShareAssumption
    <2>3. PICK z : z = C \cup ids
      OBVIOUS
    <2>4. IsFiniteSet(z) /\ Cardinality(z) <= Cardinality(y)
      BY <2>1, <2>2, <2>3, FS_Subset
    <2>5. Cardinality(y) <= MaxClaims /\ Cardinality(y) \in Nat /\ Cardinality(z) \in Nat /\ MaxClaims \in Nat
      BY <1>1, <2>2, <2>4, FS_CardinalityType, ProfileShareAssumption DEF Chain, ProfileShareAssumption
    <2>6. Cardinality(z) <= MaxClaims
      BY <2>4, <2>5
    <2> QED
      BY <1>1, <1>2, <2>1, <2>3, <2>6 DEF Between
  <1> QED
    BY <1>1, <1>3, <1>4 DEF Chain

LEMMA BetweenMeets ==
  ASSUME NEW N, Chain(N), {} \notin N, NEW C, Between(C, N), NEW ids \in N
  PROVE  C \cap ids # {}
  <1>1. PICK x \in N : x \subseteq C
    BY DEF Between
  <1>2. x # {} /\ ids # {} /\ (x \subseteq ids \/ ids \subseteq x)
    BY <1>1 DEF Chain
  <1> QED
    BY <1>1, <1>2

LEMMA NamedAre ==
  ASSUME NEW a, NEW s
  PROVE  NamedIds(a, s) \in SUBSET (SUBSET Id) /\ {} \notin NamedIds(a, s)
  BY DEF NamedIds

LEMMA ImportSeeds ==
  ASSUME IInv, NEW b \in Agent, ImportProfile(b), NEW s \in Agent, AllKept(b)', Chain(NamedIds(b, s)), SeededBy(b, s)
  PROVE  SeededBy(b, s)'
  <1>1. PICK i, q, was, g, f : i = host[b].import /\ q = i.at /\ was = i.was /\ g = Landing(i) /\ f = i.file
    OBVIOUS
  <1>2. PICK j : j = [i EXCEPT !.pc = "imported", !.was = None]
    OBVIOUS
  <1>3. /\ i.pc = "read" /\ f.kind = "share_profile" /\ PutFriend(b, q, was, g)
        /\ Hosts(b, [host[b] EXCEPT !.import = j]) /\ outbox' = outbox
    BY <1>1, <1>2 DEF ImportProfile, Landing
  <1>4. q \in Rec /\ g \in FriendRecord /\ i \in ImportState /\ f \in host[b].batch
    BY <1>1, <1>3, LandingOk, ImportIs DEF FriendOk
  <1>5. PICK ids, from : ids = f.env.ids /\ from = f.from
    OBVIOUS
  <1>6. ClaimsLand(g, was, ids, from)
    <2>1. ClaimsLand(Landing(i), i.was, i.file.env.ids, i.file.from)
      BY <1>1, <1>3, LandingClaims
    <2> QED
      BY <1>1, <1>5, <2>1
  <1>7. /\ friends'[b][q] = g
        /\ friends[b][q] = was \/ <<b, q>> \in raced'
        /\ \A r \in Rec : r # q => friends'[b][r] = friends[b][r]
    BY <1>3, <1>4, PutIs
  <1>8. g # None
    BY <1>4, ImportsAssumption DEF ImportsAssumption
  <1>9. friends[b][q] = was
    <2>1. q \in Records(b)'
      BY <1>4, <1>7, <1>8 DEF Records
    <2> QED
      BY <1>7, <2>1 DEF AllKept, Kept
  <1>10. FoundRight(b, s)'
    <2>1. j.pc = "imported"
      BY <1>2, <1>4 DEF ImportState
    <2>2. host'[b].import.pc = "imported"
      BY <1>3, <2>1, ImportGoesTo
    <2> QED
      BY <2>2 DEF FoundRight
  <1>11. PICK N : N = NamedIds(b, s)
    OBVIOUS
  <1>12. NamedIds(b, s)' = N /\ N \in SUBSET (SUBSET Id) /\ {} \notin N /\ Chain(N)
    <2>1. NamedIds(b, s)' = N
      BY <1>3, <1>11 DEF NamedIds, Wrote, Agt
    <2> QED
      BY <1>11, <2>1, NamedAre
  <1>13. s = from /\ ids # {} => ids \in N
    <2>1. PICK o \in Op : f.to = b /\ IsOf(outbox, f, o) /\ LetterOk(now, o, outbox[o])
      BY <1>4, InBatch
    <2>2. /\ outbox[o] # None /\ Agt(o) = from /\ outbox[o].to = b /\ outbox[o].kind = "share_profile"
          /\ outbox[o].env.ids = ids
      BY <1>3, <1>5, <2>1 DEF IsOf
    <2>3. ids \in SUBSET Id
      <3>1. outbox[o].env \in Profile
        BY <2>1, <2>2 DEF LetterOk
      <3> QED
        BY <2>2, <3>1 DEF Profile
    <2> QED
      BY <1>11, <2>2, <2>3 DEF NamedIds, Wrote
  <1>14. \A r \in Records(b)' : r # q => r \in Records(b) /\ friends'[b][r] = friends[b][r]
    BY <1>7 DEF Records
  <1>15. \A r \in Bare(b, s)' : r # q => r \in Bare(b, s) /\ Claims(friends'[b][r], s) = Claims(friends[b][r], s)
    BY <1>14 DEF Bare
  <1>16. \A r \in Bare(b, s) : Between(Claims(friends[b][r], s), N)
    BY <1>11 DEF SeededBy
  <1>17. s = from => /\ was # None => was.ids \cap ids # {} \/ Claims(was, s) \cap ids # {}
                     /\ was = None => \A r \in Records(b) : Claims(friends[b][r], s) \cap ids = {}
    BY <1>1, <1>3, <1>5 DEF SeededBy, FoundRight
  <1>18. ASSUME q \in Bare(b, s)' => q \in Bare(b, s) /\ Between(Claims(g, s), N)
         PROVE  SeededBy(b, s)'
    <2>1. \A x, y \in Bare(b, s)' : x = y
      BY <1>15, <1>18 DEF SeededBy
    <2>2. ASSUME NEW r \in Bare(b, s)' PROVE Between(Claims(friends[b][r], s), NamedIds(b, s))'
      <3>1. Between(Claims(friends'[b][r], s), N)
        BY <1>7, <1>15, <1>16, <1>18
      <3> QED
        BY <1>12, <3>1 DEF Between
    <2> QED
      BY <1>10, <2>1, <2>2 DEF SeededBy
  <1>19. CASE s # from
    <2>1. ASSUME q \in Bare(b, s)' PROVE q \in Bare(b, s) /\ Between(Claims(g, s), N)
      <3>1. g.ids = {} /\ Claims(g, s) # {}
        BY <1>7, <2>1 DEF Bare
      <3>2. was # None /\ was.ids = {} /\ Claims(was, s) = Claims(g, s)
        BY <1>6, <1>19, <3>1 DEF ClaimsLand
      <3>3. q \in Bare(b, s)
        BY <1>4, <1>9, <3>1, <3>2 DEF Bare, Records
      <3> QED
        BY <1>9, <1>16, <3>2, <3>3
    <2> QED
      BY <1>18, <2>1
  <1>20. CASE s = from /\ was # None
    <2>1. ASSUME q \in Bare(b, s)' PROVE q \in Bare(b, s) /\ Between(Claims(g, s), N)
      <3>1. g.ids = {}
        BY <1>7, <2>1 DEF Bare
      <3>2. was.ids = {} /\ MergedRight(g.claims, was.claims, ids \ was.ids, s)
        BY <1>6, <1>20, <3>1 DEF ClaimsLand
      <3>3. PICK C : C = Claims(was, s)
        OBVIOUS
      <3>4. C \cap ids # {}
        BY <1>17, <1>20, <3>2, <3>3
      <3>5. q \in Bare(b, s)
        BY <1>4, <1>9, <1>20, <3>2, <3>3, <3>4 DEF Bare, Records
      <3>6. Between(C, N) /\ ids \in N
        BY <1>9, <1>13, <1>16, <1>20, <3>3, <3>4, <3>5
      <3>7. Cardinality(C \cup ids) <= MaxClaims /\ Between(C \cup ids, N)
        BY <1>12, <3>6, BetweenGrows, ProfileShareAssumption
      <3>8. ids \ was.ids = ids
        BY <3>2
      <3>9. Claims(g, s) = C \cup ids
        BY <3>2, <3>3, <3>7, <3>8 DEF MergedRight, Claims
      <3> QED
        BY <3>5, <3>7, <3>9
    <2> QED
      BY <1>18, <2>1
  <1>21. CASE s = from /\ was = None
    <2>1. g.ids = {} /\ Claims(g, s) = ids
      BY <1>6, <1>21 DEF ClaimsLand
    <2>2. CASE ids = {}
      <3>1. q \notin Bare(b, s)'
        BY <1>7, <2>1, <2>2 DEF Bare
      <3> QED
        BY <1>18, <3>1
    <2>3. CASE ids # {}
      <3>1. ids \in N
        BY <1>13, <1>21, <2>3
      <3>2. ASSUME NEW r \in Bare(b, s) PROVE FALSE
        <4>1. Claims(friends[b][r], s) \cap ids # {}
          BY <1>12, <1>16, <3>1, BetweenMeets
        <4> QED
          BY <1>17, <1>21, <4>1 DEF Bare
      <3>3. \A r \in Bare(b, s)' : r = q
        BY <1>15, <3>2
      <3>4. Between(ids, N)
        BY <3>1 DEF Between
      <3>5. ASSUME NEW r \in Bare(b, s)' PROVE Between(Claims(friends[b][r], s), NamedIds(b, s))'
        <4>1. Claims(friends'[b][r], s) = ids
          BY <1>7, <2>1, <3>3, <3>5
        <4> QED
          BY <1>12, <3>4, <4>1 DEF Between
      <3> QED
        BY <1>10, <3>3, <3>5 DEF SeededBy
    <2> QED
      BY <2>2, <2>3
  <1> QED
    BY <1>19, <1>20, <1>21

LEMMA TargetMeets ==
  ASSUME NEW a \in Agent, NEW f, f.kind = "share_profile", NEW t \in Targets(a, f)
  PROVE  /\ t[2] # None => t[2].ids \cap f.env.ids # {} \/ Claims(t[2], f.from) \cap f.env.ids # {}
         /\ t[2] = None => \A r \in Records(a) : Claims(friends[a][r], f.from) \cap f.env.ids = {}
  <1>1. PICK found, ids, from : found = ResolveSubject(Held(a), ids, from) /\ ids = f.env.ids /\ from = f.from
    OBVIOUS
  <1>2. t \in FriendTargets(a, f)
    BY DEF Targets
  <1>3. DOMAIN Held(a) = Records(a) /\ \A r \in Records(a) : Held(a)[r] = friends[a][r]
    BY DEF Held
  <1>4. \A r \in found : /\ r \in Records(a)
                         /\ friends[a][r].ids \cap ids # {} \/ Claims(friends[a][r], from) \cap ids # {}
    BY <1>1, <1>3 DEF ResolveSubject
  <1>5. found = {} => \A r \in Records(a) : Claims(friends[a][r], from) \cap ids = {}
    BY <1>1, <1>3 DEF ResolveSubject
  <1>6. CASE found # {}
    <2>1. PICK r \in found : t = <<r, friends[a][r]>>
      BY <1>1, <1>2, <1>6 DEF FriendTargets
    <2>2. t[2] = friends[a][r] /\ t[2] # None
      BY <1>4, <2>1 DEF Records
    <2> QED
      BY <1>1, <1>4, <2>1, <2>2
  <1>7. CASE found = {}
    <2>1. t[2] = None
      BY <1>1, <1>2, <1>7 DEF FriendTargets
    <2> QED
      BY <1>1, <1>5, <1>7, <2>1
  <1> QED
    BY <1>6, <1>7

LEMMA StartFound ==
  ASSUME IInv, NEW b \in Agent, StartImport(b), NEW s \in Agent
  PROVE  FoundRight(b, s)' /\ \A a \in Agent : a # b => host'[a] = host[a]
  <1>1. PICK f \in First(host[b].batch) :
          \/ Hosts(b, [host[b] EXCEPT !.import = [NoImport EXCEPT !.pc = "imported", !.file = f]])
          \/ \E t \in Targets(b, f) :
               Hosts(b, [host[b] EXCEPT !.import = [pc |-> "read", at |-> t[1], was |-> t[2], file |-> f]])
    BY DEF StartImport
  <1>2. friends' = friends
    BY DEF StartImport
  <1>3. \A a \in Agent : a # b => host'[a] = host[a]
    BY <1>1, HostIs
  <1>4. CASE Hosts(b, [host[b] EXCEPT !.import = [NoImport EXCEPT !.pc = "imported", !.file = f]])
    <2>1. PICK i : i = [NoImport EXCEPT !.pc = "imported", !.file = f]
      OBVIOUS
    <2>2. i.pc = "imported"
      BY <2>1 DEF NoImport
    <2>3. host'[b].import.pc = "imported"
      BY <1>4, <2>1, <2>2, ImportGoesTo
    <2> QED
      BY <1>3, <2>3 DEF FoundRight
  <1>5. ASSUME NEW t \in Targets(b, f),
               Hosts(b, [host[b] EXCEPT !.import = [pc |-> "read", at |-> t[1], was |-> t[2], file |-> f]])
        PROVE  FoundRight(b, s)'
    <2>1. PICK i : i = [pc |-> "read", at |-> t[1], was |-> t[2], file |-> f]
      OBVIOUS
    <2>2. i.was = t[2] /\ i.file = f
      BY <2>1
    <2>3. host'[b].import = i
      BY <1>5, <2>1, ImportGoesTo
    <2>4. ASSUME f.kind = "share_profile", f.from = s
          PROVE  /\ i.was # None => i.was.ids \cap f.env.ids # {} \/ Claims(i.was, s) \cap f.env.ids # {}
                 /\ i.was = None => \A r \in Records(b) : Claims(friends[b][r], s) \cap f.env.ids = {}
      BY <2>2, <2>4, TargetMeets
    <2>5. Records(b)' = Records(b)
      BY <1>2 DEF Records
    <2> QED
      BY <1>2, <2>2, <2>3, <2>4, <2>5 DEF FoundRight
  <1> QED
    BY <1>1, <1>3, <1>4, <1>5

\* A call that puts a record leaves the claims, and with LastIdStays no record without an id.
LEMMA PutsClaims ==
  ASSUME IInv, LastIdStays, NEW a \in Agent, AllKept(a)', NEW o \in Op, NEW b, NEW q, NEW was, NEW g, PutOf(o, b, q, was, g)
  PROVE  ClaimsSame(a)
  <1>1. /\ b \in Agent /\ q \in Rec /\ PutFriend(b, q, was, g) /\ g.claims = was.claims
        /\ was \in FriendRecord /\ g \in FriendRecord
        /\ g.ids = {} => was.ids = {}
    BY DEF PutOf, FriendOk, LastIdStays
  <1>2. /\ friends'[b][q] = g
        /\ friends[b][q] = was \/ <<b, q>> \in raced'
        /\ \A c \in Agent, r \in Rec : c # b \/ r # q => friends'[c][r] = friends[c][r]
    BY <1>1, PutIs
  <1>3. g # None /\ was # None
    BY <1>1, ImportsAssumption DEF ImportsAssumption
  <1>4. a = b => friends[b][q] = was
    <2> SUFFICES ASSUME a = b PROVE friends[b][q] = was
      OBVIOUS
    <2>1. q \in Records(b)'
      BY <1>1, <1>2, <1>3 DEF Records
    <2> QED
      BY <1>2, <2>1 DEF AllKept, Kept
  <1>5. Records(a)' = Records(a)
    BY <1>2, <1>3, <1>4 DEF Records
  <1>6. ASSUME NEW r \in Records(a)
        PROVE  friends'[a][r].claims = friends[a][r].claims /\ (friends'[a][r].ids = {} => friends[a][r].ids = {})
    <2>1. r \in Rec
      BY DEF Records
    <2>2. CASE a # b \/ r # q
      BY <1>2, <2>1, <2>2
    <2>3. CASE a = b /\ r = q
      BY <1>1, <1>2, <1>4, <2>3
    <2> QED
      BY <2>2, <2>3
  <1> QED
    BY <1>5, <1>6 DEF ClaimsSame

LEMMA ImportsApart ==
  ASSUME IInv, NEW b \in Agent, ImportProfile(b), NEW a \in Agent, a # b
  PROVE  host'[a] = host[a] /\ \A r \in Rec : friends'[a][r] = friends[a][r]
  <1>1. PICK i, q, was, g, j : /\ i = host[b].import /\ q = i.at /\ was = i.was /\ g = Landing(i)
                               /\ j = [i EXCEPT !.pc = "imported", !.was = None]
    OBVIOUS
  <1>2. /\ i.pc = "read" /\ i.file.kind = "share_profile" /\ PutFriend(b, q, was, g)
        /\ Hosts(b, [host[b] EXCEPT !.import = j])
    BY <1>1 DEF ImportProfile, Landing
  <1>3. q \in Rec
    BY <1>1, <1>2, LandingOk
  <1>4. \A c \in Agent, r \in Rec : c # b \/ r # q => friends'[c][r] = friends[c][r]
    BY <1>2, <1>3, PutIs
  <1> QED
    BY <1>2, <1>4, HostIs

LEMMA NextSeeds ==
  ASSUME IInv, LastIdStays, SeededOnce, [Next]_vars
  PROVE  SeededOnce'
  <1>1. ToldGoesOn /\ More(outbox, outbox')
    BY NextTold
  <1> SUFFICES ASSUME NEW a \in Agent, NEW s \in Agent, AllKept(a)', Chain(NamedIds(a, s))' PROVE SeededBy(a, s)'
    BY DEF SeededOnce
  <1>2. AllKept(a)
    BY <1>1 DEF AllKept, Kept, ToldGoesOn
  <1>3. Chain(NamedIds(a, s))
    BY <1>1, NamedGoOn DEF Chain
  <1>4. SeededBy(a, s) /\ FoundRight(a, s)
    BY <1>2, <1>3 DEF SeededOnce, SeededBy
  <1>5. ASSUME ClaimsSame(a), FoundRight(a, s)' PROVE SeededBy(a, s)'
    BY <1>1, <1>4, <1>5, SameSeeds
  <1>6. ASSUME ClaimsSame(a), host'[a].import = host[a].import \/ host'[a].import.pc # "read" PROVE SeededBy(a, s)'
    BY <1>4, <1>5, <1>6, SameFound
  <1>7. ASSUME friends' = friends PROVE ClaimsSame(a)
    BY <1>7 DEF ClaimsSame, Records
  <1>8. ASSUME NEW o \in Op, CallStep(o) PROVE SeededBy(a, s)'
    <2>1. host' = host
      BY <1>8 DEF CallStep, GetFriend, SaveNote, RecordInteraction, ChangeIds, Put, GetMission, OpenRecorded, WriteRecorded, Send
    <2>2. CASE SaveNote(o) \/ RecordInteraction(o) \/ ChangeIds(o)
      <3>1. PICK b, q, was, g : PutOf(o, b, q, was, g)
        BY <2>2, CallPuts
      <3>2. ClaimsSame(a)
        BY <3>1, PutsClaims
      <3> QED
        BY <1>6, <2>1, <3>2
    <2>3. CASE ~ (SaveNote(o) \/ RecordInteraction(o) \/ ChangeIds(o))
      <3>1. friends' = friends
        BY <1>8, <2>3 DEF CallStep, GetFriend, GetMission, OpenRecorded, WriteRecorded, Send
      <3> QED
        BY <1>6, <1>7, <2>1, <3>1
    <2> QED
      BY <2>2, <2>3
  <1>9. ASSUME NEW b \in Agent, ImportProfile(b) PROVE SeededBy(a, s)'
    <2>1. CASE a = b
      BY <1>3, <1>4, <1>9, <2>1, ImportSeeds
    <2>2. CASE a # b
      <3>1. host'[a] = host[a] /\ \A r \in Rec : friends'[a][r] = friends[a][r]
        BY <1>9, <2>2, ImportsApart
      <3>2. ClaimsSame(a)
        BY <3>1 DEF ClaimsSame, Records
      <3> QED
        BY <1>6, <3>1, <3>2
    <2> QED
      BY <2>1, <2>2
  <1>10. ASSUME NEW b \in Agent, StartImport(b) PROVE SeededBy(a, s)'
    <2>1. ClaimsSame(a)
      BY <1>7, <1>10 DEF StartImport
    <2>2. FoundRight(b, s)' /\ (a # b => host'[a] = host[a])
      BY <1>10, StartFound
    <2> QED
      BY <1>5, <1>6, <2>1, <2>2
  <1>11. ASSUME NEW b \in Agent, Poll(b) \/ Mark(b) \/ Crash(b) PROVE SeededBy(a, s)'
    <2>1. PICK rest : Hosts(b, [batch |-> rest, import |-> NoImport])
      BY <1>11 DEF Poll, Mark, Marks, Crash, Hosts
    <2>2. PICK h : h = [batch |-> rest, import |-> NoImport]
      OBVIOUS
    <2>3. h.import.pc = "idle"
      BY <2>2 DEF NoImport
    <2>4. host'[b] = h /\ \A c \in Agent : c # b => host'[c] = host[c]
      BY <2>1, <2>2, HostIs
    <2>5. host'[a].import = host[a].import \/ host'[a].import.pc # "read"
      BY <2>3, <2>4
    <2>6. ClaimsSame(a)
      BY <1>7, <1>11 DEF Poll, Mark, Marks, Crash
    <2> QED
      BY <1>6, <2>5, <2>6
  <1>12. ASSUME NEW b \in Agent, OpenImported(b) \/ WriteImported(b) PROVE SeededBy(a, s)'
    <2>1. PICK i, j : /\ i = host[b].import /\ i.pc \in {"read", "open"} /\ j.pc # "read"
                      /\ Hosts(b, [host[b] EXCEPT !.import = j])
      <3>1. host[b].import.pc \in {"read", "open"}
        BY <1>12 DEF OpenImported, WriteImported
      <3>2. host[b].import \in ImportState
        BY <3>1, ImportIs
      <3>3. CASE OpenImported(b)
        <4>1. PICK i, j : i = host[b].import /\ j = [i EXCEPT !.pc = "open", !.was = MissionLanding(i)]
          OBVIOUS
        <4>2. j.pc = "open"
          BY <3>2, <4>1 DEF ImportState
        <4> QED
          BY <3>1, <3>3, <4>1, <4>2 DEF OpenImported, MissionLanding
      <3>4. CASE WriteImported(b)
        <4>1. PICK i, j : i = host[b].import /\ j = [i EXCEPT !.pc = "imported", !.was = None]
          OBVIOUS
        <4>2. j.pc = "imported"
          BY <3>2, <4>1 DEF ImportState
        <4> QED
          BY <3>1, <3>4, <4>1, <4>2 DEF WriteImported
      <3> QED
        BY <1>12, <3>3, <3>4
    <2>2. host'[b].import = j /\ \A c \in Agent : c # b => host'[c] = host[c]
      BY <2>1, HostIs, ImportGoesTo
    <2>3. host'[a].import = host[a].import \/ host'[a].import.pc # "read"
      BY <2>1, <2>2
    <2>4. ClaimsSame(a)
      BY <1>7, <1>12 DEF OpenImported, WriteImported
    <2> QED
      BY <1>6, <2>3, <2>4
  <1>13. ASSUME Tick \/ UNCHANGED vars PROVE SeededBy(a, s)'
    BY <1>6, <1>7, <1>13 DEF Tick, vars
  <1> QED
    BY <1>8, <1>9, <1>10, <1>11, <1>12, <1>13 DEF Next, HostStep

LEMMA InitSeeds ==
  ASSUME Init
  PROVE  SeededOnce
  <1> SUFFICES ASSUME NEW a \in Agent, NEW s \in Agent PROVE SeededBy(a, s)
    BY DEF SeededOnce
  <1>1. host[a].import.pc = "idle"
    <2>1. host[a] = [batch |-> {}, import |-> NoImport]
      BY DEF Init
    <2> QED
      BY <2>1 DEF NoImport
  <1>2. ASSUME NEW r \in Records(a) PROVE Claims(friends[a][r], s) = {}
    <2>1. friends[a][r].claims = <<>>
      BY StartsAssumption DEF Init, StartsAssumption, Records
    <2> QED
      BY <2>1 DEF Claims, ClaimsIn
  <1>3. Bare(a, s) = {}
    BY <1>2 DEF Bare
  <1> QED
    BY <1>1, <1>3 DEF SeededBy, FoundRight

\* Nothing is taken for two (NothingTwice): resolveSubject finds the record that the same
\* peer's earlier share has seeded, however shares are repeated, reordered and overlap.
THEOREM NothingIsTwice == Spec => []NothingTwice
  <1> DEFINE SInv == LastIdStays => SeededOnce
  <1>1. Init => SInv
    BY InitSeeds
  <1>2. IInv /\ SInv /\ [Next]_vars => SInv'
    BY NextSeeds DEF LastIdStays
  <1>3. IInv /\ SInv => NothingTwice
    <2> SUFFICES ASSUME IInv, SInv, NEW a \in Agent
                 PROVE  /\ \A r \in Records(a) : IsInjective(friends[a][r].claims)
                        /\ \A r \in Missions(a) : RowsApart(missions[a][r].outcomes)
                        /\ \A s \in Agent, i \in Id : Grows(a, s) /\ (\A r \in Records(a) : Kept(a, r)) /\ LastIdStays =>
                             Cardinality(Seeded(a, s, i)) <= 1
      BY DEF NothingTwice, RowsApart
    <2>1. \A r \in Records(a) : IsInjective(friends[a][r].claims)
      BY DEF IInv, FriendsOk, FriendOk, Records
    <2>2. \A r \in Missions(a) : RowsApart(missions[a][r].outcomes)
      BY DEF IInv, MissionsOk, MissionOk, Missions
    <2>3. ASSUME NEW s \in Agent, NEW i \in Id, Grows(a, s), \A r \in Records(a) : Kept(a, r), LastIdStays
          PROVE  Cardinality(Seeded(a, s, i)) <= 1
      <3>1. ASSUME NEW x \in NamedIds(a, s) PROVE \E f \in Named(a, s) : f.env.ids = x
        <4>1. PICK o \in Op : /\ x # {} /\ Wrote(outbox, s, a, o) /\ outbox[o].kind = "share_profile"
                              /\ outbox[o].env.ids = x
          BY <3>1 DEF NamedIds
        <4>2. PICK f : f = outbox[o]
          OBVIOUS
        <4>3. outbox[o] # None /\ f \in Message
          BY <4>1, <4>2 DEF Wrote, Message
        <4>4. f.from = s /\ f.to = a /\ f.kind = "share_profile" /\ f.env.ids = x
          <5>1. LetterOk(now, o, f)
            BY <4>2, <4>3 DEF IInv, LettersOk
          <5>2. f = BuildOutgoing(o, Plan[o].rank, Agt(o), Plan[o].to, f.at, Plan[o].kind, f.env)
            BY <5>1 DEF LetterOk
          <5>3. f.from = Agt(o)
            BY <5>2 DEF BuildOutgoing
          <5> QED
            BY <4>1, <4>2, <5>3 DEF Wrote
        <4> QED
          BY <4>1, <4>3, <4>4 DEF Named
      <3>2. Chain(NamedIds(a, s))
        <4>1. \A x, y \in NamedIds(a, s) : x \subseteq y \/ y \subseteq x
          BY <2>3, <3>1 DEF Grows
        <4>2. \A x \in NamedIds(a, s) : Cardinality(x) <= MaxClaims
          BY <2>3, <3>1 DEF Grows
        <4> QED
          BY <4>1, <4>2 DEF Chain
      <3>3. \A q, r \in Bare(a, s) : q = r
        BY <2>3, <3>2 DEF SeededOnce, SeededBy, AllKept
      <3>4. Seeded(a, s, i) \subseteq Bare(a, s)
        BY DEF Seeded, Bare
      <3>5. CASE Seeded(a, s, i) = {}
        <4>1. Cardinality({}) = 0
          BY FS_EmptySet
        <4> QED
          BY <3>5, <4>1
      <3>6. CASE Seeded(a, s, i) # {}
        <4>1. PICK r : r \in Seeded(a, s, i)
          BY <3>6
        <4>2. Seeded(a, s, i) = {r}
          BY <3>3, <3>4, <4>1
        <4>3. Cardinality({r}) = 1
          BY FS_Singleton
        <4> QED
          BY <4>2, <4>3
      <3> QED
        BY <3>5, <3>6
    <2> QED
      BY <2>1, <2>2, <2>3
  <1>4. Spec => []SInv
    BY <1>1, <1>2, ImportsInductive, PTL DEF Spec
  <1> QED
    BY <1>3, <1>4, ImportsInductive, PTL
=============================================================================
