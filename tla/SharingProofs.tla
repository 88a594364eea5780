--------------------------- MODULE SharingProofs ---------------------------
(***************************************************************************)
(* Proofs about Sharing and the server it runs on, for every set of        *)
(* requests, grants and peers, every script and every framing: a request   *)
(* is dispatched at most once, and no consent outlives its revocation.     *)
(* For requests whose bodies have a byte to each character, also that none *)
(* is left lying, however the stream is cut into chunks.                   *)
(***************************************************************************)
EXTENDS Sharing, TLAPS, WellFoundedInduction, FiniteSetTheorems, SequenceTheorems

-----------------------------------------------------------------------------
(* Induction over the natural numbers, about a set of them.                *)

\* A set of natural numbers that is not empty has a least element.
LEMMA Least ==
  ASSUME NEW S, S \subseteq Nat, S # {}
  PROVE  \E m \in S : \A n \in S : m <= n
  <1> DEFINE R == {ss \in Nat \X Nat : ss[1] < ss[2]}
  <1>1. IsWellFoundedOn(R, Nat)
    BY NatLessThanWellFounded DEF OpToRel
  <1>2. PICK m \in S : \A n \in S : ~ (<<n, m>> \in R)
    <2> HIDE DEF R
    <2> QED
      BY <1>1, WFMin
  <1>3. ASSUME NEW n \in S PROVE m <= n
    <2>1. <<n, m>> \in Nat \X Nat /\ ~ (<<n, m>> \in R)
      BY <1>2
    <2>2. ~ (n < m)
      BY <2>1
    <2> QED
      BY <2>2
  <1> QED
    BY <1>3

\* A set that has 0 and with every number the next has them all.
LEMMA Induction ==
  ASSUME NEW S, 0 \in S, \A n \in Nat : n \in S => n + 1 \in S
  PROVE  Nat \subseteq S
  <1> SUFFICES ASSUME Nat \ S # {} PROVE FALSE
    OBVIOUS
  <1>1. PICK m \in Nat \ S : \A n \in Nat \ S : m <= n
    BY Least
  <1>2. m # 0 /\ m - 1 \in Nat /\ m - 1 \in S
    BY <1>1
  <1> QED
    BY <1>1, <1>2

-----------------------------------------------------------------------------
(* The recursive functions are what they are written as.                   *)

\* The stream of the first i requests, for every i.
LEMMA StreamsAt ==
  ASSUME NEW n \in Nat
  PROVE  /\ Streams(n)[0] = <<>>
         /\ \A i \in 0..(n - 1) : Streams(n)[i + 1] = AndThen(Streams(n)[i], Script[i + 1])
  <1> DEFINE Fits(f, m) == f = [i \in 0..m |-> IF i = 0 THEN <<>> ELSE AndThen(f[i - 1], Script[i])]
             S == {m \in Nat : \E f : Fits(f, m)}
  <1>1. 0 \in S
    <2>1. Fits([i \in 0..0 |-> <<>>], 0)
      OBVIOUS
    <2> QED
      BY <2>1
  <1>2. ASSUME NEW m \in Nat, m \in S PROVE m + 1 \in S
    <2>1. PICK f : Fits(f, m)
      BY <1>2
    <2> DEFINE g == [i \in 0..(m + 1) |-> IF i = m + 1 THEN AndThen(f[m], Script[m + 1]) ELSE f[i]]
    <2>2. ASSUME NEW i \in 0..(m + 1)
          PROVE  g[i] = IF i = 0 THEN <<>> ELSE AndThen(g[i - 1], Script[i])
      <3>1. CASE i = 0
        BY <2>1, <3>1
      <3>2. CASE i \in 1..m
        <4>1. g[i] = f[i] /\ g[i - 1] = f[i - 1]
          BY <3>2
        <4>2. f[i] = AndThen(f[i - 1], Script[i])
          BY <2>1, <3>2
        <4> QED
          BY <3>2, <4>1, <4>2
      <3>3. CASE i = m + 1
        <4>1. g[i] = AndThen(f[m], Script[m + 1]) /\ g[i - 1] = f[m]
          BY <3>3
        <4> QED
          BY <3>3, <4>1
      <3> QED
        BY <3>1, <3>2, <3>3
    <2>3. Fits(g, m + 1)
      BY <2>2
    <2> HIDE DEF g, Fits
    <2> QED
      BY <2>3
  <1>3. n \in S
    <2> HIDE DEF S
    <2> QED
      BY <1>1, <1>2, Induction
  <1>4. Fits(Streams(n), n)
    <2>1. Streams(n) = CHOOSE f : Fits(f, n)
      BY DEF Streams
    <2> HIDE DEF Fits
    <2> QED
      BY <1>3, <2>1
  <1>5. \A i \in 0..n : Streams(n)[i] = IF i = 0 THEN <<>> ELSE AndThen(Streams(n)[i - 1], Script[i])
    BY <1>4
  <1>6. ASSUME NEW i \in 0..(n - 1) PROVE Streams(n)[i + 1] = AndThen(Streams(n)[i], Script[i + 1])
    <2>1. i + 1 \in 0..n /\ (i + 1) - 1 = i /\ i + 1 # 0
      OBVIOUS
    <2>2. Streams(n)[i + 1] = IF i + 1 = 0 THEN <<>> ELSE AndThen(Streams(n)[(i + 1) - 1], Script[i + 1])
      BY <1>5, <2>1
    <2> QED
      BY <2>1, <2>2
  <1> QED
    BY <1>5, <1>6

\* What is left after i messages, for every i.
LEMMA DrainsAt ==
  ASSUME NEW b, NEW n \in Nat
  PROVE  /\ Drains(b, n)[0] = [rest |-> b, out |-> <<>>]
         /\ \A i \in Nat : i + 1 <= n => Drains(b, n)[i + 1] = TakeOne(Drains(b, n)[i])
  <1> DEFINE Fits(f, m) == f = [i \in 0..m |-> IF i = 0 THEN [rest |-> b, out |-> <<>>] ELSE TakeOne(f[i - 1])]
             S == {m \in Nat : \E f : Fits(f, m)}
  <1>1. 0 \in S
    <2>1. Fits([i \in 0..0 |-> [rest |-> b, out |-> <<>>]], 0)
      OBVIOUS
    <2> QED
      BY <2>1
  <1>2. ASSUME NEW m \in Nat, m \in S PROVE m + 1 \in S
    <2>1. PICK f : Fits(f, m)
      BY <1>2
    <2> DEFINE g == [i \in 0..(m + 1) |-> IF i = m + 1 THEN TakeOne(f[m]) ELSE f[i]]
    <2>2. ASSUME NEW i \in 0..(m + 1)
          PROVE  g[i] = IF i = 0 THEN [rest |-> b, out |-> <<>>] ELSE TakeOne(g[i - 1])
      <3>1. CASE i = 0
        BY <2>1, <3>1
      <3>2. CASE i \in 1..m
        <4>1. g[i] = f[i] /\ g[i - 1] = f[i - 1]
          BY <3>2
        <4>2. f[i] = TakeOne(f[i - 1])
          BY <2>1, <3>2
        <4> QED
          BY <3>2, <4>1, <4>2
      <3>3. CASE i = m + 1
        <4>1. g[i] = TakeOne(f[m]) /\ g[i - 1] = f[m]
          BY <3>3
        <4> QED
          BY <3>3, <4>1
      <3> QED
        BY <3>1, <3>2, <3>3
    <2>3. Fits(g, m + 1)
      BY <2>2
    <2> HIDE DEF g, Fits
    <2> QED
      BY <2>3
  <1>3. n \in S
    <2> HIDE DEF S
    <2> QED
      BY <1>1, <1>2, Induction
  <1>4. Fits(Drains(b, n), n)
    <2>1. Drains(b, n) = CHOOSE f : Fits(f, n)
      BY DEF Drains
    <2> HIDE DEF Fits
    <2> QED
      BY <1>3, <2>1
  <1>5. \A i \in 0..n : Drains(b, n)[i] = IF i = 0 THEN [rest |-> b, out |-> <<>>]
                                          ELSE TakeOne(Drains(b, n)[i - 1])
    BY <1>4
  <1>6. ASSUME NEW i \in Nat, i + 1 <= n PROVE Drains(b, n)[i + 1] = TakeOne(Drains(b, n)[i])
    <2>1. i + 1 \in 0..n /\ (i + 1) - 1 = i /\ i + 1 # 0
      BY <1>6
    <2>2. Drains(b, n)[i + 1] = IF i + 1 = 0 THEN [rest |-> b, out |-> <<>>]
                                ELSE TakeOne(Drains(b, n)[(i + 1) - 1])
      BY <1>5, <2>1
    <2> QED
      BY <2>1, <2>2, Zenon
  <1> QED
    BY <1>5, <1>6

-----------------------------------------------------------------------------
(* The stream.                                                             *)

\* One sequence after another.
LEMMA ConcatIs ==
  ASSUME NEW U, NEW s \in Seq(U), NEW t \in Seq(U)
  PROVE  /\ s \o t \in Seq(U) /\ Len(s \o t) = Len(s) + Len(t)
         /\ \A i \in 1..Len(s) : (s \o t)[i] = s[i]
         /\ \A i \in 1..Len(t) : (s \o t)[Len(s) + i] = t[i]
         /\ \A i \in 1..Len(s \o t) : i \in 1..Len(s) \/ \E j \in 1..Len(t) : i = Len(s) + j
  <1>1. /\ s \o t \in Seq(U) /\ Len(s \o t) = Len(s) + Len(t) /\ Len(s) \in Nat /\ Len(t) \in Nat
        /\ \A i \in 1..Len(s) : (s \o t)[i] = s[i]
    OBVIOUS
  <1>2. ASSUME NEW i \in 1..Len(t) PROVE (s \o t)[Len(s) + i] = t[i]
    OBVIOUS
  <1>3. ASSUME NEW i \in 1..Len(s \o t), i \notin 1..Len(s) PROVE \E j \in 1..Len(t) : i = Len(s) + j
    <2>1. i - Len(s) \in 1..Len(t) /\ i = Len(s) + (i - Len(s))
      BY <1>1, <1>3
    <2> QED
      BY <2>1
  <1> QED
    BY <1>1, <1>2, <1>3

\* No element comes twice.
Distinct(s) == \A i, j \in 1..Len(s) : s[i] = s[j] => i = j

\* Nor does it in two sequences that have none in common.
LEMMA DistinctConcat ==
  ASSUME NEW U, NEW s \in Seq(U), NEW t \in Seq(U), Distinct(s), Distinct(t),
         \A i \in 1..Len(s), j \in 1..Len(t) : s[i] # t[j]
  PROVE  Distinct(s \o t)
  <1> SUFFICES ASSUME NEW i \in 1..Len(s \o t), NEW j \in 1..Len(s \o t), (s \o t)[i] = (s \o t)[j]
               PROVE  i = j
    BY DEF Distinct
  <1>0. /\ i \in 1..Len(s) \/ \E k \in 1..Len(t) : i = Len(s) + k
        /\ j \in 1..Len(s) \/ \E k \in 1..Len(t) : j = Len(s) + k
    <2>1. \A n \in 1..Len(s \o t) : n \in 1..Len(s) \/ \E k \in 1..Len(t) : n = Len(s) + k
      BY ConcatIs
    <2> QED
      BY <2>1, Zenon
  <1>1. CASE i \in 1..Len(s) /\ j \in 1..Len(s)
    BY <1>1, ConcatIs DEF Distinct
  <1>2. ASSUME NEW k \in 1..Len(t), i = Len(s) + k, j \in 1..Len(s) PROVE FALSE
    BY <1>2, ConcatIs
  <1>3. ASSUME NEW k \in 1..Len(t), j = Len(s) + k, i \in 1..Len(s) PROVE FALSE
    BY <1>3, ConcatIs
  <1>4. ASSUME NEW k \in 1..Len(t), NEW m \in 1..Len(t), i = Len(s) + k, j = Len(s) + m PROVE i = j
    <2>1. t[k] = t[m]
      BY <1>4, ConcatIs
    <2> QED
      BY <1>4, <2>1 DEF Distinct
  <1> QED
    BY <1>0, <1>1, <1>2, <1>3, <1>4, Zenon

\* The units of a request: which they are, how many, and that they are its own.
LEMMA UnitsAre ==
  ASSUME ServerAssumption, NEW q \in Request
  PROVE  /\ Content(q) \in Seq(Unit) /\ Len(Content(q)) = Body[q].chars
         /\ Body[q].chars \in Nat \ {0} /\ Body[q].bytes \in Nat \ {0}
         /\ Units(q) \in Seq(Unit)
         /\ Body[q].framing = "length" =>
              /\ Len(Units(q)) = Body[q].chars + 2
              /\ Units(q)[1] = <<q, "head", 0>> /\ Units(q)[2] = <<q, "rest", 0>>
              /\ \A i \in 1..Body[q].chars : Units(q)[i + 2] = <<q, "char", i>>
         /\ Body[q].framing # "length" =>
              /\ Len(Units(q)) = Body[q].chars + 1
              /\ \A i \in 1..Body[q].chars : Units(q)[i] = <<q, "char", i>>
              /\ Units(q)[Body[q].chars + 1] = <<q, "newline", 0>>
  <1>1. Body[q].chars \in Nat \ {0} /\ Body[q].bytes \in Nat \ {0}
    BY DEF ServerAssumption
  <1> DEFINE n == Body[q].chars
             c == Content(q)
             h == <<<<q, "head", 0>>, <<q, "rest", 0>>>>
  <1> HIDE DEF n
  <1>2. /\ <<q, "head", 0>> \in Unit /\ <<q, "rest", 0>> \in Unit /\ <<q, "newline", 0>> \in Unit
        /\ \A k \in Nat : <<q, "char", k>> \in Unit
    BY DEF Unit
  <1>3. c \in Seq(Unit) /\ Len(c) = n /\ \A i \in 1..n : c[i] = <<q, "char", i>>
    <2>1. n \in Nat /\ \A k \in 1..n : <<q, "char", k>> \in Unit
      BY <1>1, <1>2 DEF n
    <2>2. c = [i \in 1..n |-> <<q, "char", i>>]
      BY DEF Content, n, c
    <2> HIDE DEF c
    <2>3. c \in Seq(Unit) /\ Len(c) = n
      BY <2>1, <2>2
    <2> QED
      BY <2>1, <2>2, <2>3
  <1>4. h \in Seq(Unit) /\ Len(h) = 2 /\ h[1] = <<q, "head", 0>> /\ h[2] = <<q, "rest", 0>>
    BY <1>2
  <1> HIDE DEF c, h
  <1>5. CASE Body[q].framing = "length"
    <2>1. Units(q) = h \o c
      BY <1>5 DEF Units, h, c
    <2>2. /\ Units(q) \in Seq(Unit) /\ Len(Units(q)) = Len(h) + Len(c)
          /\ \A i \in 1..Len(h) : Units(q)[i] = h[i]
          /\ \A i \in 1..Len(c) : Units(q)[Len(h) + i] = c[i]
      <3>1. /\ h \o c \in Seq(Unit) /\ Len(h \o c) = Len(h) + Len(c)
            /\ \A i \in 1..Len(h) : (h \o c)[i] = h[i]
            /\ \A i \in 1..Len(c) : (h \o c)[Len(h) + i] = c[i]
        <4>1. h \in Seq(Unit) /\ c \in Seq(Unit)
          BY <1>3, <1>4
        <4> QED
          BY <4>1, ConcatIs
      <3> QED
        BY <2>1, <3>1, Zenon
    <2>3. n \in Nat
      BY <1>1 DEF n
    <2>4. Units(q)[1] = <<q, "head", 0>> /\ Units(q)[2] = <<q, "rest", 0>>
      BY <1>4, <2>2
    <2>5. ASSUME NEW i \in 1..n PROVE Units(q)[i + 2] = <<q, "char", i>>
      <3>1. Units(q)[2 + i] = c[i] /\ 2 + i = i + 2
        BY <1>3, <1>4, <2>2, <2>3
      <3> QED
        BY <1>3, <3>1
    <2>6. Len(Units(q)) = n + 2
      BY <1>3, <1>4, <2>2, <2>3
    <2> QED
      BY <1>1, <1>3, <1>5, <2>2, <2>4, <2>5, <2>6 DEF n, c
  <1>6. CASE Body[q].framing # "length"
    <2>1. Units(q) = Append(c, <<q, "newline", 0>>)
      BY <1>6 DEF Units, c
    <2>2. /\ Units(q) \in Seq(Unit) /\ Len(Units(q)) = n + 1
          /\ Units(q)[n + 1] = <<q, "newline", 0>>
          /\ \A i \in 1..n : Units(q)[i] = c[i]
      BY <1>1, <1>2, <1>3, <2>1 DEF n
    <2> QED
      BY <1>1, <1>3, <1>6, <2>2 DEF n, c
  <1> QED
    BY <1>5, <1>6

\* A unit tells its request, and there is no other like it.
LEMMA UnitsOwn ==
  ASSUME ServerAssumption, NEW q \in Request
  PROVE  /\ \A i \in 1..Len(Units(q)) : Units(q)[i][1] = q
         /\ Distinct(Units(q))
         /\ Len(Units(q)) \in Nat \ {0}
  <1>1. Body[q].chars \in Nat \ {0}
    BY UnitsAre
  <1> DEFINE n == Body[q].chars
             u == Units(q)
  <1> HIDE DEF n, u
  <1>2. CASE Body[q].framing = "length"
    <2>0. n \in Nat \ {0} /\ Len(u) = n + 2
      BY <1>1, <1>2, UnitsAre DEF n, u
    <2>1. u[1] = <<q, "head", 0>> /\ u[2] = <<q, "rest", 0>>
      BY <1>2, UnitsAre DEF u
    <2>2. ASSUME NEW i \in 3..(n + 2) PROVE u[i] = <<q, "char", i - 2>>
      <3>1. i - 2 \in 1..n /\ (i - 2) + 2 = i
        BY <2>0
      <3>2. u[(i - 2) + 2] = <<q, "char", i - 2>>
        BY <1>2, <3>1, UnitsAre DEF n, u
      <3> QED
        BY <3>1, <3>2
    <2>3. \A i \in 1..(n + 2) : i = 1 \/ i = 2 \/ i \in 3..(n + 2)
      BY <2>0
    <2>4. ASSUME NEW i \in 1..(n + 2), NEW j \in 1..(n + 2), u[i] = u[j] PROVE i = j
      <3>1. CASE i \in 3..(n + 2) /\ j \in 3..(n + 2)
        <4>1. <<q, "char", i - 2>> = <<q, "char", j - 2>>
          BY <2>2, <2>4, <3>1
        <4>2. i - 2 = j - 2
          BY <4>1
        <4> QED
          BY <2>0, <4>2
      <3>2. CASE i \in {1, 2} /\ j \in {1, 2}
        BY <2>1, <2>4, <3>2
      <3>3. CASE i \in {1, 2} /\ j \in 3..(n + 2)
        BY <2>1, <2>2, <2>4, <3>3
      <3>4. CASE i \in 3..(n + 2) /\ j \in {1, 2}
        BY <2>1, <2>2, <2>4, <3>4
      <3> QED
        BY <2>3, <3>1, <3>2, <3>3, <3>4
    <2>5. ASSUME NEW i \in 1..(n + 2) PROVE u[i][1] = q
      <3>1. CASE i \in {1, 2}
        BY <2>1, <3>1
      <3>2. CASE i \in 3..(n + 2)
        BY <2>2, <3>2
      <3> QED
        BY <2>3, <3>1, <3>2
    <2> QED
      BY <2>0, <2>4, <2>5 DEF u, Distinct
  <1>3. CASE Body[q].framing # "length"
    <2>0. n \in Nat \ {0} /\ Len(u) = n + 1
      BY <1>1, <1>3, UnitsAre DEF n, u
    <2>1. \A i \in 1..n : u[i] = <<q, "char", i>>
      BY <1>3, UnitsAre DEF n, u
    <2>2. u[n + 1] = <<q, "newline", 0>>
      BY <1>3, UnitsAre DEF n, u
    <2>3. \A i \in 1..(n + 1) : i \in 1..n \/ i = n + 1
      BY <2>0
    <2>4. ASSUME NEW i \in 1..(n + 1), NEW j \in 1..(n + 1), u[i] = u[j] PROVE i = j
      <3>1. CASE i \in 1..n /\ j \in 1..n
        <4>1. <<q, "char", i>> = <<q, "char", j>>
          BY <2>1, <2>4, <3>1
        <4> QED
          BY <4>1
      <3>2. CASE i \in 1..n /\ j = n + 1
        BY <2>1, <2>2, <2>4, <3>2
      <3>3. CASE i = n + 1 /\ j \in 1..n
        BY <2>1, <2>2, <2>4, <3>3
      <3> QED
        BY <2>3, <3>1, <3>2, <3>3
    <2>5. ASSUME NEW i \in 1..(n + 1) PROVE u[i][1] = q
      <3>1. CASE i \in 1..n
        BY <2>1, <3>1
      <3>2. CASE i = n + 1
        BY <2>2, <3>2
      <3> QED
        BY <2>3, <3>1, <3>2
    <2> QED
      BY <2>0, <2>4, <2>5 DEF u, Distinct
  <1> QED
    BY <1>2, <1>3

\* The first n requests make a stream in which no unit comes twice.
LEMMA WrittenAre ==
  ASSUME ServerAssumption, NEW n \in 0..Len(Script)
  PROVE  /\ Written(n) \in Seq(Unit)
         /\ Distinct(Written(n))
         /\ \A i \in 1..Len(Written(n)) : \E m \in 1..n : Written(n)[i][1] = Script[m]
  <1>1. Len(Script) \in Nat /\ \A m \in 1..Len(Script) : Script[m] \in Request
    BY DEF ServerAssumption
  <1>2. \A m, k \in 1..Len(Script) : Script[m] = Script[k] => m = k
    BY DEF ServerAssumption
  <1> DEFINE W(k) == Streams(n)[k]
             Good(k) == /\ W(k) \in Seq(Unit)
                        /\ Distinct(W(k))
                        /\ \A i \in 1..Len(W(k)) : \E m \in 1..k : W(k)[i][1] = Script[m]
             S == {k \in Nat : k <= n => Good(k)}
  <1>3. 0 \in S
    <2>1. W(0) = <<>>
      BY <1>1, StreamsAt
    <2>2. <<>> \in Seq(Unit) /\ Len(<<>>) = 0
      OBVIOUS
    <2>3. \A i \in 1..0 : FALSE
      OBVIOUS
    <2> HIDE DEF W
    <2>4. W(0) \in Seq(Unit) /\ Len(W(0)) = 0
      BY <2>1, <2>2
    <2>5. Good(0)
      BY <2>3, <2>4 DEF Distinct
    <2> QED
      BY <2>5
  <1> HIDE DEF Good
  <1>4. ASSUME NEW k \in Nat, k \in S PROVE k + 1 \in S
    <2> SUFFICES ASSUME k + 1 <= n PROVE Good(k + 1)
      OBVIOUS
    <2>1. Good(k) /\ W(k) \in Seq(Unit)
      BY <1>1, <1>4 DEF Good
    <2> DEFINE q == Script[k + 1]
    <2>2. q \in Request /\ k + 1 \in 1..Len(Script)
      BY <1>1
    <2>3. W(k + 1) = W(k) \o Units(q)
      <3>1. n \in Nat /\ k \in 0..(n - 1)
        BY <1>1
      <3>2. W(k + 1) = AndThen(W(k), q)
        BY <3>1, StreamsAt
      <3> QED
        BY <3>2 DEF AndThen
    <2>4. Units(q) \in Seq(Unit)
      BY <2>2, UnitsAre
    <2> DEFINE w == W(k)
               u == Units(q)
    <2> HIDE DEF W, q
    <2>5. w \in Seq(Unit) /\ Distinct(w) /\ \A i \in 1..Len(w) : \E m \in 1..k : w[i][1] = Script[m]
      BY <2>1 DEF Good
    <2>6. u \in Seq(Unit) /\ Distinct(u) /\ \A i \in 1..Len(u) : u[i][1] = q
      BY <2>2, <2>4, UnitsOwn
    <2>7. \A m \in 1..k : Script[m] # q
      <3>1. \A m \in 1..k : m \in 1..Len(Script) /\ m # k + 1
        BY <2>2
      <3> QED
        BY <1>2, <2>2, <3>1 DEF q
    <2> HIDE DEF w, u
    <2>8. ASSUME NEW i \in 1..Len(w), NEW j \in 1..Len(u) PROVE w[i] # u[j]
      <3>1. PICK m \in 1..k : w[i][1] = Script[m]
        BY <2>5
      <3> QED
        BY <2>6, <2>7, <3>1
    <2>9. w \o u \in Seq(Unit) /\ Distinct(w \o u)
      BY <2>5, <2>6, <2>8, ConcatIs, DistinctConcat
    <2>10. ASSUME NEW i \in 1..Len(w \o u) PROVE \E m \in 1..(k + 1) : (w \o u)[i][1] = Script[m]
      <3>1. CASE i \in 1..Len(w)
        <4>1. PICK m \in 1..k : w[i][1] = Script[m]
          BY <2>5, <3>1
        <4> QED
          BY <2>5, <2>6, <3>1, <4>1, ConcatIs
      <3>2. ASSUME NEW j \in 1..Len(u), i = Len(w) + j PROVE (w \o u)[i][1] = Script[k + 1]
        BY <2>5, <2>6, <3>2, ConcatIs DEF q
      <3> QED
        BY <2>5, <2>6, <3>1, <3>2, ConcatIs
    <2> QED
      BY <2>3, <2>9, <2>10 DEF Good, w, u
  <1>5. Nat \subseteq S
    <2> HIDE DEF S
    <2> QED
      BY <1>3, <1>4, Induction
  <1>6. Good(n)
    BY <1>1, <1>5
  <1> QED
    BY <1>6 DEF Written, Good

-----------------------------------------------------------------------------
(* Messages.                                                               *)

\* A message is a parse error or the request whose content it is.
LEMMA MessageIs ==
  ASSUME NEW x, NEW r
  PROVE  /\ Message(x, r).parsed = TRUE /\ Message(x, r).rest = r
         /\ \/ Message(x, r).out = <<Bad>> /\ Parsed(x) = {}
            \/ \E q \in Request : Message(x, r).out = <<q>> /\ x = Content(q)
  <1>1. CASE Parsed(x) = {}
    BY <1>1 DEF Message
  <1>2. CASE Parsed(x) # {}
    <2>1. PICK q : q = CHOOSE y \in Parsed(x) : TRUE
      OBVIOUS
    <2>2. q \in Parsed(x)
      BY <1>2, <2>1
    <2>3. Message(x, r).out = <<q>>
      BY <1>2, <2>1 DEF Message
    <2> QED
      BY <2>2, <2>3 DEF Message, Parsed
  <1> QED
    BY <1>1, <1>2

\* The content of a request begins with its first character.
LEMMA ContentStarts ==
  ASSUME ServerAssumption, NEW q \in Request
  PROVE  Content(q)[1] = <<q, "char", 1>> /\ Len(Content(q)) \in Nat \ {0}
  <1>1. Body[q].chars \in Nat \ {0} /\ Len(Content(q)) = Body[q].chars
    BY UnitsAre
  <1>2. 1 \in 1..Body[q].chars
    BY <1>1
  <1> QED
    BY <1>1, <1>2 DEF Content

\* What one message takes and gives.
Taken(b, k, out) ==
  \/ out = <<>> \/ out = <<Bad>>
  \/ \E q \in Request : out = <<q>> /\ \E i \in 1..k : b[i] = <<q, "char", 1>>

\* A message that is parsed out of a piece of what is there: where it begins is where its
\* request begins.
LEMMA PieceTaken ==
  ASSUME ServerAssumption, NEW b \in Seq(Unit), NEW m \in Nat \ {0}, NEW n \in Nat, n <= Len(b),
         NEW k \in n..Len(b), NEW t, t = Message(SubSeq(b, m, n), SubSeq(b, k + 1, Len(b)))
  PROVE  /\ t.rest = SubSeq(b, k + 1, Len(b))
         /\ Taken(b, k, t.out)
  <1> DEFINE x == SubSeq(b, m, n)
             r == SubSeq(b, k + 1, Len(b))
  <1>1. m <= n => Len(x) = (n - m) + 1 /\ x[1] = b[m]
    OBVIOUS
  <1>2. m > n => x = <<>>
    BY SubSeqEmpty
  <1>3. t = Message(x, r)
    OBVIOUS
  <1> HIDE DEF x, r
  <1>4. ASSUME NEW q \in Request, t.out = <<q>>, x = Content(q)
        PROVE  \E i \in 1..k : b[i] = <<q, "char", 1>>
    <2>1. x[1] = <<q, "char", 1>> /\ x # <<>>
      BY <1>4, ContentStarts
    <2>2. m <= n /\ m \in 1..k
      BY <1>2, <2>1
    <2> QED
      BY <1>1, <2>1, <2>2
  <1>5. /\ t.rest = r
        /\ t.out = <<Bad>> \/ \E q \in Request : t.out = <<q>> /\ x = Content(q)
    <2>1. /\ Message(x, r).rest = r
          /\ Message(x, r).out = <<Bad>> \/ \E q \in Request : Message(x, r).out = <<q>> /\ x = Content(q)
      BY MessageIs, Zenon
    <2> QED
      BY <1>3, <2>1, Zenon
  <1>6. Taken(b, k, t.out)
    BY <1>4, <1>5, Zenon DEF Taken
  <1> QED
    BY <1>5, <1>6, Zenon DEF r

\* Whatever has come, a message takes at least a unit from its front and leaves the rest
\* as it is; and a request is among what it takes.
LEMMA TakeEffect ==
  ASSUME ServerAssumption, NEW b \in Seq(Unit), b # <<>>, Take(b).parsed
  PROVE  \E k \in 1..Len(b) : /\ Take(b).rest = SubSeq(b, k + 1, Len(b))
                              /\ Taken(b, k, Take(b).out)
  <1>0. Len(b) \in Nat \ {0} /\ \A i \in 1..Len(b) : b[i] \in Unit
    OBVIOUS
  <1>1. CASE HasHeader(b)
    <2> DEFINE end == 2 + Body[b[1][1]].bytes
    <2>1. b[1][1] \in Request
      BY <1>0 DEF Unit
    <2>2. end \in Nat /\ end > 2
      BY <2>1, UnitsAre
    <2>3. Take(b) = IF Len(b) < end THEN Wait(b) ELSE Message(SubSeq(b, 3, end), SubSeq(b, end + 1, Len(b)))
      BY <1>1 DEF Take, TakeLength
    <2> HIDE DEF end
    <2>4. ~ (Len(b) < end)
      BY <2>3 DEF Wait
    <2>5. end \in end..Len(b) /\ end \in 1..Len(b) /\ 3 \in Nat \ {0} /\ end <= Len(b)
      BY <1>0, <2>2, <2>4
    <2>6. Take(b) = Message(SubSeq(b, 3, end), SubSeq(b, end + 1, Len(b)))
      BY <2>3, <2>4, Zenon
    <2>7. Take(b).rest = SubSeq(b, end + 1, Len(b)) /\ Taken(b, end, Take(b).out)
      BY <2>2, <2>5, <2>6, PieceTaken
    <2> QED
      BY <2>5, <2>7
  <1>2. CASE ~ HasHeader(b)
    <2> DEFINE ends == {i \in DOMAIN b : b[i][2] \in {"newline", "rest"}}
               end  == CHOOSE i \in ends : \A j \in ends : i <= j
    <2>1. Take(b) = IF ends = {} THEN Wait(b)
                    ELSE IF end = 1 /\ b[1][2] = "newline" THEN Skip(Tail(b))
                    ELSE Message(IF b[end][2] = "newline" THEN SubSeq(b, 1, end - 1) ELSE SubSeq(b, 1, end),
                                 SubSeq(b, end + 1, Len(b)))
      BY <1>2 DEF Take, TakeLine
    <2>2. ends # {}
      BY <2>1 DEF Wait
    <2>3. end \in 1..Len(b)
      <3>1. ends \subseteq Nat /\ ends \subseteq 1..Len(b)
        OBVIOUS
      <3>2. \E i \in ends : \A j \in ends : i <= j
        <4> HIDE DEF ends
        <4> QED
          BY <2>2, <3>1, Least
      <3>3. end \in ends
        <4> HIDE DEF ends
        <4> QED
          BY <3>2
      <3> QED
        BY <3>1, <3>3
    <2> HIDE DEF ends, end
    <2>4. CASE end = 1 /\ b[1][2] = "newline"
      <3>1. Take(b).rest = Tail(b) /\ Take(b).out = <<>>
        BY <2>1, <2>2, <2>4 DEF Skip
      <3>2. Tail(b) = SubSeq(b, 1 + 1, Len(b))
        BY TailIsSubSeq
      <3>3. 1 \in 1..Len(b) /\ Taken(b, 1, Take(b).out)
        <4>1. 1 \in 1..Len(b)
          BY <1>0
        <4> QED
          BY <3>1, <4>1, Zenon DEF Taken
      <3>4. Take(b).rest = SubSeq(b, 1 + 1, Len(b))
        BY <3>1, <3>2, Zenon
      <3> QED
        BY <3>3, <3>4, Zenon
    <2>5. CASE ~ (end = 1 /\ b[1][2] = "newline") /\ b[end][2] = "newline"
      <3>1. Take(b) = Message(SubSeq(b, 1, end - 1), SubSeq(b, end + 1, Len(b)))
        BY <2>1, <2>2, <2>5
      <3>2. end - 1 \in Nat /\ end - 1 <= Len(b) /\ end \in (end - 1)..Len(b) /\ 1 \in Nat \ {0}
        BY <1>0, <2>3
      <3>3. Take(b).rest = SubSeq(b, end + 1, Len(b)) /\ Taken(b, end, Take(b).out)
        BY <3>1, <3>2, PieceTaken
      <3> QED
        BY <2>3, <3>3
    <2>6. CASE ~ (end = 1 /\ b[1][2] = "newline") /\ b[end][2] # "newline"
      <3>1. Take(b) = Message(SubSeq(b, 1, end), SubSeq(b, end + 1, Len(b)))
        BY <2>1, <2>2, <2>6
      <3>2. end \in Nat /\ end <= Len(b) /\ end \in end..Len(b) /\ 1 \in Nat \ {0}
        BY <1>0, <2>3
      <3>3. Take(b).rest = SubSeq(b, end + 1, Len(b)) /\ Taken(b, end, Take(b).out)
        BY <3>1, <3>2, PieceTaken
      <3> QED
        BY <2>3, <3>3
    <2> QED
      BY <2>4, <2>5, <2>6
  <1> QED
    BY <1>1, <1>2

\* So do all the messages of a chunk: the rest is the end of what was there, and the
\* first character of a request that came out is not in it.
Drained(b, c) ==
  /\ c.out \in Seq(Request \cup {Bad})
  /\ \E k \in 0..Len(b) :
       /\ c.rest = SubSeq(b, k + 1, Len(b))
       /\ \A n \in 1..Len(c.out) : c.out[n] # Bad => \E i \in 1..k : b[i] = <<c.out[n], "char", 1>>

LEMMA TakeOneDrains ==
  ASSUME ServerAssumption, NEW b \in Seq(Unit), NEW c, Drained(b, c)
  PROVE  Drained(b, TakeOne(c))
  <1>1. PICK k \in 0..Len(b) :
          /\ c.rest = SubSeq(b, k + 1, Len(b))
          /\ \A n \in 1..Len(c.out) : c.out[n] # Bad => \E i \in 1..k : b[i] = <<c.out[n], "char", 1>>
    BY DEF Drained
  <1>2. CASE c.rest = <<>> \/ ~ Take(c.rest).parsed
    BY <1>2 DEF TakeOne
  <1>3. CASE ~ (c.rest = <<>> \/ ~ Take(c.rest).parsed)
    <2> DEFINE r == c.rest
    <2>1. r \in Seq(Unit) /\ Len(r) = Len(b) - k /\ \A i \in 1..Len(r) : r[i] = b[k + i]
      BY <1>1
    <2>2. PICK m \in 1..Len(r) : Take(r).rest = SubSeq(r, m + 1, Len(r)) /\ Taken(r, m, Take(r).out)
      BY <1>3, <2>1, TakeEffect
    <2>3. k + m \in 0..Len(b) /\ SubSeq(r, m + 1, Len(r)) = SubSeq(b, (k + m) + 1, Len(b))
      BY <1>1, <2>1
    <2> DEFINE o == Take(r).out
               d == TakeOne(c)
    <2>4. d.rest = SubSeq(b, (k + m) + 1, Len(b)) /\ d.out = c.out \o o
      BY <1>3, <2>2, <2>3 DEF TakeOne
    <2>5. /\ o \in Seq(Request \cup {Bad})
          /\ \A n \in 1..Len(o) : o[n] # Bad => \E i \in 1..m : r[i] = <<o[n], "char", 1>>
      <3> HIDE DEF r
      <3>1. Taken(r, m, o)
        BY <2>2
      <3> HIDE DEF o
      <3>2. ASSUME NEW e \in Request \cup {Bad}, o = <<e>>, e # Bad => \E i \in 1..m : r[i] = <<e, "char", 1>>
            PROVE  /\ o \in Seq(Request \cup {Bad})
                   /\ \A n \in 1..Len(o) : o[n] # Bad => \E i \in 1..m : r[i] = <<o[n], "char", 1>>
        <4>1. o \in Seq(Request \cup {Bad}) /\ Len(o) = 1 /\ o[1] = e
          BY <3>2
        <4>2. \A n \in 1..1 : n = 1
          OBVIOUS
        <4> QED
          BY <3>2, <4>1, <4>2
      <3>3. CASE o = <<>>
        BY <3>3
      <3>4. CASE o = <<Bad>>
        BY <3>2, <3>4
      <3>5. ASSUME NEW q \in Request, o = <<q>>, \E i \in 1..m : r[i] = <<q, "char", 1>>
            PROVE  /\ o \in Seq(Request \cup {Bad})
                   /\ \A n \in 1..Len(o) : o[n] # Bad => \E i \in 1..m : r[i] = <<o[n], "char", 1>>
        BY <3>2, <3>5
      <3> QED
        BY <3>1, <3>3, <3>4, <3>5 DEF Taken
    <2>6. \A i \in 1..m : k + i \in 1..(k + m) /\ r[i] = b[k + i]
      BY <1>1, <2>1, <2>2
    <2>7. \A i \in 1..k : i \in 1..(k + m)
      BY <1>1, <2>1
    <2>8. c.out \in Seq(Request \cup {Bad})
      BY DEF Drained
    <2> HIDE DEF o, d, r
    <2> DEFINE U == Request \cup {Bad}
               x == c.out
    <2>9. /\ x \o o \in Seq(U) /\ Len(x \o o) = Len(x) + Len(o)
          /\ \A i \in 1..Len(x) : (x \o o)[i] = x[i]
          /\ \A i \in 1..Len(o) : (x \o o)[Len(x) + i] = o[i]
          /\ \A i \in 1..Len(x \o o) : i \in 1..Len(x) \/ \E j \in 1..Len(o) : i = Len(x) + j
      <3>1. x \in Seq(U) /\ o \in Seq(U)
        BY <2>5, <2>8
      <3> HIDE DEF U, x
      <3>2. /\ x \o o \in Seq(U) /\ Len(x \o o) = Len(x) + Len(o)
            /\ \A i \in 1..Len(x) : (x \o o)[i] = x[i]
        BY <3>1, ConcatIs
      <3>3. \A i \in 1..Len(o) : (x \o o)[Len(x) + i] = o[i]
        BY <3>1, ConcatIs
      <3>4. \A i \in 1..Len(x \o o) : i \in 1..Len(x) \/ \E j \in 1..Len(o) : i = Len(x) + j
        BY <3>1, ConcatIs
      <3> QED
        BY <3>2, <3>3, <3>4, Zenon
    <2> DEFINE y == x \o o
    <2>10. d.out = y
      BY <2>4
    <2>11. \A n \in 1..Len(x) : x[n] # Bad => \E i \in 1..k : b[i] = <<x[n], "char", 1>>
      BY <1>1
    <2> HIDE DEF U, x, y
    <2>12. ASSUME NEW n \in 1..Len(y), y[n] # Bad
           PROVE  \E i \in 1..(k + m) : b[i] = <<y[n], "char", 1>>
      <3>1. CASE n \in 1..Len(x)
        <4>1. y[n] = x[n]
          BY <2>9, <3>1 DEF y
        <4>2. PICK i \in 1..k : b[i] = <<x[n], "char", 1>>
          BY <2>11, <2>12, <3>1, <4>1
        <4> QED
          BY <2>7, <4>1, <4>2
      <3>2. ASSUME NEW j \in 1..Len(o), n = Len(x) + j
            PROVE  \E i \in 1..(k + m) : b[i] = <<y[n], "char", 1>>
        <4>1. y[n] = o[j]
          BY <2>9, <3>2 DEF y
        <4>2. PICK i \in 1..m : r[i] = <<o[j], "char", 1>>
          BY <2>5, <2>12, <4>1
        <4> QED
          BY <2>6, <4>1, <4>2
      <3> QED
        BY <2>9, <3>1, <3>2 DEF y
    <2>13. d.out \in Seq(Request \cup {Bad})
      BY <2>9, <2>10 DEF U, y
    <2>14. Drained(b, d)
      <3>1. k + m \in 0..Len(b) /\ d.rest = SubSeq(b, k + m + 1, Len(b))
        BY <2>3, <2>4
      <3>2. \A n \in 1..Len(d.out) : d.out[n] # Bad => \E i \in 1..(k + m) : b[i] = <<d.out[n], "char", 1>>
        BY <2>10, <2>12
      <3> HIDE DEF d
      <3> QED
        BY <2>13, <3>1, <3>2 DEF Drained
    <2> QED
      BY <2>14 DEF d
  <1> QED
    BY <1>2, <1>3

\* Any number of messages.
LEMMA DrainsEffect ==
  ASSUME NEW b \in Seq(Unit), NEW n \in Nat
  PROVE  \A i \in 0..n : Drained(b, Drains(b, n)[i])
  <1>0. \A i \in Nat : i + 1 <= n => Drains(b, n)[i + 1] = TakeOne(Drains(b, n)[i])
    BY DrainsAt
  <1> DEFINE S == {i \in Nat : i <= n => Drained(b, Drains(b, n)[i])}
  <1>1. 0 \in S
    <2>1. Drains(b, n)[0] = [rest |-> b, out |-> <<>>]
      BY DrainsAt
    <2>2. SubSeq(b, 0 + 1, Len(b)) = b /\ 0 \in 0..Len(b)
      OBVIOUS
    <2>3. Drained(b, [rest |-> b, out |-> <<>>])
      BY <2>2 DEF Drained
    <2> QED
      BY <2>1, <2>3
  <1>2. ASSUME NEW i \in Nat, i \in S PROVE i + 1 \in S
    <2> SUFFICES ASSUME i + 1 <= n PROVE Drained(b, Drains(b, n)[i + 1])
      OBVIOUS
    <2>1. i <= n
      OBVIOUS
    <2>2. Drained(b, Drains(b, n)[i])
      BY <1>2, <2>1
    <2>3. Drains(b, n)[i + 1] = TakeOne(Drains(b, n)[i])
      BY <1>0
    <2> QED
      BY <2>2, <2>3, ServerAssumption, TakeOneDrains
  <1>3. Nat \subseteq S
    <2> HIDE DEF S
    <2> QED
      BY <1>1, <1>2, Induction
  <1> QED
    BY <1>3

-----------------------------------------------------------------------------
(* What a chunk does to the stream.                                        *)

\* What is still to be parsed.
Pipe == buffer \o unsent

\* The sequence t is what is left of s after k units.
EndOf(t, s, k) ==
  /\ t \in Seq(Unit) /\ k \in 0..Len(s) /\ Len(t) = Len(s) - k
  /\ \A i \in 1..Len(t) : t[i] = s[k + i]

\* What is left of a sequence in which no unit comes twice is such a sequence, and has
\* none of the units that went before.
LEMMA EndDistinct ==
  ASSUME NEW s \in Seq(Unit), NEW t, NEW k, EndOf(t, s, k), Distinct(s)
  PROVE  /\ Distinct(t)
         /\ \A i \in 1..k : s[i] \notin ToSet(t)
         /\ ToSet(t) \subseteq ToSet(s)
  <1>1. t \in Seq(Unit) /\ k \in 0..Len(s) /\ Len(t) = Len(s) - k /\ Len(s) \in Nat
    BY DEF EndOf
  <1>2. \A i \in 1..Len(t) : t[i] = s[k + i] /\ k + i \in 1..Len(s) /\ k + i > k
    BY <1>1 DEF EndOf
  <1>3. ASSUME NEW i \in 1..Len(t), NEW j \in 1..Len(t), t[i] = t[j] PROVE i = j
    <2>1. k + i = k + j
      BY <1>2, <1>3 DEF Distinct
    <2> QED
      BY <1>1, <2>1
  <1>4. ASSUME NEW i \in 1..k, NEW j \in 1..Len(t), s[i] = t[j] PROVE FALSE
    <2>1. i \in 1..Len(s) /\ i # k + j
      BY <1>1, <1>2
    <2> QED
      BY <1>2, <1>4, <2>1 DEF Distinct
  <1>5. ToSet(t) = {t[i] : i \in 1..Len(t)} /\ ToSet(s) = {s[i] : i \in 1..Len(s)}
    BY <1>1 DEF ToSet
  <1> QED
    BY <1>2, <1>3, <1>4, <1>5 DEF Distinct

\* A chunk is the front of what is still to be sent.
LEMMA ChunkIs ==
  ASSUME buffer \in Seq(Unit), unsent \in Seq(Unit), NEW n \in Nat, n <= Len(unsent)
  PROVE  LET u == SubSeq(unsent, n + 1, Len(unsent))
         IN  /\ Chunk(n) \in Seq(Unit) /\ Len(Chunk(n)) = n
             /\ u \in Seq(Unit) /\ Len(u) = Len(unsent) - n
             /\ Pipe = (buffer \o Chunk(n)) \o u
  <1> DEFINE u == SubSeq(unsent, n + 1, Len(unsent))
  <1>1. Chunk(n) \in Seq(Unit) /\ Len(Chunk(n)) = n /\ u \in Seq(Unit) /\ Len(u) = Len(unsent) - n
    BY DEF Chunk
  <1>2. unsent = Chunk(n) \o u
    <2>1. n \in 0..Len(unsent) /\ SubSeq(unsent, 1, Len(unsent)) = unsent
      OBVIOUS
    <2>2. 1 \in 1..(Len(unsent) + 1) /\ n \in (1 - 1)..Len(unsent) /\ Len(unsent) \in n..Len(unsent)
      BY <2>1
    <2>3. SubSeq(unsent, 1, n) \o SubSeq(unsent, n + 1, Len(unsent)) = SubSeq(unsent, 1, Len(unsent))
      BY <2>2, ConcatAdjacentSubSeq
    <2> QED
      BY <2>1, <2>3 DEF Chunk
  <1> HIDE DEF u
  <1>3. (buffer \o Chunk(n)) \o u = buffer \o (Chunk(n) \o u)
    BY <1>1
  <1>4. Pipe = (buffer \o Chunk(n)) \o u
    BY <1>2, <1>3, Zenon DEF Pipe
  <1> QED
    BY <1>1, <1>4 DEF u

\* A chunk takes units from the front of what is still to be parsed, and with every
\* request that it dispatches the first character of its body.
LEMMA ReadEffect ==
  ASSUME buffer \in Seq(Unit), unsent \in Seq(Unit), NEW n \in Nat, n <= Len(unsent)
  PROVE  /\ Read(n).rest \in Seq(Unit) /\ Read(n).out \in Seq(Request \cup {Bad})
         /\ SubSeq(unsent, n + 1, Len(unsent)) \in Seq(Unit)
         /\ \E k \in Nat :
              /\ EndOf(Read(n).rest \o SubSeq(unsent, n + 1, Len(unsent)), Pipe, k)
              /\ \A q \in Dispatched(Read(n)) : \E i \in 1..k : Pipe[i] = <<q, "char", 1>>
  <1> DEFINE b == buffer \o Chunk(n)
             r == Read(n)
             u == SubSeq(unsent, n + 1, Len(unsent))
  <1>1. Chunk(n) \in Seq(Unit) /\ Len(Chunk(n)) = n /\ u \in Seq(Unit) /\ Len(u) = Len(unsent) - n
    BY ChunkIs
  <1>2. b \in Seq(Unit) /\ Len(b) \in Nat
    BY <1>1
  <1>3. Drained(b, r)
    <2>1. r = Drains(b, Len(b))[Len(b)]
      BY DEF Read, Drain
    <2> HIDE DEF b, r
    <2>2. Len(b) \in 0..Len(b)
      BY <1>2
    <2>3. \A i \in 0..Len(b) : Drained(b, Drains(b, Len(b))[i])
      BY <1>2, DrainsEffect
    <2> QED
      BY <2>1, <2>2, <2>3, Zenon
  <1>4. Pipe = b \o u
    BY ChunkIs
  <1> HIDE DEF b, r, u
  <1>5. PICK k \in 0..Len(b) :
          /\ r.rest = SubSeq(b, k + 1, Len(b))
          /\ \A m \in 1..Len(r.out) : r.out[m] # Bad => \E i \in 1..k : b[i] = <<r.out[m], "char", 1>>
    BY <1>3 DEF Drained
  <1>6. r.out \in Seq(Request \cup {Bad})
    BY <1>3 DEF Drained
  <1> DEFINE x == r.rest
  <1>7. x \in Seq(Unit) /\ Len(x) = Len(b) - k /\ \A i \in 1..Len(x) : x[i] = b[k + i]
    BY <1>2, <1>5
  <1> HIDE DEF x
  <1>8. EndOf(x \o u, b \o u, k)
    <2>1. /\ x \o u \in Seq(Unit) /\ Len(x \o u) = Len(x) + Len(u)
          /\ \A i \in 1..Len(x) : (x \o u)[i] = x[i]
          /\ \A i \in 1..Len(u) : (x \o u)[Len(x) + i] = u[i]
          /\ \A i \in 1..Len(x \o u) : i \in 1..Len(x) \/ \E j \in 1..Len(u) : i = Len(x) + j
      BY <1>1, <1>7, ConcatIs
    <2>2. /\ b \o u \in Seq(Unit) /\ Len(b \o u) = Len(b) + Len(u)
          /\ \A i \in 1..Len(b) : (b \o u)[i] = b[i]
          /\ \A i \in 1..Len(u) : (b \o u)[Len(b) + i] = u[i]
      <3>1. b \o u \in Seq(Unit) /\ Len(b \o u) = Len(b) + Len(u)
        BY <1>1, <1>2, ConcatIs
      <3>2. \A i \in 1..Len(b) : (b \o u)[i] = b[i]
        BY <1>1, <1>2, ConcatIs
      <3>3. \A i \in 1..Len(u) : (b \o u)[Len(b) + i] = u[i]
        BY <1>1, <1>2, ConcatIs
      <3> QED
        BY <3>1, <3>2, <3>3, Zenon
    <2>3. Len(u) \in Nat /\ Len(x) \in Nat
      BY <1>1, <1>7
    <2>4. k \in 0..Len(b \o u) /\ Len(x \o u) = Len(b \o u) - k
      BY <1>2, <1>7, <2>1, <2>2, <2>3
    <2>5. ASSUME NEW i \in 1..Len(x) PROVE (x \o u)[i] = (b \o u)[k + i]
      <3>1. k + i \in 1..Len(b)
        BY <1>2, <1>7
      <3> QED
        BY <1>7, <2>1, <2>2, <3>1
    <2>6. ASSUME NEW j \in 1..Len(u) PROVE (x \o u)[Len(x) + j] = (b \o u)[k + (Len(x) + j)]
      <3>1. k + (Len(x) + j) = Len(b) + j
        BY <1>2, <1>7, <2>3
      <3> QED
        BY <2>1, <2>2, <3>1
    <2> QED
      BY <2>1, <2>4, <2>5, <2>6 DEF EndOf
  <1>9. ASSUME NEW q \in Dispatched(r) PROVE \E i \in 1..k : (b \o u)[i] = <<q, "char", 1>>
    <2>1. PICK m \in 1..Len(r.out) : q = r.out[m]
      BY <1>6 DEF Dispatched, ToSet
    <2>2. q # Bad
      BY ServerAssumption DEF Dispatched, ServerAssumption
    <2>3. PICK i \in 1..k : b[i] = <<q, "char", 1>>
      BY <1>5, <2>1, <2>2
    <2>4. i \in 1..Len(b)
      BY <1>2
    <2>5. (b \o u)[i] = b[i]
      BY <1>1, <1>2, <2>4, ConcatIs
    <2> QED
      BY <2>3, <2>5
  <1>10. k \in Nat
    BY <1>2
  <1> QED
    BY <1>1, <1>4, <1>6, <1>7, <1>8, <1>9, <1>10, Zenon DEF r, u, x

\* A restart leaves the end of the stream.
LEMMA RestartEffect ==
  ASSUME buffer \in Seq(Unit), unsent \in Seq(Unit), Restart(Pending)
  PROVE  /\ unsent' \in Seq(Unit) /\ buffer' = <<>>
         /\ \E k \in Nat : EndOf(Pipe', Pipe, k)
  <1> DEFINE cut == {i \in DOMAIN unsent : unsent[i][1] \in Half}
             n == Cardinality(cut)
  <1>1. n \in 0..Len(unsent)
    <2>1. IsFiniteSet(1..Len(unsent)) /\ Cardinality(1..Len(unsent)) = Len(unsent)
      <3>1. Len(unsent) \in Nat /\ Len(unsent) \in Int /\ 1 \in Int
        OBVIOUS
      <3> DEFINE len == Len(unsent)
      <3>2. len \in Nat /\ len \in Int /\ 1 \in Int
        BY <3>1
      <3> HIDE DEF len
      <3>3. IsFiniteSet(1..len) /\ Cardinality(1..len) = IF 1 > len THEN 0 ELSE len - 1 + 1
        BY <3>2, FS_Interval, Zenon
      <3>4. Cardinality(1..len) = len
        BY <3>2, <3>3
      <3> QED
        BY <3>3, <3>4 DEF len
    <2>2. cut \subseteq 1..Len(unsent)
      OBVIOUS
    <2>3. IsFiniteSet(cut) /\ n <= Len(unsent)
      BY <2>1, <2>2, FS_Subset
    <2>4. n \in Nat
      BY <2>3, FS_CardinalityType
    <2> QED
      BY <2>3, <2>4
  <1> HIDE DEF n
  <1>2. unsent' = SubSeq(unsent, n + 1, Len(unsent)) /\ buffer' = <<>>
    BY DEF Restart, n
  <1> DEFINE u == SubSeq(unsent, n + 1, Len(unsent))
  <1>3. u \in Seq(Unit) /\ Len(u) = Len(unsent) - n /\ \A i \in 1..Len(u) : u[i] = unsent[n + i]
    BY <1>1
  <1> HIDE DEF u
  <1>4. Pipe' = u
    BY <1>2, <1>3 DEF Pipe, u
  <1>5. EndOf(u, buffer \o unsent, Len(buffer) + n)
    <2>1. /\ Len(buffer \o unsent) = Len(buffer) + Len(unsent)
          /\ \A i \in 1..Len(unsent) : (buffer \o unsent)[Len(buffer) + i] = unsent[i]
      BY ConcatIs
    <2>2. Len(buffer) \in Nat /\ Len(unsent) \in Nat
      OBVIOUS
    <2>3. ASSUME NEW i \in 1..Len(u) PROVE u[i] = (buffer \o unsent)[(Len(buffer) + n) + i]
      <3>1. n + i \in 1..Len(unsent) /\ (Len(buffer) + n) + i = Len(buffer) + (n + i)
        BY <1>1, <1>3, <2>2
      <3> QED
        BY <1>3, <2>1, <3>1
    <2> QED
      BY <1>1, <1>3, <2>1, <2>2, <2>3 DEF EndOf
  <1> QED
    BY <1>1, <1>2, <1>3, <1>4, <1>5 DEF Pipe, u

-----------------------------------------------------------------------------
(* The inductive invariant.                                                *)

CallState == [pc : {"none", "start", "open", "write", "scan", "reply", "done"},
              todo : SUBSET Grant, at : 0..MaxTime, found : SUBSET Grant,
              result : {"none", "ok", "noop", "not_found", "no_consent"},
              dead : SUBSET Grant, sure : SUBSET Grant]

\* No unit is read twice, so no request is dispatched twice.
OnceInv ==
  /\ Distinct(Pipe)
  /\ \A q \in Request : call[q].pc # "none" => <<q, "char", 1>> \notin ToSet(Pipe)

\* A call does what its tool does.
StepsInv == \A q \in Request :
  /\ call[q].pc \notin {"none", "done"} => Body[q].id
  /\ call[q].pc \in {"open", "write"} => Tool[q].op \in {"grant", "revoke"}
  /\ call[q].pc = "scan" => Tool[q].op \in {"share", "list"}
  /\ call[q].result = "no_consent" => call[q].pc = "reply" /\ ~ AsksGrants(Tool[q])

\* What has been answered is over.
AnsweredInv == \A q \in Request : answers[q] = 1 => call[q].pc = "done" /\ Body[q].id

Creates(q, g) == Tool[q].op = "grant" /\ Tool[q].grant = g
Revokes(q, g) == Tool[q].op = "revoke" /\ Tool[q].grant = g

\* The revocation of g has been asked for.
Asked(g) == \E r \in Request : Revokes(r, g) /\ call[r].pc # "none"

\* A grant is revoked by those who were told of it, after it was put.
GrantInv(g) ==
  /\ \A q \in Request : Creates(q, g) /\ Asked(g) => call[q].pc = "done"
  /\ \A q \in Request : Creates(q, g) /\ call[q].pc \in {"none", "open", "write"} => grants[g].state # "whole"
  /\ grants[g].revoked => Asked(g)
  /\ g \in revoked => grants[g].revoked
  /\ \A q \in Request : Revokes(q, g) /\ call[q].pc = "reply" /\ call[q].result # "not_found" => grants[g].revoked

GrantsInv == \A g \in Grant : GrantInv(g)

\* Why a grant is dead to a call, and what the call has found.
DeadInv == \A q \in Request :
  /\ call[q].found \cap call[q].dead = {}
  /\ \A g \in call[q].dead :
       \/ g \in revoked
       \/ Given[g].expires \in 1..now /\ (call[q].pc = "scan" => Given[g].expires <= call[q].at)

\* A grant that covers a share is found, or will be.
SureInv == \A q \in Request : \A g \in call[q].sure :
  /\ Tool[q].op = "share"
  /\ ~ Asked(g) =>
       /\ Covers(g, Tool[q].form) /\ ~ grants[g].revoked
       /\ call[q].pc = "scan" => g \in call[q].todo \/ g \in call[q].found \/ Given[g].expires \in 1..call[q].at

IInv == TypeOK /\ OnceInv /\ StepsInv /\ AnsweredInv /\ GrantsInv /\ DeadInv /\ SureInv

-----------------------------------------------------------------------------
(* What a step does to the calls.                                          *)

LEMMA TypeIs ==
  ASSUME TypeOK
  PROVE  /\ call \in [Request -> CallState]
         /\ grants \in [Grant -> File]
         /\ buffer \in Seq(Unit) /\ unsent \in Seq(Unit)
         /\ answers \in [Request -> 0..1]
         /\ now \in 0..MaxTime /\ revoked \subseteq Grant
         /\ MaxTime \in Nat
  BY SharingAssumption DEF TypeOK, ServerTypeOK, CallState, SharingAssumption

\* The call that a request becomes when it is dispatched.
NewCall(q) ==
  IF q \in AtOnce \/ ~ Body[q].id THEN Done
  ELSE IF Tool[q].op = "grant" THEN [NoCall EXCEPT !.pc = "open", !.result = "ok"]
  ELSE IF Tool[q].op = "revoke" THEN [NoCall EXCEPT !.pc = "start"]
  ELSE [NoCall EXCEPT !.pc = "start", !.dead = Dead, !.sure = Sure(Tool[q])]

\* The requests of a chunk, each of which is dispatched once.
Got(n) == Dispatched(Read(n))

LEMMA ArriveEffect ==
  ASSUME TypeOK, OnceInv, NEW n \in 1..MaxChunk, Arrive(n)
  PROVE  /\ Got(n) \subseteq Request /\ Told(Got(n))
         /\ \A q \in Got(n) : call[q].pc = "none"
         /\ call' = [q \in Request |-> IF q \in Got(n) THEN NewCall(q) ELSE call[q]]
         /\ answers' = [q \in Request |-> IF q \in Got(n) /\ q \in AtOnce /\ Body[q].id THEN answers[q] + 1 ELSE answers[q]]
         /\ grants' = grants /\ now' = now /\ revoked' = revoked /\ lost' = lost /\ restarts' = restarts
         /\ unsent' \in Seq(Unit) /\ buffer' \in Seq(Unit)
         /\ misread \in Nat => misread' \in Nat
         /\ spoken' \in {"unknown", "length", "line"} \cup {spoken}
         /\ Distinct(Pipe')
         /\ ToSet(Pipe') \subseteq ToSet(Pipe)
         /\ \A q \in Got(n) : <<q, "char", 1>> \notin ToSet(Pipe')
  <1> DEFINE got == Got(n)
             u == SubSeq(unsent, n + 1, Len(unsent))
             x == Read(n).rest
             errors == {i \in DOMAIN Read(n).out : Read(n).out[i] = Bad}
  <1>1. n \in Nat /\ n <= Len(unsent) /\ buffer \in Seq(Unit) /\ unsent \in Seq(Unit)
    <2>1. n <= Len(unsent)
      BY DEF Arrive
    <2>2. n \in Nat
      BY ServerAssumption DEF ServerAssumption
    <2> QED
      BY <2>1, <2>2, TypeIs
  <1>2. Told(got) /\ Data(n, Read(n), AtOnce) /\ UNCHANGED <<grants, now, revoked>>
    BY DEF Arrive, Got
  <1>3. call' = [q \in Request |-> IF q \in got THEN NewCall(q) ELSE call[q]]
    BY DEF Arrive, NewCall, Got
  <1>4. /\ unsent' = u /\ buffer' = x /\ misread' = misread + Cardinality(errors)
        /\ spoken' \in {"unknown", "length", "line"} \cup {spoken}
        /\ lost' = lost /\ restarts' = restarts
        /\ answers' = [q \in Request |-> IF q \in got /\ q \in AtOnce /\ Body[q].id THEN answers[q] + 1 ELSE answers[q]]
    BY <1>2 DEF Data, Got
  <1>5. /\ x \in Seq(Unit) /\ u \in Seq(Unit) /\ Read(n).out \in Seq(Request \cup {Bad})
        /\ \E k \in Nat :
             /\ EndOf(x \o u, Pipe, k)
             /\ \A q \in got : \E i \in 1..k : Pipe[i] = <<q, "char", 1>>
    BY <1>1, ReadEffect DEF Got
  <1>6. Pipe' = x \o u
    BY <1>4 DEF Pipe
  <1>7. misread \in Nat => misread' \in Nat
    <2> DEFINE o == Read(n).out
    <2>1. o \in Seq(Request \cup {Bad})
      BY <1>5
    <2> HIDE DEF o
    <2>2. IsFiniteSet(DOMAIN o)
      <3>1. DOMAIN o = 1..Len(o) /\ Len(o) \in Int /\ 1 \in Int
        BY <2>1
      <3>2. IsFiniteSet(1..Len(o))
        BY <3>1, FS_Interval
      <3> QED
        BY <3>1, <3>2
    <2>3. errors \subseteq DOMAIN o
      BY DEF o
    <2>4. Cardinality(errors) \in Nat
      BY <2>2, <2>3, FS_Subset, FS_CardinalityType
    <2> QED
      BY <1>4, <2>4
  <1> HIDE DEF x, u, got
  <1>8. PICK k \in Nat : EndOf(Pipe', Pipe, k) /\ \A q \in got : \E i \in 1..k : Pipe[i] = <<q, "char", 1>>
    BY <1>5, <1>6
  <1>9. Pipe \in Seq(Unit) /\ Distinct(Pipe)
    BY <1>1 DEF Pipe, OnceInv
  <1>10. /\ Distinct(Pipe') /\ \A i \in 1..k : Pipe[i] \notin ToSet(Pipe')
         /\ ToSet(Pipe') \subseteq ToSet(Pipe)
    BY <1>8, <1>9, EndDistinct
  <1>11. ASSUME NEW q \in got PROVE <<q, "char", 1>> \notin ToSet(Pipe') /\ call[q].pc = "none"
    <2>1. PICK i \in 1..k : Pipe[i] = <<q, "char", 1>>
      BY <1>8
    <2>2. i \in 1..Len(Pipe)
      BY <1>8, <1>9 DEF EndOf
    <2>3. Pipe[i] \in ToSet(Pipe)
      BY <1>9, <2>2 DEF ToSet
    <2>4. q \in Request
      BY DEF got, Got, Dispatched
    <2> QED
      BY <1>10, <2>1, <2>3, <2>4 DEF OnceInv
  <1>12. got \in SUBSET Request
    BY DEF got, Got, Dispatched
  <1>13. grants' = grants /\ now' = now /\ revoked' = revoked
    BY <1>2
  <1>14. unsent' \in Seq(Unit) /\ buffer' \in Seq(Unit)
    BY <1>4, <1>5, Zenon
  <1> QED
    BY <1>2, <1>3, <1>4, <1>7, <1>10, <1>11, <1>12, <1>13, <1>14, Zenon DEF got

\* A step of a call is about a call that is under way, and about no other.
LEMMA CallStepEffect ==
  ASSUME TypeOK, StepsInv, NEW q \in Request, CallStep(q)
  PROVE  /\ call[q].pc \notin {"none", "done"} /\ call'[q].pc # "none"
         /\ call' \in [Request -> CallState]
         /\ \A r \in Request : r # q => call'[r] = call[r]
         /\ buffer' = buffer /\ unsent' = unsent /\ spoken' = spoken /\ misread' = misread
         /\ lost' = lost /\ restarts' = restarts /\ now' = now
         /\ \/ answers' = answers /\ call'[q].pc # "done" /\ revoked' = revoked
            \/ answers' = [answers EXCEPT ![q] = @ + 1] /\ call'[q] = Done
  <1>1. call \in [Request -> CallState] /\ grants \in [Grant -> File] /\ now \in 0..MaxTime
    BY TypeIs
  <1>2. call[q] \in CallState
    BY <1>1
  <1>3. CASE StartRevoke(q)
    <2>1. PICK c \in CallState : /\ call' = [call EXCEPT ![q] = c] /\ c.pc \in {"reply", "open"}
      <3>1. \E c \in {[call[q] EXCEPT !.pc = "reply", !.result = "not_found"],
                      [call[q] EXCEPT !.pc = "reply", !.result = "noop"],
                      [call[q] EXCEPT !.pc = "open", !.result = "ok"]} : call' = [call EXCEPT ![q] = c]
        BY <1>3 DEF StartRevoke, Do
      <3>2. PICK d : d = call[q]
        OBVIOUS
      <3>3. \A r \in {"not_found", "noop", "ok"}, p \in {"reply", "open"} :
              [d EXCEPT !.pc = p, !.result = r] \in CallState /\ [d EXCEPT !.pc = p, !.result = r].pc = p
        BY <1>2, <3>2 DEF CallState
      <3> QED
        BY <3>1, <3>2, <3>3
    <2>2. call' \in [Request -> CallState] /\ call'[q] = c /\ \A r \in Request : r # q => call'[r] = call[r]
      BY <1>1, <2>1
    <2> QED
      BY <1>3, <2>1, <2>2 DEF StartRevoke, serverVars
  <1>4. CASE StartScan(q)
    <2>1. PICK c \in CallState : call' = [call EXCEPT ![q] = c] /\ c.pc \in {"reply", "scan"}
      <3>1. \E c \in CallState : call' = [call EXCEPT ![q] = c] /\ c.pc \in {"reply", "scan"}
        <4> DEFINE t == Tool[q]
                   c1 == [call[q] EXCEPT !.pc = "reply", !.result = "ok"]
                   c2 == [call[q] EXCEPT !.pc = "reply", !.result = "no_consent"]
                   c3 == [call[q] EXCEPT !.pc = "scan", !.at = now, !.todo = {g \in Grant : grants[g].state # "absent"}]
        <4>1. call' = [call EXCEPT ![q] = IF t.op = "share" /\ TrustConsents(t) THEN c1
                                          ELSE IF t.op = "share" /\ ~ AsksGrants(t) THEN c2 ELSE c3]
          BY <1>4, Zenon DEF StartScan, Do
        <4>2. /\ c1 \in CallState /\ c1.pc = "reply" /\ c2 \in CallState /\ c2.pc = "reply"
              /\ c3 \in CallState /\ c3.pc = "scan"
          <5>1. {g \in Grant : grants[g].state # "absent"} \in SUBSET Grant
            OBVIOUS
          <5> QED
            BY <1>1, <1>2, <5>1 DEF CallState
        <4> HIDE DEF c1, c2, c3, t
        <4>3. \/ call' = [call EXCEPT ![q] = c1] \/ call' = [call EXCEPT ![q] = c2]
              \/ call' = [call EXCEPT ![q] = c3]
          BY <4>1
        <4> QED
          BY <4>2, <4>3
      <3> QED
        BY <3>1
    <2>2. call' \in [Request -> CallState] /\ call'[q] = c /\ \A r \in Request : r # q => call'[r] = call[r]
      BY <1>1, <2>1
    <2> QED
      BY <1>4, <2>1, <2>2 DEF StartScan, serverVars
  <1>5. CASE Open(q)
    <2>1. [call[q] EXCEPT !.pc = "write"] \in CallState
      BY <1>2 DEF CallState
    <2>2. call' = [call EXCEPT ![q] = [call[q] EXCEPT !.pc = "write"]]
      BY <1>5 DEF Open, Do
    <2>3. call'[q].pc = "write"
      BY <1>1, <1>2, <2>2 DEF CallState
    <2> QED
      BY <1>1, <1>5, <2>1, <2>2, <2>3 DEF Open, serverVars
  <1>6. CASE Write(q)
    <2>1. [call[q] EXCEPT !.pc = "reply"] \in CallState
      BY <1>2 DEF CallState
    <2>2. call' = [call EXCEPT ![q] = [call[q] EXCEPT !.pc = "reply"]]
      BY <1>6 DEF Write, Writes, Do
    <2>3. call'[q].pc = "reply"
      BY <1>1, <1>2, <2>2 DEF CallState
    <2> QED
      BY <1>1, <1>6, <2>1, <2>2, <2>3 DEF Write, Writes, serverVars
  <1>7. CASE Answer(q)
    <2>1. Done \in CallState
      <3>1. 0 \in 0..MaxTime
        BY TypeIs
      <3> QED
        BY <3>1 DEF Done, NoCall, CallState
    <2>2. call' = [call EXCEPT ![q] = Done]
      BY <1>7 DEF Answer, Do
    <2>3. call'[q] = Done /\ Done.pc = "done"
      BY <1>1, <2>2 DEF Done, NoCall
    <2>4. call[q].pc \in {"reply", "scan"} /\ Reply(q) /\ now' = now
      BY <1>7 DEF Answer, Finished
    <2> QED
      BY <1>1, <2>1, <2>2, <2>3, <2>4 DEF Reply
  <1>8. ASSUME NEW g \in Grant, Scan(q, g)
        PROVE  /\ call[q].pc \notin {"none", "done"} /\ call'[q].pc = call[q].pc
               /\ call' \in [Request -> CallState]
               /\ \A r \in Request : r # q => call'[r] = call[r]
               /\ UNCHANGED <<serverVars, grants, now, revoked>>
    <2>1. PICK f \in SUBSET Grant : call' = [call EXCEPT ![q] = [call[q] EXCEPT !.todo = @ \ {g}, !.found = f]]
      <3>1. call[q].found \in SUBSET Grant /\ call[q].found \cup {g} \in SUBSET Grant
        BY <1>2 DEF CallState
      <3> DEFINE some == grants[g].state = "whole" /\ IsGrantEffective(g, call[q].at)
                 f == IF some /\ (Tool[q].op = "list" \/ Covers(g, Tool[q].form))
                      THEN call[q].found \cup {g} ELSE call[q].found
      <3>2. call' = [call EXCEPT ![q] = [call[q] EXCEPT !.todo = @ \ {g}, !.found = f]]
        BY <1>8, Zenon DEF Scan, Do
      <3>3. f \in SUBSET Grant
        BY <3>1
      <3> QED
        BY <3>2, <3>3, Zenon
    <2>2. [call[q] EXCEPT !.todo = @ \ {g}, !.found = f] \in CallState
      BY <1>2 DEF CallState
    <2>3. call'[q] = [call[q] EXCEPT !.todo = @ \ {g}, !.found = f]
      BY <1>1, <2>1
    <2>4. call'[q].pc = call[q].pc
      BY <1>2, <2>3 DEF CallState
    <2> QED
      BY <1>1, <1>8, <2>1, <2>2, <2>4 DEF Scan
  <1> QED
    <2>1. CASE \E g \in Grant : Scan(q, g)
      BY <1>8, <2>1 DEF serverVars
    <2> QED
      BY <1>3, <1>4, <1>5, <1>6, <1>7, <2>1 DEF CallStep

LEMMA NewCallIs ==
  ASSUME TypeOK, NEW q \in Request
  PROVE  /\ NewCall(q) \in CallState /\ NewCall(q).pc \in {"open", "start", "done"}
         /\ NewCall(q).found = {} /\ NewCall(q).result \in {"none", "ok"}
         /\ NewCall(q).pc = "done" <=> q \in AtOnce \/ ~ Body[q].id
         /\ NewCall(q).pc = "open" => Tool[q].op = "grant"
         /\ NewCall(q).dead \in {{}, Dead}
         /\ NewCall(q).sure # {} => NewCall(q).sure = Sure(Tool[q])
  <1>1. 0 \in 0..MaxTime /\ Dead \in SUBSET Grant /\ Sure(Tool[q]) \in SUBSET Grant
    BY TypeIs DEF Dead, Sure
  <1> DEFINE c1 == Done
             c2 == [NoCall EXCEPT !.pc = "open", !.result = "ok"]
             c3 == [NoCall EXCEPT !.pc = "start"]
             c4 == [NoCall EXCEPT !.pc = "start", !.dead = Dead, !.sure = Sure(Tool[q])]
  <1>2. NewCall(q) = IF q \in AtOnce \/ ~ Body[q].id THEN c1
                     ELSE IF Tool[q].op = "grant" THEN c2 ELSE IF Tool[q].op = "revoke" THEN c3 ELSE c4
    BY DEF NewCall
  <1>3. /\ NoCall \in CallState /\ NoCall.found = {} /\ NoCall.result = "none" /\ NoCall.dead = {}
        /\ NoCall.sure = {}
    BY <1>1 DEF NoCall, CallState
  <1>4. c1 \in CallState /\ c1.pc = "done" /\ c1.found = {} /\ c1.result = "none" /\ c1.dead = {} /\ c1.sure = {}
    BY <1>3 DEF Done, CallState
  <1>5. c2 \in CallState /\ c2.pc = "open" /\ c2.found = {} /\ c2.result = "ok" /\ c2.dead = {} /\ c2.sure = {}
    BY <1>3 DEF CallState
  <1>6. c3 \in CallState /\ c3.pc = "start" /\ c3.found = {} /\ c3.result = "none" /\ c3.dead = {} /\ c3.sure = {}
    BY <1>3 DEF CallState
  <1>7. /\ c4 \in CallState /\ c4.pc = "start" /\ c4.found = {} /\ c4.result = "none" /\ c4.dead = Dead
        /\ c4.sure = Sure(Tool[q])
    <2> DEFINE dead == Dead
               sure == Sure(Tool[q])
    <2>1. dead \in SUBSET Grant /\ sure \in SUBSET Grant
      BY <1>1
    <2> HIDE DEF dead, sure
    <2>2. /\ [NoCall EXCEPT !.pc = "start", !.dead = dead, !.sure = sure] \in CallState
          /\ [NoCall EXCEPT !.pc = "start", !.dead = dead, !.sure = sure].pc = "start"
          /\ [NoCall EXCEPT !.pc = "start", !.dead = dead, !.sure = sure].found = {}
          /\ [NoCall EXCEPT !.pc = "start", !.dead = dead, !.sure = sure].result = "none"
          /\ [NoCall EXCEPT !.pc = "start", !.dead = dead, !.sure = sure].dead = dead
          /\ [NoCall EXCEPT !.pc = "start", !.dead = dead, !.sure = sure].sure = sure
      BY <1>3, <2>1 DEF CallState
    <2> QED
      BY <2>2 DEF dead, sure
  <1> HIDE DEF c1, c2, c3, c4
  <1>8. CASE q \in AtOnce \/ ~ Body[q].id
    <2>1. NewCall(q) = c1
      BY <1>2, <1>8
    <2> QED
      BY <1>4, <1>8, <2>1
  <1>9. CASE ~ (q \in AtOnce \/ ~ Body[q].id) /\ Tool[q].op = "grant"
    <2>1. NewCall(q) = c2
      BY <1>2, <1>9
    <2> QED
      BY <1>5, <1>9, <2>1
  <1>10. CASE ~ (q \in AtOnce \/ ~ Body[q].id) /\ Tool[q].op = "revoke"
    <2>1. NewCall(q) = c3
      BY <1>2, <1>10
    <2> QED
      BY <1>6, <1>10, <2>1
  <1>11. CASE ~ (q \in AtOnce \/ ~ Body[q].id) /\ Tool[q].op # "grant" /\ Tool[q].op # "revoke"
    <2>1. NewCall(q) = c4
      BY <1>2, <1>11
    <2> QED
      BY <1>7, <1>11, <2>1
  <1> QED
    BY <1>8, <1>9, <1>10, <1>11

LEMMA CrashEffect ==
  ASSUME TypeOK, Crash
  PROVE  /\ call' \in [Request -> CallState]
         /\ \A q \in Request : call'[q] = call[q] \/ (call[q].pc \notin {"none", "done"} /\ call'[q] = Done)
         /\ \A q \in Request : call'[q].pc \in {"none", "done"}
         /\ answers' = answers /\ grants' = grants /\ now' = now /\ revoked' = revoked
  <1>1. call' = [q \in Request |-> IF q \in Pending THEN Done ELSE call[q]]
    BY DEF Crash
  <1>2. Done \in CallState /\ Done.pc = "done"
    <2>1. 0 \in 0..MaxTime
      BY TypeIs
    <2> QED
      BY <2>1 DEF Done, NoCall, CallState
  <1>3. call \in [Request -> CallState]
    BY TypeIs
  <1>4. answers' = answers /\ grants' = grants /\ now' = now /\ revoked' = revoked
    BY DEF Crash, Restart
  <1> QED
    BY <1>1, <1>2, <1>3, <1>4 DEF Pending

\* A call that is over stays so, and a request that was dispatched stays dispatched.
LEMMA CallsMove ==
  ASSUME IInv, [Next]_vars, NEW q \in Request
  PROVE  /\ call[q].pc # "none" => call'[q].pc # "none"
         /\ call[q].pc = "done" => call'[q] = call[q]
  <1>0. TypeOK /\ OnceInv /\ StepsInv
    BY DEF IInv
  <1>1. ASSUME NEW n \in 1..MaxChunk, Arrive(n)
        PROVE  call[q].pc # "none" => call'[q] = call[q]
    BY <1>0, <1>1, ArriveEffect
  <1>2. ASSUME NEW r \in Request, CallStep(r)
        PROVE  /\ call[q].pc # "none" => call'[q].pc # "none"
               /\ call[q].pc = "done" => call'[q] = call[q]
    BY <1>0, <1>2, CallStepEffect
  <1>3. CASE Crash
    <2>1. Done.pc = "done"
      BY DEF Done, NoCall
    <2> QED
      BY <1>0, <1>3, <2>1, CrashEffect
  <1>4. CASE Tick \/ UNCHANGED vars
    BY <1>4 DEF Tick, vars
  <1> QED
    BY <1>1, <1>2, <1>3, <1>4 DEF Next

\* What has been asked for stays so.
LEMMA AskedStays ==
  ASSUME IInv, [Next]_vars, NEW g, Asked(g)
  PROVE  Asked(g)'
  <1>1. PICK r \in Request : Revokes(r, g) /\ call[r].pc # "none"
    BY DEF Asked
  <1>2. call'[r].pc # "none"
    BY <1>1, CallsMove
  <1> QED
    BY <1>1, <1>2 DEF Asked, Revokes

-----------------------------------------------------------------------------
(* The steps keep the parts that are about one call.                       *)

LEMMA OnceStep ==
  ASSUME IInv, [Next]_vars
  PROVE  OnceInv'
  <1>0. TypeOK /\ OnceInv /\ StepsInv /\ buffer \in Seq(Unit) /\ unsent \in Seq(Unit)
    BY TypeIs DEF IInv
  <1>1. ASSUME NEW n \in 1..MaxChunk, Arrive(n)
        PROVE  OnceInv'
    <2>1. Distinct(Pipe')
      BY <1>0, <1>1, ArriveEffect
    <2>2. ASSUME NEW q \in Request, call'[q].pc # "none"
          PROVE  <<q, "char", 1>> \notin ToSet(Pipe')
      BY <1>0, <1>1, <2>2, ArriveEffect DEF OnceInv
    <2> QED
      BY <2>1, <2>2 DEF OnceInv
  <1>2. ASSUME NEW r \in Request, CallStep(r)
        PROVE  OnceInv'
    <2>1. Pipe' = Pipe
      BY <1>0, <1>2, CallStepEffect DEF Pipe
    <2>2. ASSUME NEW q \in Request, call'[q].pc # "none"
          PROVE  call[q].pc # "none"
      BY <1>0, <1>2, <2>2, CallStepEffect
    <2> QED
      BY <1>0, <2>1, <2>2 DEF OnceInv
  <1>3. CASE Crash
    <2>1. PICK k \in Nat : EndOf(Pipe', Pipe, k)
      <3>1. Restart(Pending)
        BY <1>3 DEF Crash
      <3> QED
        BY <1>0, <3>1, RestartEffect
    <2>2. Pipe \in Seq(Unit)
      BY <1>0 DEF Pipe
    <2>3. Distinct(Pipe') /\ ToSet(Pipe') \subseteq ToSet(Pipe)
      BY <1>0, <2>1, <2>2, EndDistinct DEF OnceInv
    <2>4. ASSUME NEW q \in Request, call'[q].pc # "none"
          PROVE  call[q].pc # "none"
      BY <1>0, <1>3, <2>4, CrashEffect
    <2> QED
      BY <1>0, <2>3, <2>4 DEF OnceInv
  <1>4. CASE Tick \/ UNCHANGED vars
    BY <1>0, <1>4 DEF Tick, vars, serverVars, OnceInv, Pipe
  <1> QED
    BY <1>1, <1>2, <1>3, <1>4 DEF Next

LEMMA AnsweredStep ==
  ASSUME IInv, [Next]_vars
  PROVE  AnsweredInv' /\ answers' \in [Request -> 0..1]
  <1>0. TypeOK /\ OnceInv /\ StepsInv /\ AnsweredInv /\ answers \in [Request -> 0..1]
    BY TypeIs DEF IInv
  <1>1. ASSUME NEW n \in 1..MaxChunk, Arrive(n)
        PROVE  AnsweredInv' /\ answers' \in [Request -> 0..1]
    <2>1. \A q \in Got(n) : answers[q] = 0 /\ q \in Request
      BY <1>0, <1>1, ArriveEffect DEF AnsweredInv
    <2>2. /\ call' = [q \in Request |-> IF q \in Got(n) THEN NewCall(q) ELSE call[q]]
          /\ answers' = [q \in Request |-> IF q \in Got(n) /\ q \in AtOnce /\ Body[q].id THEN answers[q] + 1 ELSE answers[q]]
      BY <1>0, <1>1, ArriveEffect
    <2>3. answers' \in [Request -> 0..1]
      BY <1>0, <2>1, <2>2
    <2>4. ASSUME NEW q \in Request, answers'[q] = 1 PROVE call'[q].pc = "done" /\ Body[q].id
      <3>1. CASE q \in Got(n) /\ q \in AtOnce /\ Body[q].id
        BY <1>0, <2>2, <3>1, NewCallIs
      <3>2. CASE ~ (q \in Got(n) /\ q \in AtOnce /\ Body[q].id)
        <4>1. answers[q] = 1 /\ q \notin Got(n)
          BY <2>1, <2>2, <2>4, <3>2
        <4> QED
          BY <1>0, <2>2, <4>1 DEF AnsweredInv
      <3> QED
        BY <3>1, <3>2
    <2> QED
      BY <2>3, <2>4 DEF AnsweredInv
  <1>2. ASSUME NEW r \in Request, CallStep(r)
        PROVE  AnsweredInv' /\ answers' \in [Request -> 0..1]
    <2>1. answers[r] = 0 /\ Body[r].id
      BY <1>0, <1>2, CallStepEffect DEF AnsweredInv, StepsInv
    <2>2. \A q \in Request : q # r => call'[q] = call[q]
      BY <1>0, <1>2, CallStepEffect
    <2>3. CASE answers' = answers
      BY <1>0, <2>1, <2>2, <2>3 DEF AnsweredInv
    <2>4. CASE answers' = [answers EXCEPT ![r] = @ + 1] /\ call'[r] = Done
      <3>1. call'[r].pc = "done"
        BY <2>4 DEF Done, NoCall
      <3> QED
        BY <1>0, <2>1, <2>2, <2>4, <3>1 DEF AnsweredInv
    <2> QED
      BY <1>0, <1>2, <2>3, <2>4, CallStepEffect
  <1>3. CASE Crash
    <2>1. \A q \in Request : call[q].pc = "done" => call'[q].pc = "done"
      BY CallsMove
    <2> QED
      BY <1>0, <1>3, <2>1, CrashEffect DEF AnsweredInv
  <1>4. CASE Tick \/ UNCHANGED vars
    BY <1>0, <1>4 DEF Tick, vars, serverVars, AnsweredInv
  <1> QED
    BY <1>1, <1>2, <1>3, <1>4 DEF Next

-----------------------------------------------------------------------------
(* The steps of a call, one by one.                                        *)

LEMMA StartRevokeIs ==
  ASSUME TypeOK, NEW q \in Request, StartRevoke(q)
  PROVE  /\ call[q].pc = "start" /\ Tool[q].op = "revoke" /\ grants' = grants /\ revoked' = revoked
         /\ call'[q].found = call[q].found /\ call'[q].dead = call[q].dead /\ call'[q].sure = call[q].sure
         /\ \/ call'[q].pc = "reply" /\ call'[q].result = "not_found"
            \/ call'[q].pc = "reply" /\ call'[q].result = "noop" /\ grants[Tool[q].grant].revoked
            \/ call'[q].pc = "open" /\ call'[q].result = "ok"
  <1>1. call \in [Request -> CallState] /\ call[q] \in CallState
    BY TypeIs
  <1> DEFINE f  == grants[Tool[q].grant]
             c1 == [call[q] EXCEPT !.pc = "reply", !.result = "not_found"]
             c2 == [call[q] EXCEPT !.pc = "reply", !.result = "noop"]
             c3 == [call[q] EXCEPT !.pc = "open", !.result = "ok"]
  <1>2. call' = [call EXCEPT ![q] = IF f.state # "whole" THEN c1 ELSE IF f.revoked THEN c2 ELSE c3]
    BY Zenon DEF StartRevoke, Do
  <1>3. /\ c1.pc = "reply" /\ c1.result = "not_found" /\ c2.pc = "reply" /\ c2.result = "noop"
        /\ c3.pc = "open" /\ c3.result = "ok"
        /\ c1.found = call[q].found /\ c1.dead = call[q].dead /\ c1.sure = call[q].sure
        /\ c2.found = call[q].found /\ c2.dead = call[q].dead /\ c2.sure = call[q].sure
        /\ c3.found = call[q].found /\ c3.dead = call[q].dead /\ c3.sure = call[q].sure
    BY <1>1 DEF CallState
  <1> HIDE DEF c1, c2, c3
  <1>4. call'[q] = IF f.state # "whole" THEN c1 ELSE IF f.revoked THEN c2 ELSE c3
    BY <1>1, <1>2
  <1> QED
    BY <1>3, <1>4 DEF StartRevoke

LEMMA StartScanIs ==
  ASSUME TypeOK, NEW q \in Request, StartScan(q)
  PROVE  /\ call[q].pc = "start" /\ Tool[q].op \in {"share", "list"} /\ grants' = grants /\ revoked' = revoked
         /\ call'[q].found = call[q].found /\ call'[q].dead = call[q].dead /\ call'[q].sure = call[q].sure
         /\ \/ call'[q].pc = "reply" /\ call'[q].result = "ok"
            \/ call'[q].pc = "reply" /\ call'[q].result = "no_consent" /\ ~ AsksGrants(Tool[q])
            \/ /\ call'[q].pc = "scan" /\ call'[q].result = call[q].result
               /\ call'[q].at = now /\ call'[q].todo = {g \in Grant : grants[g].state # "absent"}
  <1>1. call \in [Request -> CallState] /\ call[q] \in CallState
    BY TypeIs
  <1> DEFINE t  == Tool[q]
             c1 == [call[q] EXCEPT !.pc = "reply", !.result = "ok"]
             c2 == [call[q] EXCEPT !.pc = "reply", !.result = "no_consent"]
             c3 == [call[q] EXCEPT !.pc = "scan", !.at = now, !.todo = {g \in Grant : grants[g].state # "absent"}]
  <1>2. call' = [call EXCEPT ![q] = IF t.op = "share" /\ TrustConsents(t) THEN c1
                                    ELSE IF t.op = "share" /\ ~ AsksGrants(t) THEN c2 ELSE c3]
    BY Zenon DEF StartScan, Do
  <1>3. /\ c1.pc = "reply" /\ c1.result = "ok" /\ c2.pc = "reply" /\ c2.result = "no_consent"
        /\ c1.found = call[q].found /\ c1.dead = call[q].dead /\ c1.sure = call[q].sure
        /\ c2.found = call[q].found /\ c2.dead = call[q].dead /\ c2.sure = call[q].sure
        /\ c3.found = call[q].found /\ c3.dead = call[q].dead /\ c3.sure = call[q].sure
        /\ c3.pc = "scan" /\ c3.result = call[q].result
        /\ c3.at = now /\ c3.todo = {g \in Grant : grants[g].state # "absent"}
    BY <1>1 DEF CallState
  <1> HIDE DEF c1, c2, c3
  <1>4. call'[q] = IF t.op = "share" /\ TrustConsents(t) THEN c1
                   ELSE IF t.op = "share" /\ ~ AsksGrants(t) THEN c2 ELSE c3
    BY <1>1, <1>2
  <1> QED
    BY <1>3, <1>4 DEF StartScan

LEMMA OpenIs ==
  ASSUME TypeOK, NEW q \in Request, Open(q), Tool[q].grant \in Grant
  PROVE  /\ call[q].pc = "open" /\ call'[q].pc = "write" /\ call'[q].result = call[q].result
         /\ call'[q].found = call[q].found /\ call'[q].dead = call[q].dead /\ call'[q].sure = call[q].sure
         /\ grants' \in [Grant -> File] /\ revoked' = revoked
         /\ \A g \in Grant : /\ grants'[g].revoked = grants[g].revoked
                             /\ g # Tool[q].grant => grants'[g] = grants[g]
         /\ grants'[Tool[q].grant].state = "torn"
  <1>1. call \in [Request -> CallState] /\ call[q] \in CallState /\ grants \in [Grant -> File]
    BY TypeIs
  <1>2. call' = [call EXCEPT ![q] = [call[q] EXCEPT !.pc = "write"]]
    BY DEF Open, Do
  <1>3. call'[q] = [call[q] EXCEPT !.pc = "write"]
    BY <1>1, <1>2
  <1>4. grants' = [grants EXCEPT ![Tool[q].grant].state = "torn"]
    BY DEF Open
  <1>5. /\ grants' \in [Grant -> File]
        /\ \A g \in Grant : /\ grants'[g].revoked = grants[g].revoked
                            /\ g # Tool[q].grant => grants'[g] = grants[g]
        /\ grants'[Tool[q].grant].state = "torn"
    BY <1>1, <1>4 DEF File
  <1> QED
    BY <1>1, <1>3, <1>5 DEF Open, CallState

LEMMA WriteIs ==
  ASSUME TypeOK, NEW q \in Request, Write(q), Tool[q].grant \in Grant
  PROVE  /\ call[q].pc = "write" /\ call'[q].pc = "reply" /\ call'[q].result = call[q].result
         /\ call'[q].found = call[q].found /\ call'[q].dead = call[q].dead /\ call'[q].sure = call[q].sure
         /\ grants' \in [Grant -> File] /\ revoked' = revoked
         /\ \A g \in Grant : g # Tool[q].grant => grants'[g] = grants[g]
         /\ grants'[Tool[q].grant].state = "whole"
         /\ grants'[Tool[q].grant].revoked = (Tool[q].op = "revoke")
  <1>1. call \in [Request -> CallState] /\ call[q] \in CallState /\ grants \in [Grant -> File]
    BY TypeIs
  <1>2. call' = [call EXCEPT ![q] = [call[q] EXCEPT !.pc = "reply"]]
    BY DEF Write, Writes, Do
  <1>3. call'[q] = [call[q] EXCEPT !.pc = "reply"]
    BY <1>1, <1>2
  <1> DEFINE f == [state |-> "whole", revoked |-> Tool[q].op = "revoke"]
  <1>4. grants' = [grants EXCEPT ![Tool[q].grant] = f]
    BY DEF Write, Writes
  <1>5. f \in File /\ f.state = "whole" /\ f.revoked = (Tool[q].op = "revoke")
    BY DEF File
  <1> HIDE DEF f
  <1>6. /\ grants' \in [Grant -> File]
        /\ \A g \in Grant : g # Tool[q].grant => grants'[g] = grants[g]
        /\ grants'[Tool[q].grant] = f
    BY <1>1, <1>4, <1>5
  <1> QED
    BY <1>1, <1>3, <1>5, <1>6 DEF Write, Writes, CallState

LEMMA ScanIs ==
  ASSUME TypeOK, NEW q \in Request, NEW g \in Grant, Scan(q, g)
  PROVE  /\ call[q].pc = "scan" /\ call'[q].pc = "scan" /\ call'[q].result = call[q].result
         /\ call'[q].at = call[q].at /\ call'[q].dead = call[q].dead /\ call'[q].sure = call[q].sure
         /\ call'[q].todo = call[q].todo \ {g} /\ grants' = grants /\ revoked' = revoked
         /\ IF /\ grants[g].state = "whole" /\ IsGrantEffective(g, call[q].at)
               /\ Tool[q].op = "list" \/ Covers(g, Tool[q].form)
            THEN call'[q].found = call[q].found \cup {g} ELSE call'[q].found = call[q].found
  <1>1. call \in [Request -> CallState] /\ call[q] \in CallState
    BY TypeIs
  <1> DEFINE some == grants[g].state = "whole" /\ IsGrantEffective(g, call[q].at)
             f == IF some /\ (Tool[q].op = "list" \/ Covers(g, Tool[q].form))
                  THEN call[q].found \cup {g} ELSE call[q].found
  <1>2. call' = [call EXCEPT ![q] = [call[q] EXCEPT !.todo = @ \ {g}, !.found = f]]
    BY Zenon DEF Scan, Do
  <1> DEFINE h == f
  <1>3. h = f
    OBVIOUS
  <1> HIDE DEF h
  <1>4. call'[q] = [call[q] EXCEPT !.todo = @ \ {g}, !.found = h]
    BY <1>1, <1>2 DEF h
  <1>5. /\ call'[q].found = h /\ call'[q].todo = call[q].todo \ {g} /\ call'[q].pc = call[q].pc
        /\ call'[q].result = call[q].result /\ call'[q].at = call[q].at /\ call'[q].dead = call[q].dead
        /\ call'[q].sure = call[q].sure
    BY <1>1, <1>4 DEF CallState
  <1>6. call[q].pc = "scan" /\ grants' = grants /\ revoked' = revoked
    BY DEF Scan
  <1> QED
    BY <1>3, <1>5, <1>6

LEMMA AnswerIs ==
  ASSUME TypeOK, NEW q \in Request, Answer(q)
  PROVE  /\ Finished(q) /\ call'[q] = Done /\ grants' = grants
         /\ revoked' = IF Tool[q].op = "revoke" /\ Outcome(q) # "not_found"
                       THEN revoked \cup {Tool[q].grant} ELSE revoked
  <1>1. call \in [Request -> CallState]
    BY TypeIs
  <1>2. call' = [call EXCEPT ![q] = Done]
    BY DEF Answer, Do
  <1> QED
    BY <1>1, <1>2 DEF Answer

LEMMA DoneIs ==
  /\ Done.pc = "done" /\ Done.found = {} /\ Done.dead = {} /\ Done.sure = {} /\ Done.result = "none"
  BY DEF Done, NoCall

\* The grant that a grant_share or a revoke_share is about.
LEMMA NamesGrant ==
  ASSUME StepsInv, NEW q \in Request, call[q].pc \in {"open", "write"} \/ Tool[q].op = "revoke"
  PROVE  Tool[q].grant \in Grant /\ Tool[q].op \in {"grant", "revoke"}
  BY SharingAssumption DEF SharingAssumption, StepsInv

-----------------------------------------------------------------------------
(* The steps keep the invariant.                                           *)

LEMMA TypeStep ==
  ASSUME IInv, [Next]_vars
  PROVE  TypeOK'
  <1>0. /\ TypeOK /\ OnceInv /\ StepsInv /\ call \in [Request -> CallState]
        /\ grants \in [Grant -> File] /\ now \in 0..MaxTime /\ MaxTime \in Nat /\ revoked \subseteq Grant
    BY TypeIs DEF IInv
  <1>1. /\ unsent \in Seq(Unit) /\ buffer \in Seq(Unit) /\ spoken \in {"unknown", "length", "line"}
        /\ misread \in Nat /\ lost \subseteq Request /\ restarts \in 0..MaxRestarts /\ MaxRestarts \in Nat
    BY <1>0, ServerAssumption DEF TypeOK, ServerTypeOK, ServerAssumption
  <1>2. answers' \in [Request -> 0..1]
    BY AnsweredStep
  <1> SUFFICES /\ unsent' \in Seq(Unit) /\ buffer' \in Seq(Unit) /\ spoken' \in {"unknown", "length", "line"}
               /\ misread' \in Nat /\ lost' \subseteq Request /\ restarts' \in 0..MaxRestarts
               /\ call' \in [Request -> CallState] /\ grants' \in [Grant -> File]
               /\ now' \in 0..MaxTime /\ revoked' \subseteq Grant
    BY <1>2 DEF TypeOK, ServerTypeOK, CallState
  <1>3. ASSUME NEW n \in 1..MaxChunk, Arrive(n)
        PROVE  /\ unsent' \in Seq(Unit) /\ buffer' \in Seq(Unit) /\ spoken' \in {"unknown", "length", "line"}
               /\ misread' \in Nat /\ lost' = lost /\ restarts' = restarts
               /\ call' \in [Request -> CallState] /\ grants' = grants
               /\ now' = now /\ revoked' = revoked
    <2>1. call' = [q \in Request |-> IF q \in Got(n) THEN NewCall(q) ELSE call[q]]
      BY <1>0, <1>3, ArriveEffect
    <2>2. \A q \in Request : NewCall(q) \in CallState
      BY <1>0, NewCallIs
    <2>3. call' \in [Request -> CallState]
      BY <1>0, <2>1, <2>2
    <2> QED
      BY <1>0, <1>1, <1>3, <2>3, ArriveEffect
  <1>4. ASSUME NEW q \in Request, CallStep(q)
        PROVE  /\ unsent' = unsent /\ buffer' = buffer /\ spoken' = spoken
               /\ misread' = misread /\ lost' = lost /\ restarts' = restarts
               /\ call' \in [Request -> CallState] /\ now' = now
               /\ grants' \in [Grant -> File] /\ revoked' \subseteq Grant
    <2>1. grants' \in [Grant -> File] /\ revoked' \subseteq Grant
      <3>1. CASE StartRevoke(q)
        BY <1>0, <3>1, StartRevokeIs
      <3>2. CASE StartScan(q)
        BY <1>0, <3>2, StartScanIs
      <3>3. CASE Open(q)
        <4>1. Tool[q].grant \in Grant
          BY <1>0, <3>3, NamesGrant DEF Open
        <4> QED
          BY <1>0, <3>3, <4>1, OpenIs
      <3>4. CASE Write(q)
        <4>1. Tool[q].grant \in Grant
          BY <1>0, <3>4, NamesGrant DEF Write, Writes
        <4> QED
          BY <1>0, <3>4, <4>1, WriteIs
      <3>5. CASE Answer(q)
        BY <1>0, <3>5, AnswerIs, NamesGrant
      <3>6. CASE \E g \in Grant : Scan(q, g)
        BY <1>0, <3>6, ScanIs
      <3> QED
        BY <1>4, <3>1, <3>2, <3>3, <3>4, <3>5, <3>6 DEF CallStep
    <2> QED
      BY <1>0, <1>4, <2>1, CallStepEffect
  <1>5. CASE Crash
    <2>1. Restart(Pending) /\ Pending \subseteq Request /\ Half \subseteq Request
      <3>1. Script \in Seq(Request)
        BY ServerAssumption DEF ServerAssumption
      <3>2. ToSet(Script) \subseteq Request
        BY <3>1 DEF ToSet
      <3> QED
        BY <1>5, <3>2 DEF Crash, Pending, Half
    <2>2. /\ restarts' \in 0..MaxRestarts /\ spoken' = "unknown" /\ misread' = misread
          /\ lost' \subseteq Request
      <3>1. /\ restarts < MaxRestarts /\ restarts' = restarts + 1 /\ spoken' = "unknown"
            /\ misread' = misread /\ lost' = lost \cup Half \cup Pending
        BY <2>1, Zenon DEF Restart
      <3>2. restarts' \in 0..MaxRestarts
        BY <1>1, <3>1
      <3>3. lost' \subseteq Request
        <4>1. Half \subseteq Request /\ Pending \subseteq Request /\ lost \subseteq Request
          BY <1>1, <2>1, Zenon
        <4> QED
          BY <3>1, <4>1
      <3> QED
        BY <3>1, <3>2, <3>3, Zenon
    <2>3. unsent' \in Seq(Unit) /\ buffer' \in Seq(Unit)
      <3>1. unsent \in Seq(Unit) /\ buffer \in Seq(Unit) /\ Restart(Pending)
        BY <1>1, <2>1, Zenon
      <3>2. <<>> \in Seq(Unit)
        OBVIOUS
      <3> QED
        BY <3>1, <3>2, RestartEffect
    <2> QED
      BY <1>0, <1>1, <1>5, <2>2, <2>3, CrashEffect
  <1>6. CASE Tick
    BY <1>0, <1>1, <1>6 DEF Tick, serverVars
  <1>7. CASE UNCHANGED vars
    BY <1>0, <1>1, <1>7 DEF vars, serverVars
  <1> QED
    BY <1>0, <1>1, <1>3, <1>4, <1>5, <1>6, <1>7 DEF Next

LEMMA StepsStep ==
  ASSUME IInv, [Next]_vars
  PROVE  StepsInv'
  <1>0. TypeOK /\ OnceInv /\ StepsInv
    BY DEF IInv
  <1> DEFINE Fits(c, q) ==
        /\ c.pc \notin {"none", "done"} => Body[q].id
        /\ c.pc \in {"open", "write"} => Tool[q].op \in {"grant", "revoke"}
        /\ c.pc = "scan" => Tool[q].op \in {"share", "list"}
        /\ c.result = "no_consent" => c.pc = "reply" /\ ~ AsksGrants(Tool[q])
  <1>1. \A q \in Request : Fits(call[q], q)
    BY <1>0 DEF StepsInv
  <1>2. \A q \in Request : Fits(Done, q)
    BY DoneIs
  <1> SUFFICES ASSUME NEW q \in Request PROVE Fits(call'[q], q)
    BY DEF StepsInv
  <1>3. ASSUME NEW n \in 1..MaxChunk, Arrive(n)
        PROVE  Fits(call'[q], q)
    <2>1. call'[q] = IF q \in Got(n) THEN NewCall(q) ELSE call[q]
      BY <1>0, <1>3, ArriveEffect
    <2>2. Fits(NewCall(q), q)
      BY <1>0, NewCallIs
    <2> QED
      BY <1>1, <2>1, <2>2
  <1>4. ASSUME NEW r \in Request, CallStep(r)
        PROVE  Fits(call'[q], q)
    <2>1. CASE r # q
      BY <1>0, <1>1, <1>4, <2>1, CallStepEffect
    <2>2. CASE r = q
      <3>1. CASE StartRevoke(q)
        BY <1>0, <1>1, <3>1, StartRevokeIs
      <3>2. CASE StartScan(q)
        BY <1>0, <1>1, <3>2, StartScanIs
      <3>3. CASE Open(q)
        <4>1. Tool[q].grant \in Grant
          BY <1>0, <3>3, NamesGrant DEF Open
        <4> QED
          BY <1>0, <1>1, <3>3, <4>1, OpenIs
      <3>4. CASE Write(q)
        <4>1. Tool[q].grant \in Grant
          BY <1>0, <3>4, NamesGrant DEF Write, Writes
        <4> QED
          BY <1>0, <1>1, <3>4, <4>1, WriteIs
      <3>5. CASE Answer(q)
        BY <1>0, <1>2, <3>5, AnswerIs
      <3>6. CASE \E g \in Grant : Scan(q, g)
        BY <1>0, <1>1, <3>6, ScanIs
      <3> QED
        BY <1>4, <2>2, <3>1, <3>2, <3>3, <3>4, <3>5, <3>6 DEF CallStep
    <2> QED
      BY <2>1, <2>2
  <1>5. CASE Crash
    BY <1>0, <1>1, <1>2, <1>5, CrashEffect
  <1>6. CASE Tick \/ UNCHANGED vars
    BY <1>1, <1>6 DEF Tick, vars
  <1> QED
    BY <1>3, <1>4, <1>5, <1>6 DEF Next

LEMMA GrantsStep ==
  ASSUME IInv, [Next]_vars
  PROVE  GrantsInv'
  <1>0. TypeOK /\ OnceInv /\ StepsInv /\ AnsweredInv /\ GrantsInv
    BY DEF IInv
  <1> SUFFICES ASSUME NEW g \in Grant PROVE GrantInv(g)'
    BY DEF GrantsInv
  <1>1. GrantInv(g)
    BY <1>0 DEF GrantsInv
  <1>2. \A q \in Request : call[q].pc = "done" => call'[q].pc = "done"
    BY CallsMove
  <1>3. Asked(g) => Asked(g)'
    BY AskedStays
  <1>4. \A q, r \in Request : Creates(q, g) /\ Creates(r, g) => q = r
    BY SharingAssumption DEF SharingAssumption, Creates
  <1>5. ASSUME NEW n \in 1..MaxChunk, Arrive(n)
        PROVE  GrantInv(g)'
    <2>1. /\ grants' = grants /\ revoked' = revoked /\ Got(n) \subseteq Request /\ Told(Got(n))
          /\ \A q \in Got(n) : call[q].pc = "none"
      BY <1>0, <1>5, ArriveEffect
    <2>2. \A q \in Request : call'[q] = IF q \in Got(n) THEN NewCall(q) ELSE call[q]
      BY <1>0, <1>5, ArriveEffect
    <2>3. \A q \in Request : NewCall(q).pc \in {"open", "start", "done"}
      BY <1>0, NewCallIs
    <2>4. ASSUME NEW q \in Request, Creates(q, g), Asked(g)' PROVE call'[q].pc = "done"
      <3>1. CASE Asked(g)
        BY <1>1, <1>2, <2>4, <3>1 DEF GrantInv
      <3>2. CASE ~ Asked(g)
        <4>1. PICK r \in Request : Revokes(r, g) /\ call'[r].pc # "none"
          BY <2>4 DEF Asked, Revokes
        <4>2. r \in Got(n)
          BY <2>2, <3>2, <4>1 DEF Asked
        <4>3. g \notin Existing
          BY <2>4, SharingAssumption DEF Creates, SharingAssumption
        <4>4. PICK p \in Request : Creates(p, g) /\ answers[p] = 1
          BY <2>1, <4>1, <4>2, <4>3 DEF Told, Revokes, Creates
        <4>5. p = q
          BY <1>4, <2>4, <4>4
        <4> QED
          BY <1>0, <1>2, <4>4, <4>5 DEF AnsweredInv
      <3> QED
        BY <3>1, <3>2
    <2>5. ASSUME NEW q \in Request, Creates(q, g), call'[q].pc \in {"none", "open", "write"}
          PROVE  grants'[g].state # "whole"
      BY <1>1, <2>1, <2>2, <2>5 DEF GrantInv
    <2>6. ASSUME NEW q \in Request, Revokes(q, g), call'[q].pc = "reply", call'[q].result # "not_found"
          PROVE  grants'[g].revoked
      BY <1>1, <2>1, <2>2, <2>3, <2>6 DEF GrantInv
    <2>7. (grants'[g].revoked => Asked(g)') /\ (g \in revoked' => grants'[g].revoked)
      BY <1>1, <1>3, <2>1 DEF GrantInv
    <2> QED
      BY <2>4, <2>5, <2>6, <2>7 DEF GrantInv, Creates, Revokes
  <1>6. ASSUME NEW r \in Request, CallStep(r)
        PROVE  GrantInv(g)'
    <2>1. /\ \A q \in Request : q # r => call'[q] = call[q]
          /\ call[r].pc # "none" /\ call'[r].pc # "none"
      BY <1>0, <1>6, CallStepEffect
    <2>2. Asked(g)' => Asked(g)
      BY <2>1 DEF Asked, Revokes
    <2>3. \A q \in Request : Creates(q, g) /\ Asked(g)' => call'[q].pc = "done"
      BY <1>1, <1>2, <2>2 DEF GrantInv
    <2>4. CASE /\ grants' = grants /\ revoked' = revoked
               /\ call'[r].pc \in {"open", "write"} => Tool[r].op # "grant" \/ call[r].pc \in {"open", "write"}
               /\ call'[r].pc = "reply" /\ Tool[r].op = "revoke" =>
                    call'[r].result = "not_found" \/ grants[Tool[r].grant].revoked
      <3>1. ASSUME NEW q \in Request, Creates(q, g), call'[q].pc \in {"none", "open", "write"}
            PROVE  grants'[g].state # "whole"
        BY <1>1, <2>1, <2>4, <3>1 DEF GrantInv, Creates
      <3>2. ASSUME NEW q \in Request, Revokes(q, g), call'[q].pc = "reply", call'[q].result # "not_found"
            PROVE  grants'[g].revoked
        BY <1>1, <2>1, <2>4, <3>2 DEF GrantInv, Revokes
      <3> QED
        BY <1>1, <1>3, <2>3, <2>4, <3>1, <3>2 DEF GrantInv, Creates, Revokes
    <2>5. CASE StartRevoke(r)
      BY <1>0, <2>4, <2>5, StartRevokeIs
    <2>6. CASE StartScan(r)
      BY <1>0, <2>4, <2>6, StartScanIs
    <2>7. CASE \E h \in Grant : Scan(r, h)
      BY <1>0, <2>4, <2>7, ScanIs
    <2>8. CASE Open(r)
      <3>1. Tool[r].grant \in Grant
        BY <1>0, <2>8, NamesGrant DEF Open
      <3>2. /\ call[r].pc = "open" /\ call'[r].pc = "write" /\ revoked' = revoked
            /\ grants'[g].revoked = grants[g].revoked
            /\ g # Tool[r].grant => grants'[g] = grants[g]
            /\ g = Tool[r].grant => grants'[g].state = "torn"
        BY <1>0, <2>8, <3>1, OpenIs
      <3>3. ASSUME NEW q \in Request, Creates(q, g), call'[q].pc \in {"none", "open", "write"}
            PROVE  grants'[g].state # "whole"
        BY <1>1, <2>1, <3>2, <3>3 DEF GrantInv, Creates
      <3>4. ASSUME NEW q \in Request, Revokes(q, g), call'[q].pc = "reply", call'[q].result # "not_found"
            PROVE  grants'[g].revoked
        BY <1>1, <2>1, <3>2, <3>4 DEF GrantInv
      <3> QED
        BY <1>1, <1>3, <2>3, <3>2, <3>3, <3>4 DEF GrantInv, Creates, Revokes
    <2>9. CASE Write(r)
      <3>1. Tool[r].grant \in Grant /\ Tool[r].op \in {"grant", "revoke"}
        BY <1>0, <2>9, NamesGrant DEF Write, Writes
      <3>2. /\ call[r].pc = "write" /\ call'[r].pc = "reply" /\ revoked' = revoked
            /\ g # Tool[r].grant => grants'[g] = grants[g]
            /\ g = Tool[r].grant => grants'[g].revoked = (Tool[r].op = "revoke")
        BY <1>0, <2>9, <3>1, WriteIs
      <3>3. CASE g # Tool[r].grant
        <4>1. \A q \in Request : Creates(q, g) \/ Revokes(q, g) => call'[q] = call[q]
          BY <2>1, <3>3 DEF Creates, Revokes
        <4> QED
          BY <1>1, <1>3, <2>3, <3>2, <3>3, <4>1 DEF GrantInv, Creates, Revokes
      <3>4. CASE g = Tool[r].grant /\ Tool[r].op = "grant"
        <4>1. Creates(r, g) /\ ~ Asked(g)
          BY <1>1, <3>2, <3>4 DEF GrantInv, Creates
        <4>2. g \notin revoked' /\ ~ grants'[g].revoked
          BY <1>1, <3>2, <3>4, <4>1 DEF GrantInv
        <4>3. \A q \in Request : Creates(q, g) => call'[q].pc = "reply"
          BY <1>4, <3>2, <4>1
        <4>4. \A q \in Request : Revokes(q, g) => call'[q].pc = "none"
          BY <2>2, <4>1 DEF Asked, Revokes
        <4> QED
          BY <2>3, <4>2, <4>3, <4>4 DEF GrantInv, Creates, Revokes
      <3>5. CASE g = Tool[r].grant /\ Tool[r].op = "revoke"
        <4>1. Asked(g) /\ Asked(g)'
          BY <1>3, <3>2, <3>5 DEF Asked, Revokes
        <4>2. grants'[g].revoked
          BY <3>2, <3>5
        <4>3. \A q \in Request : Creates(q, g) => call'[q].pc = "done"
          BY <2>3, <4>1
        <4> QED
          BY <4>1, <4>2, <4>3 DEF GrantInv, Creates, Revokes
      <3> QED
        BY <3>1, <3>3, <3>4, <3>5
    <2>10. CASE Answer(r)
      <3>1. /\ Finished(r) /\ call'[r] = Done /\ grants' = grants
            /\ revoked' = IF Tool[r].op = "revoke" /\ Outcome(r) # "not_found"
                          THEN revoked \cup {Tool[r].grant} ELSE revoked
        BY <1>0, <2>10, AnswerIs
      <3>2. call'[r].pc = "done"
        BY <3>1, DoneIs
      <3>3. ASSUME g \in revoked' PROVE grants[g].revoked
        <4>1. CASE g \in revoked
          BY <1>1, <4>1 DEF GrantInv
        <4>2. CASE Revokes(r, g) /\ Outcome(r) # "not_found"
          <5>1. call[r].pc = "reply"
            BY <1>0, <3>1, <4>2 DEF Finished, StepsInv, Revokes
          <5>2. call[r].result # "not_found"
            BY <4>2, <5>1 DEF Outcome
          <5> QED
            BY <1>1, <4>2, <5>1, <5>2 DEF GrantInv
        <4> QED
          BY <3>1, <3>3, <4>1, <4>2 DEF Revokes
      <3>4. ASSUME NEW q \in Request, Creates(q, g), call'[q].pc \in {"none", "open", "write"}
            PROVE  grants'[g].state # "whole"
        BY <1>1, <2>1, <3>1, <3>2, <3>4 DEF GrantInv
      <3>5. ASSUME NEW q \in Request, Revokes(q, g), call'[q].pc = "reply", call'[q].result # "not_found"
            PROVE  grants'[g].revoked
        BY <1>1, <2>1, <3>1, <3>2, <3>5 DEF GrantInv
      <3> QED
        BY <1>1, <1>3, <2>3, <3>1, <3>3, <3>4, <3>5 DEF GrantInv, Creates, Revokes
    <2> QED
      BY <1>6, <2>5, <2>6, <2>7, <2>8, <2>9, <2>10 DEF CallStep
  <1>7. CASE Crash
    <2>1. /\ grants' = grants /\ revoked' = revoked
          /\ \A q \in Request : call'[q] = call[q] \/ (call[q].pc # "none" /\ call'[q].pc = "done")
      BY <1>0, <1>7, CrashEffect, DoneIs
    <2>2. Asked(g)' => Asked(g)
      BY <2>1 DEF Asked, Revokes
    <2>3. \A q \in Request : Creates(q, g) /\ Asked(g)' => call'[q].pc = "done"
      BY <1>1, <1>2, <2>2 DEF GrantInv
    <2>4. \A q \in Request : Creates(q, g) /\ call'[q].pc \in {"none", "open", "write"} => grants'[g].state # "whole"
      BY <1>1, <2>1 DEF GrantInv
    <2>5. \A q \in Request : Revokes(q, g) /\ call'[q].pc = "reply" /\ call'[q].result # "not_found" => grants'[g].revoked
      BY <1>1, <2>1 DEF GrantInv
    <2> QED
      BY <1>1, <1>3, <2>1, <2>3, <2>4, <2>5 DEF GrantInv, Creates, Revokes
  <1>8. CASE Tick \/ UNCHANGED vars
    <2>1. grants' = grants /\ revoked' = revoked /\ call' = call
      BY <1>8 DEF Tick, vars
    <2> QED
      BY <1>1, <2>1 DEF GrantInv, Creates, Revokes, Asked
  <1> QED
    BY <1>5, <1>6, <1>7, <1>8 DEF Next

LEMMA DeadStep ==
  ASSUME IInv, [Next]_vars
  PROVE  DeadInv'
  <1>0. /\ TypeOK /\ OnceInv /\ StepsInv /\ GrantsInv /\ DeadInv
        /\ now \in Nat /\ now \in 0..MaxTime /\ call \in [Request -> CallState]
    BY TypeIs DEF IInv
  <1>1. \A g \in Grant : Given[g].expires \in Nat
    BY SharingAssumption DEF SharingAssumption, Form
  <1> DEFINE Fits(c, rev, t) ==
        /\ c.found \cap c.dead = {}
        /\ \A g \in c.dead :
             \/ g \in rev
             \/ Given[g].expires \in 1..t /\ (c.pc = "scan" => Given[g].expires <= c.at)
  <1>2. \A q \in Request : Fits(call[q], revoked, now)
    BY <1>0 DEF DeadInv
  <1>3. Fits(Done, revoked', now')
    BY DoneIs
  <1> SUFFICES ASSUME NEW q \in Request PROVE Fits(call'[q], revoked', now')
    BY DEF DeadInv
  <1>4. ASSUME NEW n \in 1..MaxChunk, Arrive(n)
        PROVE  Fits(call'[q], revoked', now')
    <2>1. revoked' = revoked /\ now' = now
      BY <1>0, <1>4, ArriveEffect
    <2>2. call'[q] = IF q \in Got(n) THEN NewCall(q) ELSE call[q]
      BY <1>0, <1>4, ArriveEffect
    <2>3. Fits(NewCall(q), revoked, now)
      <3>1. /\ NewCall(q).found = {} /\ NewCall(q).dead \in {{}, Dead}
            /\ NewCall(q).pc # "scan"
        BY <1>0, NewCallIs
      <3>2. \A g \in Dead : g \in revoked \/ Given[g].expires \in 1..now
        BY DEF Dead
      <3> QED
        BY <3>1, <3>2
    <2> QED
      BY <1>2, <2>1, <2>2, <2>3
  <1>5. ASSUME NEW r \in Request, CallStep(r)
        PROVE  Fits(call'[q], revoked', now')
    <2>1. now' = now /\ (r # q => call'[q] = call[q])
      BY <1>0, <1>5, CallStepEffect
    <2>2. revoked \subseteq revoked'
      <3>1. CASE StartRevoke(r)
        BY <1>0, <3>1, StartRevokeIs
      <3>2. CASE StartScan(r)
        BY <1>0, <3>2, StartScanIs
      <3>3. CASE Open(r) \/ Write(r)
        BY <3>3 DEF Open, Write, Writes
      <3>4. CASE Answer(r)
        BY <1>0, <3>4, AnswerIs
      <3>5. CASE \E g \in Grant : Scan(r, g)
        BY <1>0, <3>5, ScanIs
      <3> QED
        BY <1>5, <3>1, <3>2, <3>3, <3>4, <3>5 DEF CallStep
    <2>3. CASE r # q
      BY <1>2, <2>1, <2>2, <2>3
    <2>4. CASE r = q
      <3>1. CASE StartRevoke(q)
        BY <1>0, <1>2, <2>1, <3>1, StartRevokeIs
      <3>2. CASE StartScan(q)
        <4>1. /\ call'[q].found = call[q].found /\ call'[q].dead = call[q].dead /\ revoked' = revoked
              /\ call'[q].pc = "scan" => call'[q].at = now
          BY <1>0, <3>2, StartScanIs
        <4>2. \A g \in call[q].dead : Given[g].expires \in 1..now => Given[g].expires <= now
          BY <1>0
        <4> QED
          BY <1>2, <2>1, <4>1, <4>2
      <3>3. CASE Open(q)
        <4>1. Tool[q].grant \in Grant
          BY <1>0, <3>3, NamesGrant DEF Open
        <4> QED
          BY <1>0, <1>2, <2>1, <3>3, <4>1, OpenIs
      <3>4. CASE Write(q)
        <4>1. Tool[q].grant \in Grant
          BY <1>0, <3>4, NamesGrant DEF Write, Writes
        <4> QED
          BY <1>0, <1>2, <2>1, <3>4, <4>1, WriteIs
      <3>5. CASE Answer(q)
        BY <1>0, <1>3, <3>5, AnswerIs
      <3>6. ASSUME NEW g \in Grant, Scan(q, g)
            PROVE  Fits(call'[q], revoked', now')
        <4>1. /\ call[q].pc = "scan" /\ call'[q].pc = "scan" /\ call'[q].at = call[q].at
              /\ call'[q].dead = call[q].dead /\ revoked' = revoked
              /\ call'[q].found = call[q].found \/ (call'[q].found = call[q].found \cup {g} /\ IsGrantEffective(g, call[q].at))
          BY <1>0, <3>6, ScanIs
        <4>2. ASSUME IsGrantEffective(g, call[q].at), g \in call[q].dead PROVE FALSE
          <5>1. g \in revoked \/ (Given[g].expires \in 1..now /\ Given[g].expires <= call[q].at)
            BY <1>2, <4>1, <4>2
          <5>2. g \notin revoked
            BY <1>0, <4>2 DEF GrantsInv, GrantInv, IsGrantEffective
          <5>3. call[q].at \in Nat
            BY <1>0 DEF CallState
          <5> QED
            BY <1>0, <1>1, <4>2, <5>1, <5>2, <5>3 DEF IsGrantEffective
        <4>3. call'[q].found \cap call'[q].dead = {}
          BY <1>2, <4>1, <4>2
        <4> QED
          BY <1>2, <2>1, <4>1, <4>3
      <3> QED
        BY <1>5, <2>4, <3>1, <3>2, <3>3, <3>4, <3>5, <3>6 DEF CallStep
    <2> QED
      BY <2>3, <2>4
  <1>6. CASE Crash
    <2>1. revoked' = revoked /\ now' = now /\ (call'[q] = call[q] \/ call'[q] = Done)
      BY <1>0, <1>6, CrashEffect
    <2> QED
      BY <1>2, <1>3, <2>1
  <1>7. CASE Tick
    <2>1. revoked' = revoked /\ now' = now + 1 /\ call' = call
      BY <1>7 DEF Tick
    <2>2. \A g : Given[g].expires \in 1..now => Given[g].expires \in 1..now'
      BY <1>0, <2>1
    <2> QED
      BY <1>2, <2>1, <2>2
  <1>8. CASE UNCHANGED vars
    <2>1. revoked' = revoked /\ now' = now /\ call' = call
      BY <1>8 DEF vars
    <2> QED
      BY <1>2, <2>1
  <1> QED
    BY <1>4, <1>5, <1>6, <1>7, <1>8 DEF Next

LEMMA SureStep ==
  ASSUME IInv, [Next]_vars
  PROVE  SureInv'
  <1>0. /\ TypeOK /\ OnceInv /\ StepsInv /\ GrantsInv /\ SureInv
        /\ call \in [Request -> CallState]
    BY TypeIs DEF IInv
  <1>1. \A g \in Grant : Given[g].expires \in Nat
    BY SharingAssumption DEF SharingAssumption, Form
  <1> DEFINE Found(c, g) == c.pc = "scan" => g \in c.todo \/ g \in c.found \/ Given[g].expires \in 1..c.at
  <1> SUFFICES ASSUME NEW q \in Request, NEW g \in call'[q].sure
               PROVE  /\ Tool[q].op = "share"
                      /\ ~ Asked(g)' => /\ Covers(g, Tool[q].form)' /\ ~ grants'[g].revoked
                                        /\ Found(call'[q], g)
    BY DEF SureInv
  <1>2. ~ Asked(g)' => ~ Asked(g)
    BY AskedStays
  <1>3. g \in call[q].sure =>
          /\ Tool[q].op = "share" /\ g \in Grant
          /\ ~ Asked(g) => Covers(g, Tool[q].form) /\ ~ grants[g].revoked /\ Found(call[q], g)
    BY <1>0 DEF SureInv, CallState
  <1>4. ASSUME NEW n \in 1..MaxChunk, Arrive(n)
        PROVE  /\ Tool[q].op = "share"
               /\ ~ Asked(g)' => /\ Covers(g, Tool[q].form)' /\ ~ grants'[g].revoked
                                 /\ Found(call'[q], g)
    <2>1. grants' = grants /\ call'[q] = IF q \in Got(n) THEN NewCall(q) ELSE call[q]
      BY <1>0, <1>4, ArriveEffect
    <2>2. CASE q \in Got(n)
      <3>1. call'[q].pc # "scan" /\ g \in Sure(Tool[q])
        BY <1>0, <2>1, <2>2, NewCallIs
      <3> QED
        BY <2>1, <3>1 DEF Sure, Covers
    <2>3. CASE q \notin Got(n)
      BY <1>2, <1>3, <2>1, <2>3 DEF Covers
    <2> QED
      BY <2>2, <2>3
  <1>5. ASSUME NEW r \in Request, CallStep(r)
        PROVE  /\ Tool[q].op = "share"
               /\ ~ Asked(g)' => /\ Covers(g, Tool[q].form)' /\ ~ grants'[g].revoked
                                 /\ Found(call'[q], g)
    <2>1. r # q => call'[q] = call[q]
      BY <1>0, <1>5, CallStepEffect
    <2>2. ASSUME g \in call[q].sure, ~ Asked(g)
          PROVE  grants'[g] = grants[g]
      <3>1. grants[g].state = "whole" /\ g \in Grant
        BY <1>3, <2>2 DEF Covers
      <3>2. CASE Open(r) \/ Write(r)
        <4>1. call[r].pc \in {"open", "write"}
          BY <3>2 DEF Open, Write, Writes
        <4>2. Tool[r].grant \in Grant /\ Tool[r].op \in {"grant", "revoke"}
          BY <1>0, <4>1, NamesGrant
        <4>3. Tool[r].grant # g
          <5>1. ~ Revokes(r, g)
            BY <2>2, <4>1 DEF Asked
          <5>2. ~ Creates(r, g)
            BY <1>0, <3>1, <4>1 DEF GrantsInv, GrantInv
          <5> QED
            BY <4>2, <5>1, <5>2 DEF Revokes, Creates
        <4>4. CASE Open(r)
          BY <1>0, <3>1, <4>2, <4>3, <4>4, OpenIs
        <4>5. CASE Write(r)
          BY <1>0, <3>1, <4>2, <4>3, <4>5, WriteIs
        <4> QED
          BY <3>2, <4>4, <4>5
      <3>3. CASE StartRevoke(r)
        BY <1>0, <3>3, StartRevokeIs
      <3>4. CASE StartScan(r)
        BY <1>0, <3>4, StartScanIs
      <3>5. CASE Answer(r)
        BY <1>0, <3>5, AnswerIs
      <3>6. CASE \E h \in Grant : Scan(r, h)
        BY <1>0, <3>6, ScanIs
      <3> QED
        BY <1>5, <3>2, <3>3, <3>4, <3>5, <3>6 DEF CallStep
    <2>3. CASE r # q
      BY <1>2, <1>3, <2>1, <2>2, <2>3 DEF Covers
    <2>4. CASE r = q
      <3>1. CASE StartRevoke(q)
        <4>1. Tool[q].op = "revoke" /\ g \in call[q].sure
          BY <1>0, <3>1, StartRevokeIs
        <4> QED
          BY <1>3, <4>1
      <3>2. CASE Open(q) \/ Write(q)
        <4>1. call[q].pc \in {"open", "write"}
          BY <3>2 DEF Open, Write, Writes
        <4>2. Tool[q].op \in {"grant", "revoke"} /\ Tool[q].grant \in Grant
          BY <1>0, <4>1, NamesGrant
        <4>3. g \in call[q].sure
          BY <1>0, <3>2, <4>2, OpenIs, WriteIs
        <4> QED
          BY <1>3, <4>2, <4>3
      <3>3. CASE StartScan(q)
        <4>1. /\ g \in call[q].sure
              /\ call'[q].pc = "scan" => call'[q].todo = {h \in Grant : grants[h].state # "absent"}
          BY <1>0, <3>3, StartScanIs
        <4>2. ~ Asked(g)' => /\ Covers(g, Tool[q].form) /\ ~ grants[g].revoked /\ grants'[g] = grants[g]
          BY <1>2, <1>3, <2>2, <4>1
        <4>3. ~ Asked(g)' => Found(call'[q], g)
          BY <1>3, <4>1, <4>2 DEF Covers
        <4> QED
          BY <1>3, <4>1, <4>2, <4>3 DEF Covers
      <3>4. CASE Answer(q)
        BY <1>0, <3>4, AnswerIs, DoneIs
      <3>5. ASSUME NEW h \in Grant, Scan(q, h)
            PROVE  /\ Tool[q].op = "share"
                   /\ ~ Asked(g)' => /\ Covers(g, Tool[q].form)' /\ ~ grants'[g].revoked
                                     /\ Found(call'[q], g)
        <4>1. /\ call[q].pc = "scan" /\ call'[q].at = call[q].at /\ call'[q].sure = call[q].sure
              /\ call'[q].todo = call[q].todo \ {h} /\ call[q].found \subseteq call'[q].found
              /\ grants[h].state = "whole" /\ IsGrantEffective(h, call[q].at) /\ Covers(h, Tool[q].form) =>
                   h \in call'[q].found
          BY <1>0, <3>5, ScanIs
        <4>2. ~ Asked(g)' => /\ Covers(g, Tool[q].form) /\ ~ grants[g].revoked /\ grants'[g] = grants[g]
                             /\ Found(call[q], g)
          BY <1>2, <1>3, <2>2, <4>1
        <4>3. ASSUME ~ Asked(g)' PROVE Found(call'[q], g)
          <5>1. CASE g = h
            <6>1. call[q].at \in Nat /\ Given[g].expires \in Nat
              BY <1>0, <1>1, <5>1 DEF CallState
            <6>2. IsGrantEffective(g, call[q].at) \/ Given[g].expires \in 1..call[q].at
              BY <4>2, <4>3, <6>1 DEF IsGrantEffective
            <6> QED
              BY <4>1, <4>2, <4>3, <5>1, <6>2 DEF Covers
          <5>2. CASE g # h
            BY <4>1, <4>2, <4>3, <5>2
          <5> QED
            BY <5>1, <5>2
        <4> QED
          BY <1>3, <4>1, <4>2, <4>3 DEF Covers
      <3> QED
        BY <1>5, <2>4, <3>1, <3>2, <3>3, <3>4, <3>5 DEF CallStep
    <2> QED
      BY <2>3, <2>4
  <1>6. CASE Crash
    <2>1. grants' = grants /\ (call'[q] = call[q] \/ call'[q] = Done)
      BY <1>0, <1>6, CrashEffect
    <2>2. grants' = grants /\ call'[q] = call[q]
      BY <1>0, <1>6, <2>1, CrashEffect, DoneIs
    <2> QED
      BY <1>2, <1>3, <2>2 DEF Covers
  <1>7. CASE Tick \/ UNCHANGED vars
    <2>1. grants' = grants /\ call' = call
      BY <1>7 DEF Tick, vars
    <2> QED
      BY <1>2, <1>3, <2>1 DEF Covers
  <1> QED
    BY <1>4, <1>5, <1>6, <1>7 DEF Next

-----------------------------------------------------------------------------
(* The theorems that hold whatever the requests are.                       *)

LEMMA InitHolds ==
  ASSUME Init
  PROVE  IInv
  <1>1. Stream \in Seq(Unit) /\ Distinct(Stream)
    <2>1. Len(Script) \in 0..Len(Script)
      BY ServerAssumption DEF ServerAssumption
    <2> QED
      BY <2>1, ServerAssumption, WrittenAre DEF Stream
  <1>2. 0 \in 0..MaxTime /\ 0 \in 0..MaxRestarts
    BY ServerAssumption, SharingAssumption DEF ServerAssumption, SharingAssumption
  <1>3. /\ NoCall \in CallState /\ NoCall.pc = "none" /\ NoCall.found = {} /\ NoCall.dead = {}
        /\ NoCall.sure = {} /\ NoCall.result = "none"
    BY <1>2 DEF NoCall, CallState
  <1>4. /\ \A q \in Request : call[q] = NoCall /\ answers[q] = 0
        /\ call \in [Request -> CallState] /\ answers \in [Request -> 0..1]
    BY <1>3 DEF Init, ServerInit
  <1>5. /\ grants \in [Grant -> File]
        /\ \A g \in Grant : ~ grants[g].revoked /\ (g \notin Existing => grants[g].state # "whole")
    BY DEF Init, File
  <1>6. unsent = Stream /\ buffer = <<>> /\ revoked = {} /\ now = 0 /\ lost = {}
    BY DEF Init, ServerInit
  <1>7. TypeOK
    BY <1>1, <1>2, <1>4, <1>5, <1>6 DEF Init, ServerInit, TypeOK, ServerTypeOK, CallState
  <1>8. OnceInv
    <2>1. Pipe = Stream
      BY <1>1, <1>6 DEF Pipe
    <2> QED
      BY <1>1, <1>3, <1>4, <2>1 DEF OnceInv
  <1>9. StepsInv /\ AnsweredInv
    BY <1>3, <1>4 DEF StepsInv, AnsweredInv
  <1>10. ASSUME NEW g \in Grant PROVE GrantInv(g)
    <2>1. ~ Asked(g)
      BY <1>3, <1>4 DEF Asked
    <2>2. \A q \in Request : Creates(q, g) => g \notin Existing
      BY SharingAssumption DEF SharingAssumption, Creates
    <2> QED
      BY <1>3, <1>4, <1>5, <1>6, <2>1, <2>2 DEF GrantInv
  <1>11. DeadInv /\ SureInv
    BY <1>3, <1>4 DEF DeadInv, SureInv
  <1> QED
    BY <1>7, <1>8, <1>9, <1>10, <1>11 DEF IInv, GrantsInv

\* The inductive invariant holds in every reachable state.
THEOREM SharingInductive == Spec => []IInv
  <1>1. Init => IInv
    BY InitHolds
  <1>2. IInv /\ [Next]_vars => IInv'
    BY TypeStep, OnceStep, StepsStep, AnsweredStep, GrantsStep, DeadStep, SureStep DEF IInv
  <1> QED
    BY <1>1, <1>2, PTL DEF Spec

\* The variables have their types, a request that was answered is over, and a revocation
\* that was answered has put its tombstone (grants.ts:97-105 and what calls it).
THEOREM SharingHolds == Spec => []SharingInv
  <1>1. IInv => SharingInv
    BY DEF IInv, SharingInv, AnsweredInv, GrantsInv, GrantInv, TypeOK
  <1> QED
    BY <1>1, SharingInductive, PTL

\* No call that began after a grant's revocation was answered, or after it expired, has
\* it among what it found.
THEOREM RevocationIsFinal == Spec => []RevocationHolds
  <1>1. IInv => RevocationHolds
    BY DEF IInv, RevocationHolds, DeadInv
  <1> QED
    BY <1>1, SharingInductive, PTL

\* No share that a grant covered from the start is refused while the grant stands.
THEOREM ConsentIsHonoured == Spec => []GrantsHonoured
  <1>1. ASSUME IInv, NEW q \in Request, Finished(q), Outcome(q) = "no_consent", AsksGrants(Tool[q]),
               NEW g \in call[q].sure
        PROVE  \/ \E r \in Request : Tool[r].op = "revoke" /\ Tool[r].grant = g /\ call[r].pc # "none"
               \/ Given[g].expires \in 1..call[q].at
    <2>1. call[q].pc = "scan" /\ call[q].todo = {} /\ call[q].found = {}
      <3>1. call[q].pc # "reply"
        BY <1>1 DEF IInv, StepsInv, Outcome
      <3> QED
        BY <1>1, <3>1 DEF Finished, Outcome
    <2> QED
      BY <1>1, <2>1 DEF IInv, SureInv, Asked, Revokes
  <1>2. IInv => GrantsHonoured
    BY <1>1 DEF GrantsHonoured
  <1> QED
    BY <1>2, SharingInductive, PTL

-----------------------------------------------------------------------------
(* Sequences that are put together.                                        *)

\* The sequence s is a, and then b.
Joined(s, a, b) ==
  /\ Len(s) = Len(a) + Len(b)
  /\ \A i \in 1..Len(a) : s[i] = a[i]
  /\ \A i \in 1..Len(b) : s[Len(a) + i] = b[i]

LEMMA JoinedIs ==
  ASSUME NEW a \in Seq(Unit), NEW b \in Seq(Unit)
  PROVE  a \o b \in Seq(Unit) /\ Joined(a \o b, a, b)
  <1>1. a \o b \in Seq(Unit) /\ Len(a \o b) = Len(a) + Len(b)
    OBVIOUS
  <1>2. \A i \in 1..Len(a) : (a \o b)[i] = a[i]
    OBVIOUS
  <1>3. ASSUME NEW i \in 1..Len(b) PROVE (a \o b)[Len(a) + i] = b[i]
    OBVIOUS
  <1> QED
    BY <1>1, <1>2, <1>3, Zenon DEF Joined

LEMMA JoinedOnly ==
  ASSUME NEW a \in Seq(Unit), NEW b \in Seq(Unit), NEW s \in Seq(Unit), Joined(s, a, b)
  PROVE  s = a \o b
  <1> DEFINE x == a \o b
  <1>1. x \in Seq(Unit) /\ Joined(x, a, b)
    BY JoinedIs
  <1> HIDE DEF x
  <1>2. Len(a) \in Nat /\ Len(b) \in Nat /\ Len(s) = Len(x) /\ Len(s) = Len(a) + Len(b)
    BY <1>1 DEF Joined
  <1>3. ASSUME NEW i \in 1..Len(s) PROVE s[i] = x[i]
    <2>1. CASE i \in 1..Len(a)
      BY <1>1, <2>1 DEF Joined
    <2>2. CASE i \notin 1..Len(a)
      <3> DEFINE j == i - Len(a)
      <3>1. j \in 1..Len(b) /\ i = Len(a) + j
        BY <1>2, <2>2
      <3> HIDE DEF j
      <3>2. s[Len(a) + j] = b[j] /\ x[Len(a) + j] = b[j]
        BY <1>1, <3>1 DEF Joined
      <3> QED
        BY <3>1, <3>2
    <2> QED
      BY <2>1, <2>2
  <1>4. s = x
    BY <1>1, <1>2, <1>3, SeqEqual
  <1> QED
    BY <1>4 DEF x

\* A sequence cut in two ways: what is between the cuts.
LEMMA JoinedTwice ==
  ASSUME NEW a \in Seq(Unit), NEW b \in Seq(Unit), NEW c \in Seq(Unit), NEW d \in Seq(Unit), NEW s \in Seq(Unit),
         Joined(s, a, b), Joined(s, c, d),
         NEW e \in Seq(Unit), Len(a) = Len(c) + Len(e), \A i \in 1..Len(e) : e[i] = a[Len(c) + i]
  PROVE  Joined(a, c, e) /\ Joined(d, e, b)
  <1>0. /\ Len(a) \in Nat /\ Len(b) \in Nat /\ Len(c) \in Nat /\ Len(d) \in Nat /\ Len(e) \in Nat
        /\ Len(a) = Len(c) + Len(e)
    OBVIOUS
  <1>1. Len(s) = Len(a) + Len(b) /\ Len(s) = Len(c) + Len(d)
    BY Zenon DEF Joined
  <1>2. Len(a) = Len(c) + Len(e) /\ Len(d) = Len(e) + Len(b)
    <2> DEFINE la == Len(a)
               lb == Len(b)
               lc == Len(c)
               ld == Len(d)
               le == Len(e)
    <2>1. /\ la \in Nat /\ lb \in Nat /\ lc \in Nat /\ ld \in Nat /\ le \in Nat
          /\ la = lc + le /\ la + lb = lc + ld
      BY <1>0, <1>1, Zenon
    <2> HIDE DEF la, lb, lc, ld, le
    <2>2. la = lc + le /\ ld = le + lb
      BY <2>1
    <2> QED
      BY <2>2, Zenon DEF la, lb, lc, ld, le
  <1>3. ASSUME NEW i \in 1..Len(c) PROVE a[i] = c[i]
    <2>1. i \in 1..Len(a)
      BY <1>0
    <2> QED
      BY <2>1 DEF Joined
  <1>4. ASSUME NEW i \in 1..Len(e) PROVE d[i] = e[i]
    <2>1. Len(c) + i \in 1..Len(a) /\ i \in 1..Len(d)
      BY <1>0, <1>2
    <2>2. s[Len(c) + i] = a[Len(c) + i] /\ s[Len(c) + i] = d[i]
      BY <2>1 DEF Joined
    <2> QED
      BY <2>2
  <1>5. ASSUME NEW i \in 1..Len(b) PROVE d[Len(e) + i] = b[i]
    <2>1. Len(e) + i \in 1..Len(d) /\ Len(c) + (Len(e) + i) = Len(a) + i
      BY <1>0, <1>2
    <2>2. s[Len(c) + (Len(e) + i)] = d[Len(e) + i] /\ s[Len(a) + i] = b[i]
      BY <2>1 DEF Joined
    <2> QED
      BY <2>1, <2>2
  <1> QED
    BY <1>2, <1>3, <1>4, <1>5 DEF Joined

\* Of two ways to cut a sequence in two, the longer first piece begins with the other.
TwoCuts(a, b, c, d) == a \o b = c \o d /\ Len(c) <= Len(a)
Overlap(a, b, c, d) == \E e \in Seq(Unit) : Len(a) = Len(c) + Len(e) /\ a = c \o e /\ d = e \o b

LEMMA CutTwice ==
  ASSUME NEW a \in Seq(Unit), NEW b \in Seq(Unit), NEW c \in Seq(Unit), NEW d \in Seq(Unit),
         TwoCuts(a, b, c, d)
  PROVE  Overlap(a, b, c, d)
  <1>1. PICK s \in Seq(Unit) : Joined(s, a, b) /\ Joined(s, c, d)
    BY JoinedIs DEF TwoCuts
  <1>2. PICK e \in Seq(Unit) : Len(a) = Len(c) + Len(e) /\ \A i \in 1..Len(e) : e[i] = a[Len(c) + i]
    <2> DEFINE x == SubSeq(a, Len(c) + 1, Len(a))
    <2>0. Len(c) <= Len(a)
      BY DEF TwoCuts
    <2>1. x \in Seq(Unit) /\ Len(x) = Len(a) - Len(c) /\ \A i \in 1..Len(x) : x[i] = a[Len(c) + i]
      BY <2>0
    <2> HIDE DEF x
    <2>2. Len(a) = Len(c) + Len(x)
      <3> DEFINE la == Len(a)
                 lc == Len(c)
                 lx == Len(x)
      <3>1. la \in Nat /\ lc \in Nat /\ lc <= la /\ lx = la - lc
        BY <2>1 DEF TwoCuts
      <3> HIDE DEF la, lc, lx
      <3>2. la = lc + lx
        BY <3>1
      <3> QED
        BY <3>2, Zenon DEF la, lc, lx
    <2> QED
      BY <2>1, <2>2, Zenon
  <1>3. Joined(a, c, e) /\ Joined(d, e, b)
    BY <1>1, <1>2, JoinedTwice
  <1>4. a = c \o e /\ d = e \o b
    BY <1>3, JoinedOnly
  <1> QED
    BY <1>2, <1>4 DEF Overlap

LEMMA ConcatAgain ==
  ASSUME NEW a \in Seq(Unit), NEW b \in Seq(Unit), NEW c \in Seq(Unit)
  PROVE  (a \o b) \o c = a \o (b \o c) /\ b \o c \in Seq(Unit) /\ a \o b \in Seq(Unit)
  <1>1. (a \o b) \o c = a \o (b \o c)
    OBVIOUS
  <1>2. b \o c \in Seq(Unit) /\ a \o b \in Seq(Unit)
    OBVIOUS
  <1> QED
    BY <1>1, <1>2

\* What comes after the same beginning.
LEMMA SameBeginning ==
  ASSUME NEW a \in Seq(Unit), NEW b \in Seq(Unit), NEW d \in Seq(Unit), a \o b = a \o d
  PROVE  b = d
  <1> DEFINE s == a \o b
  <1>1. s \in Seq(Unit) /\ Joined(s, a, b) /\ Joined(s, a, d)
    BY JoinedIs
  <1> HIDE DEF s
  <1>2. Len(b) = Len(d) /\ \A i \in 1..Len(b) : b[i] = d[i]
    BY <1>1 DEF Joined
  <1> QED
    BY <1>2, SeqEqual

LEMMA ElementsOfConcat ==
  ASSUME NEW U, NEW s \in Seq(U), NEW t \in Seq(U)
  PROVE  ToSet(s \o t) = ToSet(s) \cup ToSet(t)
  <1>1. /\ \A i \in 1..Len(s) : (s \o t)[i] = s[i] /\ i \in 1..Len(s \o t)
        /\ \A i \in 1..Len(t) : (s \o t)[Len(s) + i] = t[i] /\ Len(s) + i \in 1..Len(s \o t)
        /\ \A i \in 1..Len(s \o t) : i \in 1..Len(s) \/ \E j \in 1..Len(t) : i = Len(s) + j
    <2>1. Len(s) \in Nat /\ Len(t) \in Nat /\ Len(s \o t) = Len(s) + Len(t)
      BY ConcatIs
    <2>2. \A i \in 1..Len(s) : i \in 1..Len(s \o t)
      BY <2>1
    <2>3. \A i \in 1..Len(t) : Len(s) + i \in 1..Len(s \o t)
      BY <2>1
    <2> QED
      BY <2>2, <2>3, ConcatIs
  <1>2. /\ ToSet(s) = {s[i] : i \in 1..Len(s)} /\ ToSet(t) = {t[i] : i \in 1..Len(t)}
        /\ ToSet(s \o t) = {(s \o t)[i] : i \in 1..Len(s \o t)}
    BY DEF ToSet
  <1> DEFINE x == s \o t
  <1> HIDE DEF x
  <1>3. ASSUME NEW u \in ToSet(s) PROVE u \in ToSet(s \o t)
    BY <1>1, <1>2
  <1>4. ASSUME NEW u \in ToSet(t) PROVE u \in ToSet(s \o t)
    BY <1>1, <1>2
  <1>5. ASSUME NEW u \in ToSet(s \o t) PROVE u \in ToSet(s) \cup ToSet(t)
    <2>1. PICK i \in 1..Len(s \o t) : u = (s \o t)[i]
      BY <1>2
    <2> QED
      BY <1>1, <1>2, <2>1
  <1> QED
    BY <1>3, <1>4, <1>5

-----------------------------------------------------------------------------
(* The stream, request by request.                                         *)

LEMMA WrittenNext ==
  /\ Written(0) = <<>>
  /\ \A n \in Nat : Written(n + 1) = Written(n) \o Units(Script[n + 1])
  <1>1. Written(0) = <<>>
    BY StreamsAt DEF Written
  <1>2. \A n, i \in Nat : i + 1 <= n => Streams(n)[i + 1] = Streams(n)[i] \o Units(Script[i + 1])
    <2>1. ASSUME NEW n \in Nat, NEW i \in Nat, i + 1 <= n
          PROVE  Streams(n)[i + 1] = AndThen(Streams(n)[i], Script[i + 1])
      <3>1. i \in 0..(n - 1)
        BY <2>1
      <3> QED
        BY <3>1, StreamsAt
    <2> QED
      BY <2>1 DEF AndThen
  <1> DEFINE S == {i \in Nat : \A n \in Nat : i <= n => Streams(n)[i] = Written(i)}
  <1>3. 0 \in S
    <2>1. \A n \in Nat : Streams(n)[0] = <<>>
      BY StreamsAt
    <2> QED
      BY <1>1, <2>1
  <1>4. ASSUME NEW i \in Nat, i \in S PROVE i + 1 \in S
    <2> SUFFICES ASSUME NEW n \in Nat, i + 1 <= n PROVE Streams(n)[i + 1] = Written(i + 1)
      OBVIOUS
    <2>1. Streams(n)[i + 1] = Streams(n)[i] \o Units(Script[i + 1])
      BY <1>2
    <2>2. Streams(i + 1)[i + 1] = Streams(i + 1)[i] \o Units(Script[i + 1])
      <3>1. i + 1 \in Nat /\ i + 1 <= i + 1
        OBVIOUS
      <3> QED
        BY <1>2, <3>1, Zenon
    <2>3. Streams(n)[i] = Written(i) /\ Streams(i + 1)[i] = Written(i)
      BY <1>4
    <2> QED
      BY <2>1, <2>2, <2>3 DEF Written
  <1>5. Nat \subseteq S
    <2> HIDE DEF S
    <2> QED
      BY <1>3, <1>4, Induction
  <1>6. ASSUME NEW n \in Nat PROVE Written(n + 1) = Written(n) \o Units(Script[n + 1])
    <2>1. Streams(n + 1)[n + 1] = Streams(n + 1)[n] \o Units(Script[n + 1])
      <3>1. n + 1 \in Nat /\ n + 1 <= n + 1
        OBVIOUS
      <3> QED
        BY <1>2, <3>1, Zenon
    <2>2. Streams(n + 1)[n] = Written(n)
      BY <1>5
    <2> QED
      BY <2>1, <2>2 DEF Written
  <1> QED
    BY <1>1, <1>6

ScriptIs == Len(Script) \in Nat /\ \A m \in 1..Len(Script) : Script[m] \in Request

LEMMA ScriptHas == ScriptIs /\ \A i, j \in 1..Len(Script) : Script[i] = Script[j] => i = j
  BY ServerAssumption DEF ServerAssumption, ScriptIs

\* The sequence r is what the stream has after the first m requests: the units of the
\* others, and no more.
After(r, m) ==
  /\ r \in Seq(Unit)
  /\ Written(m) \o r = Stream
  /\ \A u \in ToSet(r) : \E j \in (m + 1)..Len(Script) : u \in ToSet(Units(Script[j]))
  /\ \A j \in (m + 1)..Len(Script) : ToSet(Units(Script[j])) \subseteq ToSet(r)

LEMMA UnitsIn ==
  ASSUME NEW m \in 0..Len(Script)
  PROVE  /\ Written(m) \in Seq(Unit)
         /\ m < Len(Script) => Script[m + 1] \in Request /\ Units(Script[m + 1]) \in Seq(Unit)
  <1>1. Written(m) \in Seq(Unit)
    BY ServerAssumption, WrittenAre
  <1>2. ASSUME m < Len(Script) PROVE Script[m + 1] \in Request /\ Units(Script[m + 1]) \in Seq(Unit)
    <2>1. m + 1 \in 1..Len(Script)
      BY <1>2, ScriptHas DEF ScriptIs
    <2> QED
      BY <2>1, ScriptHas, ServerAssumption, UnitsAre DEF ScriptIs
  <1> QED
    BY <1>1, <1>2

\* There is such a sequence after any number of requests, and it begins with the next.
LEMMA AfterIs ==
  /\ \A m \in 0..Len(Script) : \E r : After(r, m)
  /\ \A r : After(r, Len(Script)) => r = <<>>
  <1> DEFINE L == Len(Script)
             S == {k \in Nat : k <= L => \E r : After(r, L - k)}
  <1>0. L \in Nat /\ Stream \in Seq(Unit) /\ Written(L) = Stream /\ Written(L) \in Seq(Unit)
    <2>1. L \in Nat /\ L \in 0..Len(Script)
      BY ScriptHas DEF ScriptIs
    <2> QED
      BY <2>1, UnitsIn DEF Stream
  <1>1. 0 \in S
    <2>1. <<>> \in Seq(Unit) /\ ToSet(<<>>) = {}
      BY DEF ToSet
    <2>2. Stream \o <<>> = Stream
      BY <1>0
    <2>3. \A j \in (L + 1)..L : FALSE
      BY <1>0
    <2>4. After(<<>>, L)
      BY <1>0, <2>1, <2>2, <2>3 DEF After
    <2>5. L - 0 = L
      BY <1>0
    <2> QED
      BY <2>4, <2>5
  <1>2. ASSUME NEW k \in Nat, k \in S PROVE k + 1 \in S
    <2> SUFFICES ASSUME k + 1 <= L PROVE \E r : After(r, L - (k + 1))
      OBVIOUS
    <2> DEFINE m == L - (k + 1)
    <2>1. m \in Nat /\ m + 1 = L - k /\ m < L /\ m \in 0..Len(Script)
      BY <1>0
    <2>2. PICK r : After(r, m + 1)
      BY <1>2, <2>1
    <2> HIDE DEF m, S
    <2> DEFINE u == Units(Script[m + 1])
    <2>3. u \in Seq(Unit) /\ Written(m) \in Seq(Unit)
      BY <2>1, UnitsIn
    <2>4. r \in Seq(Unit) /\ Written(m + 1) \o r = Stream
      BY <2>2 DEF After
    <2>5. Written(m + 1) = Written(m) \o u
      BY <2>1, WrittenNext
    <2> HIDE DEF u
    <2>6. (Written(m) \o u) \o r = Written(m) \o (u \o r)
      BY ONLY <2>3, <2>4, ConcatAgain
    <2>7. u \o r \in Seq(Unit) /\ ToSet(u \o r) = ToSet(u) \cup ToSet(r)
      <3>1. u \o r \in Seq(Unit)
        BY <2>3, <2>4
      <3> QED
        BY <2>3, <2>4, <3>1, ElementsOfConcat
    <2>8. \A j \in (m + 1)..L : j = m + 1 \/ j \in ((m + 1) + 1)..L
      BY <1>0, <2>1
    <2>9. \A j \in ((m + 1) + 1)..L : j \in (m + 1)..L
      BY <1>0, <2>1
    <2>10. m + 1 \in (m + 1)..L
      BY <1>0, <2>1
    <2>11. \A w \in ToSet(u \o r) : \E j \in (m + 1)..L : w \in ToSet(Units(Script[j]))
      BY <2>2, <2>7, <2>9, <2>10 DEF After, u
    <2>12. \A j \in (m + 1)..L : ToSet(Units(Script[j])) \subseteq ToSet(u \o r)
      BY <2>2, <2>7, <2>8 DEF After, u
    <2>13. Written(m) \o (u \o r) = Stream
      BY <2>4, <2>5, <2>6, Zenon
    <2>14. After(u \o r, m)
      BY <2>7, <2>11, <2>12, <2>13, Zenon DEF After
    <2> QED
      BY <2>14 DEF m
  <1>3. Nat \subseteq S
    <2> HIDE DEF S
    <2> QED
      BY <1>1, <1>2, Induction
  <1>4. ASSUME NEW m \in 0..L PROVE \E r : After(r, m)
    <2>1. L - m \in Nat /\ L - m <= L /\ L - (L - m) = m
      BY <1>0
    <2> QED
      BY <1>3, <2>1
  <1>5. ASSUME NEW r, After(r, L) PROVE r = <<>>
    <2>1. Stream \o r = Stream /\ Stream \o <<>> = Stream /\ r \in Seq(Unit)
      BY <1>0, <1>5 DEF After
    <2>2. <<>> \in Seq(Unit) /\ Stream \o r = Stream \o <<>>
      BY <2>1
    <2> QED
      BY <1>0, <2>1, <2>2, SameBeginning
  <1> QED
    BY <1>4, <1>5

\* What is after the first m requests is one sequence.
LEMMA AfterOnly ==
  ASSUME NEW m \in 0..Len(Script), NEW r \in Seq(Unit), Written(m) \o r = Stream
  PROVE  After(r, m)
  <1>1. PICK s : After(s, m)
    BY AfterIs
  <1>2. s \in Seq(Unit) /\ Written(m) \o s = Written(m) \o r
    BY <1>1 DEF After
  <1>3. s = r
    BY <1>2, UnitsIn, SameBeginning
  <1> QED
    BY <1>1, <1>3

LEMMA AfterNext ==
  ASSUME NEW m \in 0..Len(Script), m < Len(Script), NEW r, After(r, m)
  PROVE  \E s : After(s, m + 1) /\ r = Units(Script[m + 1]) \o s
  <1>1. m \in Nat /\ m + 1 \in 0..Len(Script)
    BY ScriptHas DEF ScriptIs
  <1>2. PICK s : After(s, m + 1)
    BY <1>1, AfterIs
  <1> DEFINE u == Units(Script[m + 1])
             w == Written(m)
  <1>3. u \in Seq(Unit) /\ w \in Seq(Unit) /\ s \in Seq(Unit) /\ r \in Seq(Unit)
    BY <1>2, UnitsIn DEF After
  <1>4. Written(m + 1) = w \o u /\ Written(m + 1) \o s = Stream /\ w \o r = Stream
    BY <1>1, <1>2, WrittenNext DEF After
  <1> HIDE DEF u, w
  <1>5. (w \o u) \o s = w \o (u \o s) /\ u \o s \in Seq(Unit)
    <2> DEFINE Again(a, b, c) == (a \o b) \o c = a \o (b \o c) /\ b \o c \in Seq(Unit)
    <2>1. \A a, b, c \in Seq(Unit) : Again(a, b, c)
      BY ConcatAgain
    <2> HIDE DEF Again
    <2>2. Again(w, u, s)
      BY <1>3, <2>1
    <2> QED
      BY <2>2, Zenon DEF Again
  <1>6. w \o r = w \o (u \o s)
    BY <1>4, <1>5, Zenon
  <1>7. r = u \o s
    BY <1>3, <1>5, <1>6, SameBeginning
  <1> QED
    BY <1>2, <1>7 DEF u

-----------------------------------------------------------------------------
(* Messages, when a body has a byte to each character.                     *)

Ascii == \A q \in Request : Body[q].bytes = Body[q].chars

LEMMA MessageOf ==
  ASSUME NEW q \in Request, NEW r
  PROVE  LET t == Message(Content(q), r) IN t.parsed = TRUE /\ t.rest = r /\ t.out = <<q>>
  <1> DEFINE t == Message(Content(q), r)
  <1>1. Parsed(Content(q)) = {q}
    <2>1. \A p \in Request : Content(p)[1] = <<p, "char", 1>>
      BY ServerAssumption, ContentStarts
    <2>2. ASSUME NEW p \in Request, Content(q) = Content(p) PROVE p = q
      <3>1. <<p, "char", 1>> = <<q, "char", 1>>
        BY <2>1, <2>2
      <3> QED
        BY <3>1
    <2> QED
      BY <2>2 DEF Parsed
  <1>2. (CHOOSE p \in Parsed(Content(q)) : TRUE) = q
    BY <1>1
  <1> QED
    BY <1>1, <1>2 DEF Message

LEMMA EndIs ==
  ASSUME NEW b \in Seq(Unit), NEW m \in Nat, NEW r \in Seq(Unit), Len(b) = m + Len(r),
         \A i \in 1..Len(r) : b[m + i] = r[i]
  PROVE  SubSeq(b, m + 1, Len(b)) = r
  <1> DEFINE x == SubSeq(b, m + 1, Len(b))
  <1>1. x \in Seq(Unit) /\ Len(x) = Len(r)
    OBVIOUS
  <1>2. ASSUME NEW i \in 1..Len(r) PROVE x[i] = r[i]
    <2>1. x[i] = b[m + i]
      OBVIOUS
    <2> QED
      BY <2>1
  <1> HIDE DEF x
  <1>3. x = r
    BY <1>1, <1>2, SeqEqual
  <1> QED
    BY <1>3 DEF x

\* A whole request is taken as it was sent.
LEMMA TakeWhole ==
  ASSUME Ascii, NEW q \in Request, NEW r \in Seq(Unit), NEW b \in Seq(Unit), Joined(b, Units(q), r)
  PROVE  Take(b).parsed = TRUE /\ Take(b).rest = r /\ Take(b).out = <<q>>
  <1> DEFINE u == Units(q)
             n == Body[q].chars
             c == Content(q)
  <1>1. /\ n \in Nat \ {0} /\ Body[q].bytes = n /\ c \in Seq(Unit) /\ Len(c) = n
        /\ u \in Seq(Unit)
    BY ServerAssumption, UnitsAre DEF Ascii
  <1>2. /\ Len(b) = Len(u) + Len(r) /\ \A i \in 1..Len(u) : b[i] = u[i]
        /\ \A i \in 1..Len(r) : b[Len(u) + i] = r[i]
        /\ Len(r) \in Nat
    BY DEF Joined
  <1>3. \A i \in 1..n : c[i] = <<q, "char", i>>
    BY <1>1 DEF Content
  <1>4. LET t == Message(c, r) IN t.parsed = TRUE /\ t.rest = r /\ t.out = <<q>>
    BY MessageOf
  <1>5. CASE Body[q].framing = "length"
    <2>1. /\ Len(u) = n + 2 /\ u[1] = <<q, "head", 0>> /\ u[2] = <<q, "rest", 0>>
          /\ \A i \in 1..n : u[i + 2] = <<q, "char", i>>
      BY <1>5, ServerAssumption, UnitsAre
    <2> HIDE DEF u, n, c
    <2>2. 1 \in 1..Len(u) /\ 2 \in 1..Len(u) /\ Len(b) > 1 /\ Len(b) = (n + 2) + Len(r)
      BY <1>1, <1>2, <2>1
    <2>3. b[1] = <<q, "head", 0>> /\ b[2] = <<q, "rest", 0>>
      BY <1>2, <2>1, <2>2
    <2>4. HasHeader(b)
      BY <2>2, <2>3 DEF HasHeader
    <2>5. Body[b[1][1]].bytes = n
      BY <1>1, <2>3
    <2>6. ~ (Len(b) < 2 + n) /\ 2 + n = n + 2
      BY <1>1, <1>2, <2>2
    <2>7. Take(b) = Message(SubSeq(b, 3, n + 2), SubSeq(b, (n + 2) + 1, Len(b)))
      BY <2>4, <2>5, <2>6 DEF Take, TakeLength
    <2>8. SubSeq(b, 3, n + 2) = c
      <3> DEFINE x == SubSeq(b, 3, n + 2)
      <3>1. x \in Seq(Unit) /\ Len(x) = n /\ \A i \in 1..n : x[i] = b[i + 2]
        BY <1>1, <1>2, <2>2
      <3> HIDE DEF x
      <3>2. ASSUME NEW i \in 1..n PROVE x[i] = c[i]
        <4>1. i + 2 \in 1..Len(u)
          BY <1>1, <2>1
        <4>2. b[i + 2] = u[i + 2]
          BY <1>2, <4>1
        <4> QED
          BY <1>3, <2>1, <3>1, <4>2
      <3>3. x = c
        BY <1>1, <3>1, <3>2, SeqEqual
      <3> QED
        BY <3>3 DEF x
    <2>9. SubSeq(b, (n + 2) + 1, Len(b)) = r
      <3>1. n + 2 \in Nat /\ \A i \in 1..Len(r) : b[(n + 2) + i] = r[i]
        BY <1>1, <1>2, <2>1
      <3> QED
        BY <2>2, <3>1, EndIs
    <2> QED
      BY <1>4, <2>7, <2>8, <2>9
  <1>6. CASE Body[q].framing # "length"
    <2>1. /\ Len(u) = n + 1 /\ u[n + 1] = <<q, "newline", 0>>
          /\ \A i \in 1..n : u[i] = <<q, "char", i>>
      BY <1>6, ServerAssumption, UnitsAre
    <2> DEFINE ends == {i \in DOMAIN b : b[i][2] \in {"newline", "rest"}}
               end  == CHOOSE i \in ends : \A j \in ends : i <= j
    <2> HIDE DEF u, n, c
    <2>2. 1 \in 1..n /\ n + 1 \in 1..Len(u) /\ Len(b) = (n + 1) + Len(r)
      BY <1>1, <1>2, <2>1
    <2>3. \A i \in 1..n : b[i] = <<q, "char", i>>
      <3>1. \A i \in 1..n : i \in 1..Len(u)
        BY <1>1, <2>1
      <3> QED
        BY <1>2, <2>1, <3>1
    <2>4. b[n + 1] = <<q, "newline", 0>> /\ n + 1 \in 1..Len(b)
      BY <1>1, <1>2, <2>1, <2>2
    <2>5. ~ HasHeader(b)
      BY <2>2, <2>3 DEF HasHeader
    <2>6. n + 1 \in ends /\ \A j \in ends : n + 1 <= j
      <3>1. n + 1 \in ends
        BY <2>4
      <3>2. ASSUME NEW j \in ends PROVE n + 1 <= j
        <4>1. j \in Nat \ {0} /\ b[j][2] # "char"
          OBVIOUS
        <4>2. j \notin 1..n
          BY <2>3, <4>1
        <4> QED
          BY <1>1, <4>1, <4>2
      <3> QED
        BY <3>1, <3>2
    <2>7. end = n + 1
      <3>1. ends \subseteq Nat
        OBVIOUS
      <3> HIDE DEF ends
      <3>2. end \in ends /\ \A j \in ends : end <= j
        BY <2>6
      <3> HIDE DEF end
      <3>3. end <= n + 1 /\ n + 1 <= end /\ end \in Nat
        BY <2>6, <3>1, <3>2
      <3> QED
        BY <1>1, <3>3
    <2>8. Take(b) = IF ends = {} THEN Wait(b)
                    ELSE IF end = 1 /\ b[1][2] = "newline" THEN Skip(Tail(b))
                    ELSE Message(IF b[end][2] = "newline" THEN SubSeq(b, 1, end - 1) ELSE SubSeq(b, 1, end),
                                 SubSeq(b, end + 1, Len(b)))
      BY <2>5 DEF Take, TakeLine
    <2> HIDE DEF ends, end
    <2>9. Take(b) = Message(SubSeq(b, 1, n), SubSeq(b, (n + 1) + 1, Len(b)))
      <3>1. ends # {} /\ ~ (end = 1) /\ b[end][2] = "newline" /\ end - 1 = n
        BY <1>1, <2>4, <2>6, <2>7
      <3> QED
        BY <2>7, <2>8, <3>1
    <2>10. SubSeq(b, 1, n) = c
      <3> DEFINE x == SubSeq(b, 1, n)
      <3>1. x \in Seq(Unit) /\ Len(x) = n /\ \A i \in 1..n : x[i] = b[i]
        BY <1>1, <1>2, <2>2
      <3> HIDE DEF x
      <3>2. \A i \in 1..n : x[i] = c[i]
        BY <1>3, <2>3, <3>1
      <3>3. x = c
        BY <1>1, <3>1, <3>2, SeqEqual
      <3> QED
        BY <3>3 DEF x
    <2>11. SubSeq(b, (n + 1) + 1, Len(b)) = r
      <3>1. n + 1 \in Nat /\ \A i \in 1..Len(r) : b[(n + 1) + i] = r[i]
        BY <1>1, <1>2, <2>1
      <3> QED
        BY <2>2, <3>1, EndIs
    <2> QED
      BY <1>4, <2>9, <2>10, <2>11
  <1> QED
    BY <1>5, <1>6

\* A part of a request is not.
LEMMA TakePart ==
  ASSUME Ascii, NEW q \in Request, NEW b \in Seq(Unit), Len(b) < Len(Units(q)), b # <<>>,
         \A i \in 1..Len(b) : b[i] = Units(q)[i]
  PROVE  Take(b).parsed = FALSE
  <1> DEFINE u == Units(q)
             n == Body[q].chars
             ends == {i \in DOMAIN b : b[i][2] \in {"newline", "rest"}}
  <1>1. n \in Nat \ {0} /\ Body[q].bytes = n /\ Len(b) \in Nat \ {0}
    BY ServerAssumption, UnitsAre DEF Ascii
  <1>2. ASSUME ~ HasHeader(b), ends = {} PROVE Take(b).parsed = FALSE
    BY <1>2 DEF Take, TakeLine, Wait
  <1>3. CASE Body[q].framing = "length"
    <2>1. /\ Len(u) = n + 2 /\ u[1] = <<q, "head", 0>> /\ u[2] = <<q, "rest", 0>>
      BY <1>3, ServerAssumption, UnitsAre
    <2>2. 1 \in 1..Len(b) /\ b[1] = <<q, "head", 0>>
      BY <1>1, <2>1
    <2>3. CASE Len(b) > 1
      <3>1. 2 \in 1..Len(b)
        BY <1>1, <2>3
      <3>2. b[2] = <<q, "rest", 0>>
        BY <2>1, <3>1
      <3>3. HasHeader(b)
        BY <2>2, <2>3, <3>2 DEF HasHeader
      <3>4. Len(b) < 2 + Body[b[1][1]].bytes
        BY <1>1, <2>1, <2>2
      <3> QED
        BY <3>3, <3>4 DEF Take, TakeLength, Wait
    <2>4. CASE ~ (Len(b) > 1)
      <3> DEFINE len == Len(b)
      <3>0. len \in Nat \ {0} /\ ~ (len > 1)
        BY <1>1, <2>4
      <3> HIDE DEF len
      <3>1. Len(b) = 1
        <4>1. len = 1
          BY <3>0
        <4> QED
          BY <4>1, Zenon DEF len
      <3>2. \A i \in 1..Len(b) : i = 1
        BY <3>1
      <3>3. ends = {}
        BY <2>2, <3>2
      <3> QED
        BY <1>2, <2>4, <3>3 DEF HasHeader
    <2> QED
      BY <2>3, <2>4
  <1>4. CASE Body[q].framing # "length"
    <2>1. Len(u) = n + 1 /\ \A i \in 1..n : u[i] = <<q, "char", i>>
      BY <1>4, ServerAssumption, UnitsAre
    <2>2. \A i \in 1..Len(b) : i \in 1..n
      BY <1>1, <2>1
    <2>3. \A i \in 1..Len(b) : b[i] = <<q, "char", i>>
      BY <2>1, <2>2
    <2>4. ends = {}
      BY <2>3
    <2>5. 1 \in 1..Len(b)
      BY <1>1
    <2>6. ~ HasHeader(b)
      BY <2>3, <2>5 DEF HasHeader
    <2> QED
      BY <1>2, <2>4, <2>6, Zenon
  <1> QED
    BY <1>3, <1>4

\* What is at the front of the buffer when the next request is number k + 1.
LEMMA TakeNext ==
  ASSUME Ascii, NEW b \in Seq(Unit), b # <<>>, NEW u \in Seq(Unit), NEW k \in 0..Len(Script), After(b \o u, k)
  PROVE  /\ k < Len(Script) /\ Script[k + 1] \in Request /\ Units(Script[k + 1]) \in Seq(Unit)
         /\ Len(Units(Script[k + 1])) <= Len(b) =>
              /\ Take(b).parsed = TRUE /\ Take(b).out = <<Script[k + 1]>>
              /\ Take(b).rest \in Seq(Unit) /\ Len(Take(b).rest) < Len(b)
              /\ After(Take(b).rest \o u, k + 1)
         /\ Len(b) < Len(Units(Script[k + 1])) => Take(b).parsed = FALSE
  <1>1. k < Len(Script)
    <2>1. k # Len(Script)
      <3>1. b \o u # <<>>
        OBVIOUS
      <3> QED
        BY <3>1, AfterIs
    <2> QED
      BY <2>1, ScriptHas DEF ScriptIs
  <1> DEFINE q == Script[k + 1]
             v == Units(q)
  <1>2. q \in Request /\ v \in Seq(Unit)
    BY <1>1, UnitsIn
  <1>3. PICK s : After(s, k + 1) /\ b \o u = v \o s
    BY <1>1, AfterNext
  <1>4. s \in Seq(Unit)
    BY <1>3 DEF After
  <1>5. Len(v) \in Nat \ {0}
    BY <1>2, ServerAssumption, UnitsOwn
  <1>6. Len(b) \in Nat
    OBVIOUS
  <1>7. b \o u = v \o s
    BY <1>3, Zenon
  <1>8. After(s, k + 1)
    BY <1>3, Zenon
  <1> HIDE DEF v, q
  <1>9. ASSUME Len(v) <= Len(b)
        PROVE  /\ Take(b).parsed = TRUE /\ Take(b).out = <<q>>
               /\ Take(b).rest \in Seq(Unit) /\ Len(Take(b).rest) < Len(b)
               /\ After(Take(b).rest \o u, k + 1)
    <2>1. PICK e \in Seq(Unit) : Len(b) = Len(v) + Len(e) /\ b = v \o e /\ s = e \o u
      <3>1. TwoCuts(b, u, v, s)
        BY <1>7, <1>9 DEF TwoCuts
      <3>2. Overlap(b, u, v, s)
        BY <1>2, <1>4, <3>1, CutTwice
      <3> QED
        BY <3>2 DEF Overlap
    <2>2. Joined(b, v, e)
      BY <1>2, <2>1, JoinedIs
    <2>3. Take(b).parsed = TRUE /\ Take(b).out = <<q>> /\ Take(b).rest = e
      BY <1>2, <2>2, TakeWhole DEF v
    <2>4. Len(e) < Len(b)
      BY <1>5, <1>6, <2>1
    <2> QED
      BY <1>8, <2>1, <2>3, <2>4
  <1>10. ASSUME Len(b) < Len(v) PROVE Take(b).parsed = FALSE
    <2>0. Len(b) <= Len(v) /\ v \o s = b \o u
      BY <1>5, <1>6, <1>7, <1>10
    <2>1. PICK e \in Seq(Unit) : v = b \o e
      <3>1. TwoCuts(v, s, b, u)
        BY <2>0 DEF TwoCuts
      <3>2. Overlap(v, s, b, u)
        BY <1>2, <1>4, <3>1, CutTwice
      <3> QED
        BY <3>2 DEF Overlap
    <2>2. \A i \in 1..Len(b) : b[i] = v[i]
      <3>1. Joined(v, b, e)
        BY <2>1, JoinedIs
      <3> QED
        BY <3>1 DEF Joined
    <2> QED
      BY <1>2, <1>10, <2>2, TakePart DEF v
  <1> QED
    BY <1>1, <1>2, <1>9, <1>10 DEF v, q

\* The server has read the requests after the first m, as far as number k, and no more
\* is there of the next than a part of it.
Place(c, u, m, k) ==
  /\ c.rest \in Seq(Unit) /\ c.out \in Seq(Request)
  /\ After(c.rest \o u, k)
  /\ \A j \in (m + 1)..k : Script[j] \in ToSet(c.out)

Stuck(c) == c.rest = <<>> \/ ~ Take(c.rest).parsed

LEMMA PlaceNext ==
  ASSUME Ascii, NEW u \in Seq(Unit), NEW m \in 0..Len(Script), NEW c, NEW k \in m..Len(Script),
         Place(c, u, m, k), ~ Stuck(c)
  PROVE  \E i \in m..Len(Script) : Place(TakeOne(c), u, m, i) /\ Len(TakeOne(c).rest) < Len(c.rest)
  <1> DEFINE b == c.rest
             o == c.out
             q == Script[k + 1]
             t == Take(b)
  <1>1. b \in Seq(Unit) /\ o \in Seq(Request) /\ After(b \o u, k) /\ b # <<>> /\ k \in 0..Len(Script)
    BY ScriptHas DEF Place, Stuck, ScriptIs
  <1>2. t.parsed
    BY DEF Stuck
  <1>3. TakeOne(c) = [rest |-> t.rest, out |-> o \o t.out]
    BY <1>1, <1>2 DEF TakeOne
  <1> HIDE DEF b, o, t
  <1>4. /\ k < Len(Script) /\ q \in Request
        /\ t.out = <<q>> /\ t.rest \in Seq(Unit) /\ Len(t.rest) < Len(b)
        /\ After(t.rest \o u, k + 1)
    <2>1. Len(b) \in Nat
      BY <1>1
    <2>2. k < Len(Script) /\ q \in Request /\ Units(q) \in Seq(Unit)
      BY <1>1, TakeNext
    <2>3. Len(Units(q)) <= Len(b)
      <3>1. ~ (Len(b) < Len(Units(q)))
        BY <1>1, <1>2, TakeNext DEF t
      <3>2. Len(Units(q)) \in Nat
        BY <2>2
      <3> HIDE DEF q
      <3> QED
        BY <2>1, <3>1, <3>2
    <2>4. /\ t.out = <<q>> /\ t.rest \in Seq(Unit) /\ Len(t.rest) < Len(b)
          /\ After(t.rest \o u, k + 1)
      BY <1>1, <2>3, TakeNext DEF t
    <2> QED
      BY <2>2, <2>4
  <1>5. k \in Nat /\ m \in Nat /\ k + 1 \in m..Len(Script)
    BY <1>4, ScriptHas DEF ScriptIs
  <1> DEFINE x == o \o <<q>>
  <1>6. x \in Seq(Request) /\ ToSet(x) = ToSet(o) \cup {q}
    <2> HIDE DEF q
    <2>1. <<q>> \in Seq(Request) /\ ToSet(<<q>>) = {q}
      <3>1. <<q>> \in Seq(Request) /\ Len(<<q>>) = 1 /\ <<q>>[1] = q
        BY <1>4
      <3>2. DOMAIN <<q>> = 1..1
        BY <3>1
      <3>3. \A i \in 1..1 : i = 1
        OBVIOUS
      <3> QED
        BY <3>1, <3>2, <3>3 DEF ToSet
    <2>2. ToSet(o \o <<q>>) = ToSet(o) \cup ToSet(<<q>>)
      <3> DEFINE z == <<q>>
      <3>1. z \in Seq(Request) /\ o \in Seq(Request)
        BY <1>1, <2>1
      <3> HIDE DEF z
      <3>2. ToSet(o \o z) = ToSet(o) \cup ToSet(z)
        BY <3>1, ElementsOfConcat
      <3> QED
        BY <3>2 DEF z
    <2>3. x \in Seq(Request)
      BY <1>1, <2>1
    <2> QED
      BY <2>1, <2>2, <2>3
  <1> HIDE DEF x
  <1>7. \A j \in (m + 1)..(k + 1) : Script[j] \in ToSet(x)
    <2>1. \A j \in (m + 1)..(k + 1) : j \in (m + 1)..k \/ j = k + 1
      BY <1>5
    <2> QED
      BY <1>6, <2>1 DEF Place, o
  <1>8. TakeOne(c).rest = t.rest /\ TakeOne(c).out = x
    BY <1>3, <1>4 DEF x
  <1>9. Place(TakeOne(c), u, m, k + 1)
    BY <1>4, <1>6, <1>7, <1>8 DEF Place
  <1> QED
    BY <1>4, <1>5, <1>8, <1>9 DEF b

\* After as many messages as there are units there is no more to take.
LEMMA DrainPlace ==
  ASSUME Ascii, NEW b \in Seq(Unit), NEW u \in Seq(Unit), NEW m \in 0..Len(Script), After(b \o u, m)
  PROVE  \E k \in m..Len(Script) : Place(Drain(b), u, m, k) /\ Stuck(Drain(b))
  <1> DEFINE n == Len(b)
             C(i) == Drains(b, n)[i]
             Good(i) == /\ \E k \in m..Len(Script) : Place(C(i), u, m, k)
                        /\ Stuck(C(i)) \/ Len(C(i).rest) + i <= n
             S == {i \in Nat : i <= n => Good(i)}
  <1>0. n \in Nat /\ Len(Script) \in Nat
    BY ScriptHas DEF ScriptIs
  <1>1. /\ C(0) = [rest |-> b, out |-> <<>>]
        /\ \A i \in Nat : i + 1 <= n => C(i + 1) = TakeOne(C(i))
    BY <1>0, DrainsAt
  <1> HIDE DEF C, n
  <1>2. 0 \in S
    <2>1. C(0).rest = b /\ C(0).out = <<>> /\ <<>> \in Seq(Request)
      BY <1>1
    <2>2. \A j \in (m + 1)..m : FALSE
      OBVIOUS
    <2>3. Place(C(0), u, m, m)
      BY <2>1, <2>2 DEF Place
    <2>4. Len(C(0).rest) + 0 <= n /\ m \in m..Len(Script)
      BY <1>0, <2>1 DEF n
    <2> QED
      BY <2>3, <2>4
  <1>3. ASSUME NEW i \in Nat, i \in S PROVE i + 1 \in S
    <2>0. SUFFICES ASSUME i + 1 <= n PROVE Good(i + 1)
      <3> HIDE DEF Good
      <3> QED
        BY <1>3
    <2>1. PICK k \in m..Len(Script) : Place(C(i), u, m, k)
      BY <1>0, <1>3, <2>0
    <2>2. Stuck(C(i)) \/ Len(C(i).rest) + i <= n
      BY <1>0, <1>3, <2>0
    <2>3. C(i + 1) = TakeOne(C(i))
      BY <1>1, <2>0
    <2>4. CASE Stuck(C(i))
      <3>1. C(i + 1) = C(i)
        BY <2>3, <2>4 DEF Stuck, TakeOne
      <3> QED
        BY <2>1, <2>4, <3>1
    <2>5. CASE ~ Stuck(C(i))
      <3>1. PICK j \in m..Len(Script) : Place(C(i + 1), u, m, j) /\ Len(C(i + 1).rest) < Len(C(i).rest)
        BY <2>1, <2>3, <2>5, PlaceNext
      <3>2. Len(C(i + 1).rest) \in Nat /\ Len(C(i).rest) \in Nat
        BY <2>1, <3>1 DEF Place
      <3>3. Len(C(i + 1).rest) + (i + 1) <= n
        <4> DEFINE x == Len(C(i + 1).rest)
                   y == Len(C(i).rest)
        <4>1. x \in Nat /\ y \in Nat /\ x < y /\ y + i <= n
          BY <2>2, <2>5, <3>1, <3>2
        <4> HIDE DEF x, y
        <4>2. x + (i + 1) <= n
          BY <1>0, <4>1
        <4> QED
          BY <4>2 DEF x
      <3> QED
        BY <3>1, <3>3
    <2> QED
      BY <2>4, <2>5
  <1>4. Nat \subseteq S
    <2> HIDE DEF S
    <2> QED
      BY <1>2, <1>3, Induction
  <1>5. Good(n)
    BY <1>0, <1>4
  <1>6. PICK k \in m..Len(Script) : Place(C(n), u, m, k)
    BY <1>5
  <1>7. Stuck(C(n))
    <2>1. Len(C(n).rest) + n <= n => C(n).rest = <<>>
      <3>1. C(n).rest \in Seq(Unit)
        BY <1>6 DEF Place
      <3> QED
        BY <1>0, <3>1
    <2> QED
      BY <1>5, <2>1 DEF Stuck
  <1> QED
    BY <1>6, <1>7 DEF C, n, Drain

\* When there is no message to take, there is nothing, or a part of the next request.
LEMMA StuckIs ==
  ASSUME Ascii, NEW b \in Seq(Unit), NEW u \in Seq(Unit), NEW k \in 0..Len(Script), After(b \o u, k),
         b = <<>> \/ ~ Take(b).parsed
  PROVE  b = <<>> \/ (k < Len(Script) /\ Len(b) < Len(Units(Script[k + 1])))
  <1> SUFFICES ASSUME b # <<>> PROVE k < Len(Script) /\ Len(b) < Len(Units(Script[k + 1]))
    OBVIOUS
  <1> DEFINE v == Units(Script[k + 1])
  <1>1. k < Len(Script) /\ v \in Seq(Unit)
    BY TakeNext
  <1>2. ~ (Len(v) <= Len(b))
    BY TakeNext
  <1>3. Len(v) \in Nat /\ Len(b) \in Nat
    BY <1>1
  <1> HIDE DEF v
  <1>4. Len(b) < Len(v)
    <2> DEFINE x == Len(v)
               y == Len(b)
    <2>1. x \in Nat /\ y \in Nat /\ ~ (x <= y)
      BY <1>2, <1>3
    <2> HIDE DEF x, y
    <2>2. y < x
      BY <2>1
    <2> QED
      BY <2>2 DEF x, y
  <1> QED
    BY <1>1, <1>4 DEF v

\* A chunk takes the server from the m-th request to the k-th.
LEMMA ReadPlace ==
  ASSUME Ascii, buffer \in Seq(Unit), unsent \in Seq(Unit), NEW n \in Nat, n <= Len(unsent),
         NEW m \in 0..Len(Script), After(Pipe, m)
  PROVE  \E k \in m..Len(Script) :
           Place(Read(n), SubSeq(unsent, n + 1, Len(unsent)), m, k) /\ Stuck(Read(n))
  <1> DEFINE a == Chunk(n)
             u == SubSeq(unsent, n + 1, Len(unsent))
             b == buffer \o a
  <1>1. a \in Seq(Unit) /\ u \in Seq(Unit)
    BY ChunkIs
  <1>2. Pipe = b \o u
    BY ChunkIs
  <1> HIDE DEF a, u
  <1>3. b \in Seq(Unit) /\ After(b \o u, m)
    <2>1. b \in Seq(Unit)
      BY <1>1
    <2> QED
      BY <1>2, <2>1
  <1> HIDE DEF b
  <1>4. \E k \in m..Len(Script) : Place(Drain(b), u, m, k) /\ Stuck(Drain(b))
    BY <1>1, <1>3, DrainPlace
  <1> QED
    BY <1>4, Zenon DEF Read, a, b, u

-----------------------------------------------------------------------------
(* How far the stream has come.                                            *)

\* The server has read, or lost, the first m requests, and has no more than a part of
\* the next.
UpTo(m) ==
  /\ After(Pipe, m)
  /\ buffer = <<>> \/ (m < Len(Script) /\ Len(buffer) < Len(Units(Script[m + 1])))
  /\ \A i \in 1..m : call[Script[i]].pc # "none" \/ Script[i] \in lost

InStep == \E m \in 0..Len(Script) : UpTo(m)

\* A call that is over without an answer was cut off.
AnsweredInTime == \A q \in Request : call[q].pc = "done" /\ Body[q].id => answers[q] = 1 \/ q \in lost

LEMMA ArriveInStep ==
  ASSUME Ascii, TypeOK, OnceInv, NEW n \in 1..MaxChunk, Arrive(n), NEW m \in 0..Len(Script), UpTo(m)
  PROVE  InStep' /\ misread' = misread
  <1> DEFINE u == SubSeq(unsent, n + 1, Len(unsent))
             x == Read(n).rest
             o == Read(n).out
             errors == {i \in DOMAIN o : o[i] = Bad}
  <1>1. n \in Nat /\ n <= Len(unsent) /\ buffer \in Seq(Unit) /\ unsent \in Seq(Unit)
    <2>1. n <= Len(unsent)
      BY DEF Arrive
    <2>2. n \in Nat
      BY ServerAssumption DEF ServerAssumption
    <2> QED
      BY <2>1, <2>2, TypeIs
  <1>2. unsent' = u /\ buffer' = x /\ misread' = misread + Cardinality(errors)
    BY DEF Arrive, Data
  <1>3. PICK k \in m..Len(Script) : Place(Read(n), u, m, k) /\ Stuck(Read(n))
    BY <1>1, ReadPlace DEF UpTo
  <1>4. /\ x \in Seq(Unit) /\ o \in Seq(Request) /\ After(x \o u, k)
        /\ \A j \in (m + 1)..k : Script[j] \in ToSet(o)
        /\ x = <<>> \/ ~ Take(x).parsed
    BY <1>3 DEF Place, Stuck
  <1>5. u \in Seq(Unit)
    BY <1>1
  <1>6. k \in 0..Len(Script) /\ k \in Nat /\ m \in Nat /\ m <= k
    BY ScriptHas DEF ScriptIs
  <1> HIDE DEF u, x, o
  <1>7. misread' = misread
    <2>1. \A i \in DOMAIN o : o[i] \in Request
      BY <1>4
    <2>2. errors = {}
      BY <2>1, ServerAssumption DEF ServerAssumption
    <2>3. Cardinality(errors) = 0
      BY <2>2, FS_EmptySet
    <2>4. misread \in Nat
      BY DEF TypeOK, ServerTypeOK
    <2> QED
      BY <1>2, <2>3, <2>4
  <1>8. x = <<>> \/ (k < Len(Script) /\ Len(x) < Len(Units(Script[k + 1])))
    BY <1>4, <1>5, <1>6, StuckIs
  <1>9. Pipe' = x \o u
    BY <1>2 DEF Pipe
  <1>10. lost' = lost /\ call' = [q \in Request |-> IF q \in Got(n) THEN NewCall(q) ELSE call[q]]
    BY ArriveEffect
  <1>11. ASSUME NEW i \in 1..k
         PROVE  call'[Script[i]].pc # "none" \/ Script[i] \in lost'
    <2>1. i \in 1..Len(Script) /\ Script[i] \in Request
      BY <1>6, ScriptHas DEF ScriptIs
    <2>2. Script[i] \in Got(n) => call'[Script[i]].pc # "none"
      BY <1>10, <2>1, NewCallIs
    <2>3. Script[i] \notin Got(n) => call'[Script[i]] = call[Script[i]]
      BY <1>10, <2>1
    <2>4. i \in 1..m \/ i \in (m + 1)..k
      BY <1>6
    <2>5. i \in (m + 1)..k => Script[i] \in Got(n)
      BY <1>4, <2>1 DEF Got, Dispatched, o
    <2> QED
      BY <1>10, <2>2, <2>3, <2>4, <2>5 DEF UpTo
  <1>12. UpTo(k)'
    BY <1>2, <1>4, <1>8, <1>9, <1>11 DEF UpTo
  <1> QED
    BY <1>6, <1>7, <1>12 DEF InStep

-----------------------------------------------------------------------------
(* What is still to be written.                                            *)

LEMMA UnitsHave ==
  ASSUME NEW q \in Request
  PROVE  ToSet(Units(q)) # {} /\ \A u \in ToSet(Units(q)) : u[1] = q
  <1> DEFINE v == Units(q)
  <1>1. /\ \A i \in 1..Len(v) : v[i][1] = q
        /\ Len(v) \in Nat \ {0} /\ v \in Seq(Unit)
    BY ServerAssumption, UnitsOwn, UnitsAre
  <1> HIDE DEF v
  <1>2. ToSet(v) = {v[i] : i \in 1..Len(v)} /\ 1 \in 1..Len(v)
    BY <1>1 DEF ToSet
  <1>3. ToSet(v) # {} /\ \A u \in ToSet(v) : u[1] = q
    BY <1>1, <1>2
  <1> QED
    BY <1>3 DEF v

Of(r, q) == {u \in ToSet(r) : u[1] = q}

\* After the first m requests there is nothing of them, and everything of the others.
LEMMA OfAfter ==
  ASSUME NEW m \in 0..Len(Script), NEW r, After(r, m), NEW j \in 1..Len(Script)
  PROVE  /\ j <= m => Of(r, Script[j]) = {}
         /\ j > m => Of(r, Script[j]) = ToSet(Units(Script[j]))
  <1>1. \A i \in 1..Len(Script) : Script[i] \in Request /\ (Script[i] = Script[j] => i = j)
    BY ScriptHas DEF ScriptIs
  <1>2. \A i \in (m + 1)..Len(Script) : i \in 1..Len(Script) /\ ~ (i <= m)
    BY ScriptHas DEF ScriptIs
  <1>3. ASSUME NEW u \in Of(r, Script[j]) PROVE j \in (m + 1)..Len(Script) /\ u \in ToSet(Units(Script[j]))
    <2>1. PICK i \in (m + 1)..Len(Script) : u \in ToSet(Units(Script[i]))
      BY DEF After, Of
    <2>2. u[1] = Script[i]
      BY <1>1, <1>2, <2>1, UnitsHave
    <2>3. i = j
      BY <1>1, <1>2, <2>2 DEF Of
    <2> QED
      BY <2>1, <2>3
  <1>4. j <= m => Of(r, Script[j]) = {}
    BY <1>2, <1>3
  <1>5. ASSUME j > m PROVE Of(r, Script[j]) = ToSet(Units(Script[j]))
    <2>1. j \in (m + 1)..Len(Script)
      BY <1>5, ScriptHas DEF ScriptIs
    <2>2. ToSet(Units(Script[j])) \subseteq ToSet(r)
      BY <2>1 DEF After
    <2>3. ToSet(Units(Script[j])) \subseteq Of(r, Script[j])
      BY <1>1, <2>2, UnitsHave DEF Of
    <2> QED
      BY <1>3, <2>3
  <1> QED
    BY <1>4, <1>5

\* The buffer has the beginning of the next request, and the client its end.
CutIn(m, e, s) ==
  /\ m < Len(Script) /\ e \in Seq(Unit) /\ s \in Seq(Unit) /\ After(s, m + 1)
  /\ Units(Script[m + 1]) = buffer \o e /\ unsent = e \o s
  /\ Len(Units(Script[m + 1])) = Len(buffer) + Len(e) /\ Len(e) \in Nat \ {0}

LEMMA CutOff ==
  ASSUME buffer \in Seq(Unit), unsent \in Seq(Unit), NEW m \in 0..Len(Script), UpTo(m), buffer # <<>>
  PROVE  \E e, s : CutIn(m, e, s)
  <1> DEFINE v == Units(Script[m + 1])
  <1>1. m < Len(Script) /\ Len(buffer) < Len(v)
    BY DEF UpTo
  <1>2. v \in Seq(Unit) /\ Script[m + 1] \in Request
    BY <1>1, UnitsIn
  <1>3. After(Pipe, m)
    BY DEF UpTo
  <1>4. PICK s : After(s, m + 1) /\ Pipe = v \o s
    BY <1>1, <1>3, AfterNext
  <1>5. s \in Seq(Unit)
    BY <1>4 DEF After
  <1>6. Len(v) \in Nat /\ Len(buffer) \in Nat
    BY <1>2
  <1> HIDE DEF v
  <1>7. TwoCuts(v, s, buffer, unsent)
    <2>1. Len(buffer) <= Len(v)
      BY <1>1, <1>6
    <2> QED
      BY <1>4, <2>1, Zenon DEF TwoCuts, Pipe
  <1>8. Overlap(v, s, buffer, unsent)
    BY <1>2, <1>5, <1>7, CutTwice
  <1>9. PICK e \in Seq(Unit) : Len(v) = Len(buffer) + Len(e) /\ v = buffer \o e /\ unsent = e \o s
    BY <1>8 DEF Overlap
  <1>10. Len(e) \in Nat \ {0}
    <2> DEFINE x == Len(e)
               y == Len(v)
               z == Len(buffer)
    <2>1. x \in Nat /\ y \in Nat /\ z \in Nat /\ y = z + x /\ z < y
      BY <1>1, <1>6, <1>9
    <2> HIDE DEF x, y, z
    <2>2. x \in Nat \ {0}
      BY <2>1
    <2> QED
      BY <2>2 DEF x
  <1>11. CutIn(m, e, s)
    BY <1>1, <1>4, <1>5, <1>9, <1>10, Zenon DEF CutIn, v
  <1> QED
    BY <1>11

\* Of the next request its end is unsent, of the others what there was.
LEMMA CutHas ==
  ASSUME buffer \in Seq(Unit), NEW m \in 0..Len(Script), NEW e, NEW s, CutIn(m, e, s), NEW j \in 1..Len(Script)
  PROVE  /\ j <= m => Left(Script[j]) = {}
         /\ j = m + 1 => Left(Script[j]) = ToSet(e) /\ ToSet(e) # {}
         /\ j > m + 1 => Left(Script[j]) = ToSet(Units(Script[j])) /\ Left(Script[j]) # {}
         /\ \A u \in ToSet(e) : u[1] = Script[m + 1]
         /\ \A u \in ToSet(s) : u[1] # Script[m + 1]
         /\ buffer # <<>> => ToSet(e) # ToSet(Units(Script[m + 1]))
  <1> DEFINE q == Script[m + 1]
             v == Units(q)
  <1>1. /\ m < Len(Script) /\ e \in Seq(Unit) /\ s \in Seq(Unit) /\ After(s, m + 1)
        /\ v = buffer \o e /\ unsent = e \o s /\ Len(v) = Len(buffer) + Len(e) /\ Len(e) \in Nat \ {0}
    BY DEF CutIn
  <1>2. m + 1 \in 0..Len(Script) /\ m + 1 \in 1..Len(Script) /\ m \in Nat /\ j \in Nat
    BY <1>1, ScriptHas DEF ScriptIs
  <1>3. q \in Request /\ Script[j] \in Request /\ (Script[j] = q => j = m + 1)
    BY <1>2, ScriptHas DEF ScriptIs
  <1>4. ToSet(unsent) = ToSet(e) \cup ToSet(s)
    BY <1>1, ElementsOfConcat
  <1> HIDE DEF q, v
  <1>5. /\ ToSet(v) = {v[i] : i \in 1..Len(v)} /\ ToSet(e) = {e[i] : i \in 1..Len(e)}
        /\ \A i \in 1..Len(e) : Len(buffer) + i \in 1..Len(v) /\ e[i] = v[Len(buffer) + i]
        /\ Len(buffer) \in Nat
    <2>1. Joined(v, buffer, e)
      BY <1>1, JoinedIs
    <2>2. Len(buffer) \in Nat /\ v \in Seq(Unit)
      BY <1>3, ServerAssumption, UnitsAre DEF v
    <2>3. ToSet(v) = {v[i] : i \in 1..Len(v)} /\ ToSet(e) = {e[i] : i \in 1..Len(e)}
      <3>1. \A t \in Seq(Unit) : ToSet(t) = {t[i] : i \in 1..Len(t)}
        BY DEF ToSet
      <3>2. v \in Seq(Unit) /\ e \in Seq(Unit)
        BY <1>1, <2>2
      <3> QED
        BY <3>1, <3>2, Zenon
    <2>4. ASSUME NEW i \in 1..Len(e) PROVE Len(buffer) + i \in 1..Len(v) /\ e[i] = v[Len(buffer) + i]
      <3>1. e[i] = v[Len(buffer) + i]
        BY <2>1 DEF Joined
      <3>2. Len(buffer) + i \in 1..Len(v)
        <4> DEFINE x == Len(e)
                   y == Len(v)
                   z == Len(buffer)
        <4>1. x \in Nat /\ z \in Nat /\ y = z + x /\ i \in 1..x
          BY <1>1, <2>2
        <4> HIDE DEF x, y, z
        <4>2. z + i \in 1..y
          BY <4>1
        <4> QED
          BY <4>2 DEF y, z
      <3> QED
        BY <3>1, <3>2
    <2> QED
      BY <2>2, <2>3, <2>4
  <1>6. ToSet(e) # {} /\ ToSet(e) \subseteq ToSet(v)
    <2>1. 1 \in 1..Len(e)
      BY <1>1
    <2> QED
      BY <1>5, <2>1
  <1>7. \A u \in ToSet(e) : u[1] = q
    BY <1>3, <1>6, UnitsHave DEF v
  <1>8. buffer # <<>> => ToSet(e) # ToSet(v)
    <2> SUFFICES ASSUME buffer # <<>> PROVE v[1] \in ToSet(v) /\ v[1] \notin ToSet(e)
      OBVIOUS
    <2>1. Len(buffer) > 0
      OBVIOUS
    <2>2. \A i, k \in 1..Len(v) : v[i] = v[k] => i = k
      BY <1>3, ServerAssumption, UnitsOwn DEF v, Distinct
    <2>3. Len(v) \in Nat \ {0}
      BY <1>3, ServerAssumption, UnitsOwn DEF v
    <2>4. 1 \in 1..Len(v)
      BY <2>3
    <2>5. \A i \in 1..Len(e) : Len(buffer) + i # 1
      BY <1>5, <2>1
    <2> QED
      BY <1>5, <2>2, <2>4, <2>5
  <1>9. Left(Script[j]) = {u \in ToSet(e) : u[1] = Script[j]} \cup Of(s, Script[j])
    BY <1>4 DEF Left, Of
  <1>10. \A u \in ToSet(s) : u[1] # q
    <2>1. Of(s, q) = {}
      <3>1. m + 1 <= m + 1
        BY <1>2
      <3> QED
        BY <1>1, <1>2, <3>1, OfAfter DEF q
    <2> QED
      BY <2>1 DEF Of
  <1>11. j <= m => Left(Script[j]) = {}
    <2> SUFFICES ASSUME j <= m PROVE Left(Script[j]) = {}
      OBVIOUS
    <2>1. j <= m + 1 /\ Script[j] # q
      BY <1>2, <1>3
    <2>2. Of(s, Script[j]) = {}
      BY <1>1, <1>2, <2>1, OfAfter
    <2> QED
      BY <1>7, <1>9, <2>1, <2>2
  <1>12. j = m + 1 => Left(Script[j]) = ToSet(e) /\ ToSet(e) # {}
    BY <1>6, <1>7, <1>9, <1>10 DEF Of, q
  <1>13. j > m + 1 => Left(Script[j]) = ToSet(Units(Script[j])) /\ Left(Script[j]) # {}
    <2> SUFFICES ASSUME j > m + 1 PROVE Left(Script[j]) = ToSet(Units(Script[j])) /\ Left(Script[j]) # {}
      OBVIOUS
    <2>1. Script[j] # q
      BY <1>2, <1>3
    <2>2. Of(s, Script[j]) = ToSet(Units(Script[j]))
      BY <1>1, <1>2, OfAfter
    <2>3. ToSet(Units(Script[j])) # {}
      BY <1>3, UnitsHave
    <2> QED
      BY <1>7, <1>9, <2>1, <2>2, <2>3
  <1> QED
    BY <1>7, <1>8, <1>10, <1>11, <1>12, <1>13, Zenon DEF q, v

\* A restart loses the request that it cuts in two, if there is one, and goes on with the next.
LEMMA CrashInStep ==
  ASSUME TypeOK, Crash, NEW m \in 0..Len(Script), UpTo(m)
  PROVE  InStep'
  <1> DEFINE cut == {i \in DOMAIN unsent : unsent[i][1] \in Half}
  <1>1. /\ unsent' = SubSeq(unsent, Cardinality(cut) + 1, Len(unsent)) /\ buffer' = <<>>
        /\ lost' = lost \cup Half \cup Pending
    BY DEF Crash, Restart
  <1>2. buffer \in Seq(Unit) /\ unsent \in Seq(Unit) /\ m \in Nat
    BY TypeIs, ScriptHas DEF ScriptIs
  <1>3. \A i \in 1..m : call'[Script[i]].pc # "none" \/ Script[i] \in lost'
    <2>1. ASSUME NEW i \in 1..m PROVE Script[i] \in Request
      BY ScriptHas DEF ScriptIs
    <2>2. \A q \in Request : call[q].pc # "none" => call'[q].pc # "none"
      <3>1. Done.pc = "done"
        BY DEF Done, NoCall
      <3> QED
        BY <3>1, CrashEffect
    <2> QED
      BY <1>1, <2>1, <2>2 DEF UpTo
  <1>4. \A q \in ToSet(Script) : \E j \in 1..Len(Script) : q = Script[j]
    BY ServerAssumption DEF ServerAssumption, ToSet
  <1>5. CASE buffer = <<>>
    <2>1. After(unsent, m)
      <3>1. Pipe = unsent
        BY <1>2, <1>5 DEF Pipe
      <3> QED
        BY <3>1 DEF UpTo
    <2>2. ASSUME NEW j \in 1..Len(Script) PROVE Left(Script[j]) \in {{}, ToSet(Units(Script[j]))}
      <3>1. Left(Script[j]) = Of(unsent, Script[j])
        BY DEF Left, Of
      <3>2. j <= m \/ j > m
        BY <1>2
      <3> QED
        BY <2>1, <3>1, <3>2, OfAfter
    <2>3. Half = {}
      BY <1>4, <2>2 DEF Half
    <2>4. Cardinality(cut) = 0
      <3>1. cut = {}
        BY <2>3
      <3> QED
        BY <3>1, FS_EmptySet
    <2>5. unsent' = unsent
      <3>1. SubSeq(unsent, 1, Len(unsent)) = unsent
        BY <1>2
      <3>2. 0 + 1 = 1
        OBVIOUS
      <3>3. unsent' = SubSeq(unsent, 0 + 1, Len(unsent))
        BY <1>1, <2>4, Zenon
      <3> QED
        BY <3>1, <3>2, <3>3, Zenon
    <2>6. Pipe' = unsent
      <3>1. <<>> \o unsent = unsent
        BY <1>2
      <3> QED
        BY <1>1, <2>5, <3>1, Zenon DEF Pipe
    <2>7. UpTo(m)'
      BY <1>1, <1>3, <2>1, <2>6 DEF UpTo
    <2> QED
      BY <2>7 DEF InStep
  <1>6. CASE buffer # <<>>
    <2>1. PICK e, s : CutIn(m, e, s)
      BY <1>2, <1>6, CutOff
    <2> DEFINE q == Script[m + 1]
    <2>2. /\ m < Len(Script) /\ e \in Seq(Unit) /\ s \in Seq(Unit) /\ After(s, m + 1)
          /\ unsent = e \o s /\ Len(e) \in Nat \ {0}
      BY <2>1 DEF CutIn
    <2>3. m + 1 \in 1..Len(Script) /\ m + 1 \in 0..Len(Script)
      BY <1>2, <2>2, ScriptHas DEF ScriptIs
    <2>4. /\ \A u \in ToSet(e) : u[1] = q
          /\ \A u \in ToSet(s) : u[1] # q
          /\ Left(q) = ToSet(e) /\ ToSet(e) # {} /\ ToSet(e) # ToSet(Units(q))
      BY <1>2, <1>6, <2>1, <2>3, CutHas
    <2>5. ASSUME NEW j \in 1..Len(Script), j # m + 1
          PROVE  Left(Script[j]) \in {{}, ToSet(Units(Script[j]))}
      <3>1. j <= m \/ j > m + 1
        BY <1>2, <2>5
      <3> QED
        BY <1>2, <2>1, <3>1, CutHas
    <2>6. q \in ToSet(Script)
      BY <2>3, ServerAssumption DEF ServerAssumption, ToSet
    <2>7. Half = {q}
      BY <1>4, <2>4, <2>5, <2>6 DEF Half
    <2> HIDE DEF q
    <2>8. cut = 1..Len(e)
      <3>1. Joined(unsent, e, s)
        BY <2>2, JoinedIs
      <3>2. DOMAIN unsent = 1..Len(unsent) /\ Len(unsent) \in Nat /\ Len(s) \in Nat
        BY <1>2, <2>2
      <3>3. ASSUME NEW i \in 1..Len(e) PROVE i \in DOMAIN unsent /\ unsent[i][1] = q
        <4>1. i \in 1..Len(unsent)
          BY <2>2, <3>1, <3>2 DEF Joined
        <4>2. e[i] \in ToSet(e)
          BY <2>2 DEF ToSet
        <4> QED
          BY <2>4, <3>1, <3>2, <4>1, <4>2 DEF Joined
      <3>4. ASSUME NEW i \in 1..Len(unsent), ~ (i \in 1..Len(e)) PROVE unsent[i][1] # q
        <4>1. \E k \in 1..Len(s) : i = Len(e) + k
          <5>1. i - Len(e) \in 1..Len(s) /\ i = Len(e) + (i - Len(e))
            BY <2>2, <3>1, <3>2, <3>4 DEF Joined
          <5> QED
            BY <5>1
        <4>2. PICK k \in 1..Len(s) : i = Len(e) + k
          BY <4>1
        <4>3. s[k] \in ToSet(s)
          BY <2>2 DEF ToSet
        <4> QED
          BY <2>4, <3>1, <4>2, <4>3 DEF Joined
      <3> QED
        BY <2>7, <3>2, <3>3, <3>4
    <2>9. Cardinality(cut) = Len(e)
      <3>1. 1 \in Int /\ Len(e) \in Int /\ Len(e) > 0
        BY <2>2
      <3> DEFINE x == Len(e)
      <3>2. Cardinality(1..x) = x
        <4> HIDE DEF x
        <4>1. x \in Int /\ x > 0
          BY <3>1 DEF x
        <4>2. Cardinality(1..x) = x - 1 + 1
          BY <4>1, FS_Interval
        <4> QED
          BY <4>1, <4>2
      <3> QED
        BY <2>8, <3>2
    <2>10. unsent' = s
      <3>1. Joined(unsent, e, s)
        BY <2>2, JoinedIs
      <3>2. SubSeq(unsent, Len(e) + 1, Len(unsent)) = s
        BY <1>2, <2>2, <3>1, EndIs DEF Joined
      <3> QED
        BY <1>1, <2>9, <3>2, Zenon
    <2>11. Pipe' = s
      <3>1. <<>> \o s = s
        BY <2>2
      <3> QED
        BY <1>1, <2>10, <3>1, Zenon DEF Pipe
    <2>12. \A i \in 1..(m + 1) : call'[Script[i]].pc # "none" \/ Script[i] \in lost'
      <3>1. \A i \in 1..(m + 1) : i \in 1..m \/ i = m + 1
        BY <1>2
      <3>2. Script[m + 1] \in lost'
        BY <1>1, <2>7 DEF q
      <3> QED
        BY <1>3, <3>1, <3>2
    <2>13. UpTo(m + 1)'
      BY <1>1, <2>2, <2>11, <2>12 DEF UpTo
    <2> QED
      BY <2>3, <2>13 DEF InStep
  <1> QED
    BY <1>5, <1>6

-----------------------------------------------------------------------------
(* None is left lying.                                                     *)

LEMMA StreamInStep ==
  ASSUME Ascii, IInv, InStep, [Next]_vars
  PROVE  InStep' /\ misread' = misread
  <1>0. TypeOK /\ OnceInv /\ StepsInv
    BY DEF IInv
  <1>1. PICK m \in 0..Len(Script) : UpTo(m)
    BY DEF InStep
  <1>2. ASSUME NEW n \in 1..MaxChunk, Arrive(n)
        PROVE  InStep' /\ misread' = misread
    BY <1>0, <1>1, <1>2, ArriveInStep
  <1>3. CASE Crash
    <2>1. misread' = misread
      BY <1>3 DEF Crash, Restart
    <2> QED
      BY <1>0, <1>1, <1>3, <2>1, CrashInStep
  <1>4. ASSUME buffer' = buffer, unsent' = unsent, lost' = lost, misread' = misread
        PROVE  InStep' /\ misread' = misread
    <2>1. ASSUME NEW i \in 1..m PROVE call'[Script[i]].pc # "none" \/ Script[i] \in lost'
      <3>1. Script[i] \in Request
        BY ScriptHas DEF ScriptIs
      <3>2. call[Script[i]].pc # "none" => call'[Script[i]].pc # "none"
        BY <3>1, CallsMove
      <3> QED
        BY <1>1, <1>4, <3>2 DEF UpTo
    <2>2. Pipe' = Pipe
      BY <1>4 DEF Pipe
    <2>3. UpTo(m)'
      BY <1>1, <1>4, <2>1, <2>2 DEF UpTo
    <2> QED
      BY <1>4, <2>3 DEF InStep
  <1>5. ASSUME NEW q \in Request, CallStep(q)
        PROVE  InStep' /\ misread' = misread
    <2>1. buffer' = buffer /\ unsent' = unsent /\ lost' = lost /\ misread' = misread
      BY <1>0, <1>5, CallStepEffect
    <2> QED
      BY <1>4, <2>1
  <1>6. CASE Tick \/ UNCHANGED vars
    <2>1. buffer' = buffer /\ unsent' = unsent /\ lost' = lost /\ misread' = misread
      BY <1>6 DEF Tick, vars, serverVars
    <2> QED
      BY <1>4, <2>1
  <1> QED
    BY <1>2, <1>3, <1>5, <1>6 DEF Next

LEMMA AnsweredInTimeStep ==
  ASSUME IInv, AnsweredInTime, [Next]_vars
  PROVE  AnsweredInTime'
  <1>0. TypeOK /\ OnceInv /\ StepsInv
    BY DEF IInv
  <1>1. answers \in [Request -> 0..1] /\ answers' \in [Request -> 0..1]
    BY TypeStep DEF IInv, TypeOK, ServerTypeOK
  <1>2. ASSUME NEW q \in Request, NEW n \in 1..MaxChunk, Arrive(n), call'[q].pc = "done", Body[q].id
        PROVE  answers'[q] = 1 \/ q \in lost'
    <2>1. /\ call' = [r \in Request |-> IF r \in Got(n) THEN NewCall(r) ELSE call[r]]
          /\ answers' = [r \in Request |-> IF r \in Got(n) /\ r \in AtOnce /\ Body[r].id THEN answers[r] + 1 ELSE answers[r]]
          /\ lost' = lost
      BY <1>0, <1>2, ArriveEffect
    <2>2. CASE q \in Got(n)
      <3>1. q \in AtOnce
        BY <1>0, <1>2, <2>1, <2>2, NewCallIs
      <3>2. answers'[q] = answers[q] + 1
        BY <1>2, <2>1, <2>2, <3>1
      <3> QED
        BY <1>1, <3>2
    <2>3. CASE q \notin Got(n)
      BY <1>2, <2>1, <2>3 DEF AnsweredInTime
    <2> QED
      BY <2>2, <2>3
  <1>3. ASSUME NEW q \in Request, NEW r \in Request, CallStep(r), call'[q].pc = "done", Body[q].id
        PROVE  answers'[q] = 1 \/ q \in lost'
    <2>1. /\ \A p \in Request : p # r => call'[p] = call[p]
          /\ lost' = lost
          /\ \/ answers' = answers /\ call'[r].pc # "done"
             \/ answers' = [answers EXCEPT ![r] = @ + 1]
      BY <1>0, <1>3, CallStepEffect
    <2>2. CASE q = r
      <3>1. answers'[q] = answers[q] + 1
        BY <1>1, <1>3, <2>1, <2>2
      <3> QED
        BY <1>1, <3>1
    <2>3. CASE q # r
      <3>1. answers'[q] = answers[q] /\ call'[q] = call[q]
        BY <1>1, <2>1, <2>3
      <3> QED
        BY <1>3, <2>1, <3>1 DEF AnsweredInTime
    <2> QED
      BY <2>2, <2>3
  <1>4. ASSUME NEW q \in Request, Crash, call'[q].pc = "done", Body[q].id
        PROVE  answers'[q] = 1 \/ q \in lost'
    <2>1. lost' = lost \cup Half \cup Pending /\ answers' = answers
      BY <1>4 DEF Crash, Restart
    <2>2. call'[q] = call[q] \/ q \in Pending
      BY <1>0, <1>4, CrashEffect DEF Pending
    <2> QED
      BY <1>4, <2>1, <2>2 DEF AnsweredInTime
  <1>5. CASE Tick \/ UNCHANGED vars
    BY <1>5 DEF Tick, vars, serverVars, AnsweredInTime
  <1> QED
    BY <1>2, <1>3, <1>4, <1>5 DEF Next, AnsweredInTime

\* In step, what has been written whole has been read.
LEMMA WholeAreRead ==
  ASSUME TypeOK, InStep, NEW q \in Whole
  PROVE  call[q].pc # "none" \/ q \in lost
  <1>1. PICK m \in 0..Len(Script) : UpTo(m)
    BY DEF InStep
  <1>2. buffer \in Seq(Unit) /\ unsent \in Seq(Unit) /\ m \in Nat
    BY TypeIs, ScriptHas DEF ScriptIs
  <1>3. PICK j \in 1..Len(Script) : q = Script[j]
    BY ServerAssumption DEF ServerAssumption, Whole, ToSet
  <1>4. j \in Nat /\ Script[j] \in Request
    BY ScriptHas DEF ScriptIs
  <1>5. Left(Script[j]) = {}
    BY <1>3 DEF Whole
  <1>6. CASE j <= m
    <2>1. j \in 1..m
      BY <1>2, <1>4, <1>6
    <2> QED
      BY <1>1, <1>3, <2>1 DEF UpTo
  <1>7. CASE ~ (j <= m) /\ buffer = <<>>
    <2>1. Pipe = unsent
      BY <1>2, <1>7 DEF Pipe
    <2>2. After(unsent, m)
      BY <1>1, <2>1 DEF UpTo
    <2>3. j > m
      BY <1>2, <1>4, <1>7
    <2>4. Of(unsent, Script[j]) = ToSet(Units(Script[j]))
      BY <2>2, <2>3, OfAfter
    <2>5. ToSet(Units(Script[j])) # {}
      BY <1>4, UnitsHave
    <2> QED
      BY <1>5, <2>4, <2>5 DEF Left, Of
  <1>8. CASE ~ (j <= m) /\ buffer # <<>>
    <2>1. PICK e, s : CutIn(m, e, s)
      BY <1>1, <1>2, <1>8, CutOff
    <2>2. j = m + 1 \/ j > m + 1
      BY <1>2, <1>4, <1>8
    <2> QED
      BY <1>2, <1>5, <2>1, <2>2, CutHas
  <1> QED
    BY <1>6, <1>7, <1>8

LEMMA StreamStarts ==
  ASSUME Init
  PROVE  InStep /\ AnsweredInTime
  <1>1. 0 \in 0..Len(Script)
    BY ScriptHas DEF ScriptIs
  <1>2. Stream \in Seq(Unit) /\ Written(0) = <<>>
    <2>1. Len(Script) \in 0..Len(Script)
      BY ScriptHas DEF ScriptIs
    <2> QED
      BY <2>1, UnitsIn, WrittenNext DEF Stream
  <1>3. After(Stream, 0)
    <2>1. <<>> \o Stream = Stream
      BY <1>2
    <2> QED
      BY <1>1, <1>2, <2>1, AfterOnly
  <1>4. buffer = <<>> /\ unsent = Stream
    BY DEF Init, ServerInit
  <1>5. Pipe = Stream
    BY <1>2, <1>4 DEF Pipe
  <1>6. \A i \in 1..0 : FALSE
    OBVIOUS
  <1>7. UpTo(0)
    BY <1>3, <1>4, <1>5, <1>6 DEF UpTo
  <1>8. AnsweredInTime
    <2>1. \A q \in Request : call[q].pc = "none"
      BY DEF Init, NoCall
    <2> QED
      BY <2>1 DEF AnsweredInTime
  <1> QED
    BY <1>1, <1>7, <1>8 DEF InStep

\* When every body has a byte to each character, no request is left lying: what has been
\* written whole has been dispatched unless a restart cut it off, and what is over has
\* been answered, however the stream was cut into chunks (handleData, server.ts:120-132).
THEOREM NothingLies == Ascii => (Spec => []NoneLeftLying)
  <1> SUFFICES ASSUME Ascii PROVE Spec => []NoneLeftLying
    OBVIOUS
  <1>1. Init => InStep /\ AnsweredInTime
    BY StreamStarts
  <1>2. IInv /\ InStep /\ AnsweredInTime /\ [Next]_vars => InStep' /\ AnsweredInTime'
    BY StreamInStep, AnsweredInTimeStep
  <1>3. IInv /\ InStep /\ AnsweredInTime => NoneLeftLying
    <2> SUFFICES ASSUME IInv, InStep, AnsweredInTime, NEW q \in Whole \ lost
                 PROVE  call[q].pc # "none" /\ (call[q].pc = "done" /\ Body[q].id => answers[q] = 1)
      BY DEF NoneLeftLying
    <2>1. q \in Request
      BY ServerAssumption DEF ServerAssumption, Whole, ToSet
    <2> QED
      BY <2>1, WholeAreRead DEF IInv, AnsweredInTime
  <1> QED
    BY <1>1, <1>2, <1>3, SharingInductive, PTL DEF Spec

\* And each is read as it was sent: no parse error is answered.
THEOREM ReadAsSent == Ascii => (Spec => []MessagesReadAsSent)
  <1> SUFFICES ASSUME Ascii PROVE Spec => []MessagesReadAsSent
    OBVIOUS
  <1>1. Init => InStep /\ MessagesReadAsSent
    BY StreamStarts DEF Init, ServerInit, MessagesReadAsSent
  <1>2. IInv /\ InStep /\ MessagesReadAsSent /\ [Next]_vars => InStep' /\ MessagesReadAsSent'
    BY StreamInStep DEF MessagesReadAsSent
  <1> QED
    BY <1>1, <1>2, SharingInductive, PTL DEF Spec
=============================================================================
