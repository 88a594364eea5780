--------------------------- MODULE DeliveryProofs ---------------------------
(***************************************************************************)
(* Replay protection proved for every set of blobs, messages and calls:    *)
(* DeliveryInv is inductive, so AtMostOnce and NothingBurnt hold in every  *)
(* reachable state, and receiveShare implements AcceptOnce.                *)
(***************************************************************************)
EXTENDS SealedDelivery, TLAPS

\* What a key belongs to: a claim of one blob consists of keys, and holds the
\* blob's own key and its identity.
LEMMA ClaimFacts ==
  ASSUME NEW b \in Blob
  PROVE  /\ MsgOf[b] \in Message
         /\ ClaimOf(b) \subseteq Key
         /\ NonceKey(b) \in Key
         /\ BlobKey(b) \in ClaimOf(b)
         /\ IdentityOf[b] \in ClaimOf(b)
  BY DeliveryAssumption DEF ClaimOf, Key, BlobKey, IdKey, NonceKey, IdentityOf

\* An ended call takes its own claims out of the in-flight set and no others.
LEMMA FinishKeepsClaims ==
  ASSUME TypeOK, CallsHaveBlobs, ClaimsMatchCalls,
         NEW t \in Task, Active(t), Finish(t)
  PROVE  /\ CallsHaveBlobs' /\ ClaimsMatchCalls'
         /\ inFlight' \subseteq Key
         /\ pc' \in [Task -> {"idle", "resolving", "resolved", "importing", "writing"}]
         /\ cur' \in [Task -> Blob \cup {NoBlob}]
         /\ trusted' \in [Task -> BOOLEAN]
         /\ snap' \in [Task -> SUBSET Message]
         /\ \A u \in Task : Active(u)' => u # t /\ pc'[u] = pc[u] /\ cur'[u] = cur[u]
  <1>1. \A u \in Task : u # t => pc'[u] = pc[u] /\ cur'[u] = cur[u]
    BY DEF Finish, TypeOK
  <1>2. pc'[t] = "idle" /\ cur'[t] = NoBlob
    BY DEF Finish, TypeOK
  <1>3. \A u \in Task : Active(u)' => u # t /\ Active(u)
    BY <1>1, <1>2 DEF Active
  <1>4. CallsHaveBlobs'
    BY <1>1, <1>2, DeliveryAssumption DEF CallsHaveBlobs, Active
  <1>5. ClaimsMatchCalls'
    <2>1. ASSUME NEW u \in Task, Active(u)'
          PROVE  ClaimOf(cur'[u]) \subseteq inFlight'
      <3>1. u # t /\ Active(u) /\ cur'[u] = cur[u]
        BY <1>1, <1>3, <2>1
      <3>2. ClaimOf(cur[u]) \cap ClaimOf(cur[t]) = {}
        BY <3>1 DEF ClaimsMatchCalls
      <3>3. ClaimOf(cur[u]) \subseteq inFlight
        BY <3>1 DEF ClaimsMatchCalls
      <3>4. QED
        BY <3>1, <3>2, <3>3 DEF Finish
    <2>2. ASSUME NEW k \in inFlight'
          PROVE  \E u \in Task : Active(u)' /\ k \in ClaimOf(cur'[u])
      <3>1. k \in inFlight /\ k \notin ClaimOf(cur[t])
        BY DEF Finish
      <3>2. PICK u \in Task : Active(u) /\ k \in ClaimOf(cur[u])
        BY <3>1 DEF ClaimsMatchCalls
      <3>3. u # t
        BY <3>1, <3>2
      <3>4. QED
        BY <3>2, <3>3, <1>1 DEF Active
    <2>3. ASSUME NEW u \in Task, NEW v \in Task, u # v, Active(u)', Active(v)'
          PROVE  ClaimOf(cur'[u]) \cap ClaimOf(cur'[v]) = {}
      BY <2>3, <1>1, <1>3 DEF ClaimsMatchCalls
    <2>4. (ClaimsMatchCalls)' <=>
            /\ \A u \in Task : Active(u)' => ClaimOf(cur'[u]) \subseteq inFlight'
            /\ \A k \in inFlight' : \E u \in Task : Active(u)' /\ k \in ClaimOf(cur'[u])
            /\ \A u, v \in Task :
                 u # v /\ Active(u)' /\ Active(v)' => ClaimOf(cur'[u]) \cap ClaimOf(cur'[v]) = {}
      BY DEF ClaimsMatchCalls, ClaimOf, BlobKey, IdKey
    <2>5. QED
      BY <2>1, <2>2, <2>3, <2>4
  <1>6. inFlight' \subseteq Key
    BY DEF Finish, TypeOK
  <1>7. /\ pc' \in [Task -> {"idle", "resolving", "resolved", "importing", "writing"}]
        /\ cur' \in [Task -> Blob \cup {NoBlob}]
        /\ trusted' \in [Task -> BOOLEAN]
        /\ snap' \in [Task -> SUBSET Message]
    BY DEF Finish, TypeOK
  <1>8. QED
    BY <1>1, <1>3, <1>4, <1>5, <1>6, <1>7

\* What a verified call marks belongs to it alone: no claim of another call that
\* has not verified yet reaches the ledger.
LEMMA MarksAreOwn ==
  ASSUME TypeOK, ClaimsMatchCalls, UnverifiedUnseen,
         NEW t \in Task, cur[t] \in Blob, Active(t),
         NEW marked, marked \subseteq ClaimOf(cur[t]) \cup {NonceKey(cur[t])},
         NEW u \in Task, u # t, pc[u] \in {"resolving", "resolved"}
  PROVE  ClaimOf(cur[u]) \cap (seen \cup marked) = {}
  <1>1. ClaimOf(cur[u]) \cap ClaimOf(cur[t]) = {}
    BY DEF ClaimsMatchCalls, Active
  <1>2. NonceKey(cur[t]) \notin ClaimOf(cur[u])
    BY DEF NonceKey, ClaimOf, BlobKey, IdKey
  <1>3. ClaimOf(cur[u]) \cap seen = {}
    BY DEF UnverifiedUnseen
  <1>4. QED
    BY <1>1, <1>2, <1>3

\* A call about to verify holds an identity nobody was accepted under.
LEMMA NothingAcceptedYet ==
  ASSUME AcceptedSeen, UnverifiedUnseen,
         NEW t \in Task, cur[t] \in Blob, pc[t] = "resolved",
         NEW c \in Blob, IdentityOf[c] = IdentityOf[cur[t]] \/ c = cur[t]
  PROVE  accepted[c] = 0
  <1>1. ClaimOf(cur[t]) \cap seen = {}
    BY DEF UnverifiedUnseen
  <1>2. IdentityOf[c] \in ClaimOf(c) /\ IdentityOf[c] \in ClaimOf(cur[t])
    BY ClaimFacts
  <1>3. QED
    BY <1>1, <1>2 DEF AcceptedSeen

LEMMA InitInv == Init => DeliveryInv
  <1> SUFFICES ASSUME Init PROVE DeliveryInv
    OBVIOUS
  <1>1. TypeOK
    BY DeliveryAssumption DEF Init, TypeOK
  <1>2. CallsHaveBlobs /\ ClaimsMatchCalls /\ UnverifiedUnseen
    BY DeliveryAssumption DEF Init, CallsHaveBlobs, ClaimsMatchCalls, UnverifiedUnseen, Active
  <1>3. AcceptedSeen /\ AtMostOnce
    BY DEF Init, AcceptedSeen, AtMostOnce
  <1>4. QED
    BY <1>1, <1>2, <1>3 DEF DeliveryInv

\* The steps that end a call without accepting its blob.  `marked` is what they
\* put into the ledger.
LEMMA EndedCall ==
  ASSUME DeliveryInv, NEW t \in Task, Active(t), Finish(t),
         NEW marked, marked \subseteq ClaimOf(cur[t]) \cup {NonceKey(cur[t])},
         seen' = seen \cup marked,
         UNCHANGED <<retired, now, accepted>>,
         store' \in [Record -> SUBSET Message],
         verified' \subseteq Blob, completed' \subseteq Blob
  PROVE  DeliveryInv'
  <1> USE DEF DeliveryInv
  <1>1. cur[t] \in Blob
    BY DEF CallsHaveBlobs
  <1>2. seen' \subseteq Key
    BY <1>1, ClaimFacts DEF TypeOK
  <1>3. TypeOK' /\ CallsHaveBlobs' /\ ClaimsMatchCalls'
    BY <1>2, FinishKeepsClaims DEF TypeOK, Key
  <1>4. UnverifiedUnseen'
    <2>1. ASSUME NEW u \in Task, pc'[u] \in {"resolving", "resolved"}
          PROVE  ClaimOf(cur'[u]) \cap seen' = {}
      <3>1. u # t /\ pc'[u] = pc[u] /\ cur'[u] = cur[u]
        BY <2>1, FinishKeepsClaims DEF Active
      <3>2. QED
        BY <2>1, <3>1, <1>1, MarksAreOwn
    <2>2. QED
      BY <2>1 DEF UnverifiedUnseen, ClaimOf, BlobKey, IdKey
  <1>5. AcceptedSeen' /\ AtMostOnce'
    BY DEF AcceptedSeen, AtMostOnce, ClaimOf, BlobKey, IdKey, IdentityOf
  <1>6. QED
    BY <1>3, <1>4, <1>5

\* A verified call that is handed on: it marks its keys, and its blob is the
\* first of its identity to be accepted.
LEMMA AcceptedCall ==
  ASSUME DeliveryInv, NEW t \in Task, pc[t] = "resolved", MarkAll(cur[t]),
         accepted' = [accepted EXCEPT ![cur[t]] = @ + 1]
  PROVE  /\ AcceptedSeen' /\ AtMostOnce'
         /\ seen' \subseteq Key /\ accepted' \in [Blob -> Nat]
         /\ accepted' = [accepted EXCEPT ![cur[t]] = 1]
         /\ \A c \in Blob : IdentityOf[c] = IdentityOf[cur[t]] => accepted[c] = 0
  <1> USE DEF DeliveryInv
  <1>1. cur[t] \in Blob
    BY DEF CallsHaveBlobs, Active
  <1>2. \A c \in Blob : IdentityOf[c] = IdentityOf[cur[t]] \/ c = cur[t] => accepted[c] = 0
    BY <1>1, NothingAcceptedYet
  <1>3. accepted' = [accepted EXCEPT ![cur[t]] = 1]
    <2>1. accepted[cur[t]] + 1 = 1
      BY <1>1, <1>2
    <2>2. QED
      BY <2>1
  <1>4. ClaimOf(cur[t]) \subseteq seen' /\ seen \subseteq seen'
    BY DEF MarkAll
  <1>5. AcceptedSeen'
    <2>1. ASSUME NEW b \in Blob, accepted'[b] # 0
          PROVE  accepted'[b] = 1 /\ ClaimOf(b) \subseteq seen'
      BY <1>1, <1>3, <1>4, <2>1 DEF AcceptedSeen, TypeOK
    <2>2. QED
      BY <2>1 DEF AcceptedSeen, ClaimOf, BlobKey, IdKey
  <1>6. AtMostOnce'
    <2>1. ASSUME NEW b \in Blob, NEW c \in Blob
          PROVE  /\ accepted'[b] <= 1
                 /\ b # c /\ IdentityOf[b] = IdentityOf[c] => accepted'[b] = 0 \/ accepted'[c] = 0
      BY <1>1, <1>2, <1>3 DEF AtMostOnce, TypeOK
    <2>2. QED
      BY <2>1 DEF AtMostOnce, IdentityOf, BlobKey, IdKey
  <1>7. seen' \subseteq Key
    BY <1>1, ClaimFacts DEF MarkAll, TypeOK
  <1>8. accepted' \in [Blob -> Nat]
    BY <1>1, <1>3 DEF TypeOK
  <1>9. QED
    BY <1>2, <1>3, <1>5, <1>6, <1>7, <1>8

LEMMA StepInv == ASSUME DeliveryInv, NEW t \in Task, Step(t) PROVE DeliveryInv'
  <1> USE DEF DeliveryInv
  <1> DEFINE Ended(marked) ==
        /\ Active(t) /\ Finish(t)
        /\ marked \subseteq ClaimOf(cur[t]) \cup {NonceKey(cur[t])}
        /\ seen' = seen \cup marked
        /\ UNCHANGED <<retired, now, accepted>>
        /\ store' \in [Record -> SUBSET Message]
        /\ verified' \subseteq Blob
        /\ completed' \subseteq Blob
  <1>0. Active(t) => cur[t] \in Blob
    BY DEF CallsHaveBlobs
  <1>1. CASE Resolve(t)
    <2>1. TypeOK'
      BY <1>1 DEF Resolve, Goto, history, TypeOK, Key
    <2>2. CallsHaveBlobs' /\ ClaimsMatchCalls' /\ UnverifiedUnseen'
      BY <1>1 DEF Resolve, Goto, history, TypeOK, CallsHaveBlobs, ClaimsMatchCalls,
                  UnverifiedUnseen, Active, ClaimOf, BlobKey, IdKey
    <2>3. AcceptedSeen' /\ AtMostOnce'
      BY <1>1 DEF Resolve, history, AcceptedSeen, AtMostOnce, ClaimOf, BlobKey, IdKey, IdentityOf
    <2>4. QED
      BY <2>1, <2>2, <2>3
  <1>2. CASE ResolveFails(t) \/ VerifyFails(t) \/ ImportFails(t)
    <2>1. Ended({})
      BY <1>2 DEF ResolveFails, VerifyFails, ImportFails, Active, history, TypeOK
    <2>2. QED
      BY <2>1, EndedCall
  <1>3. CASE VerifiedButUntrusted(t)
    <2>1. Ended(ClaimOf(cur[t]) \cup {NonceKey(cur[t])})
      BY <1>0, <1>3 DEF VerifiedButUntrusted, MarkAll, Active, TypeOK
    <2>2. QED
      BY <2>1, EndedCall
  <1>4. CASE MarkFails(t)
    <2>1. PICK marked \in {{}, {BlobKey(cur[t])}, ClaimOf(cur[t])} : seen' = seen \cup marked
      BY <1>4 DEF MarkFails
    <2>2. Ended(marked)
      BY <1>0, <1>4, <2>1, ClaimFacts DEF MarkFails, Active, TypeOK
    <2>3. QED
      BY <2>2, EndedCall
  <1>5. CASE PutRecord(t)
    <2>1. RecordOf[MsgOf[cur[t]]] \in Record /\ MsgOf[cur[t]] \in Message
      BY <1>0, <1>5, DeliveryAssumption DEF PutRecord, Active
    <2>2. WriteBack(t) \subseteq Message
      BY <2>1 DEF WriteBack, TypeOK
    <2>3. store' \in [Record -> SUBSET Message]
      BY <1>5, <2>1, <2>2 DEF PutRecord, TypeOK
    <2>4. Ended({})
      BY <1>0, <1>5, <2>3 DEF PutRecord, Active, TypeOK
    <2>5. QED
      BY <2>4, EndedCall
  <1>6. CASE AcceptMessage(t)
    <2>1. pc[t] = "resolved" /\ Active(t) /\ Finish(t) /\ MarkAll(cur[t])
      BY <1>6 DEF AcceptMessage, Active
    <2>2. /\ AcceptedSeen' /\ AtMostOnce'
          /\ seen' \subseteq Key /\ accepted' \in [Blob -> Nat]
      BY <1>6, <2>1, AcceptedCall DEF AcceptMessage
    <2>3. TypeOK' /\ CallsHaveBlobs' /\ ClaimsMatchCalls'
      BY <1>0, <1>6, <2>1, <2>2, FinishKeepsClaims DEF AcceptMessage, TypeOK, Key
    <2>4. UnverifiedUnseen'
      <3>1. ASSUME NEW u \in Task, pc'[u] \in {"resolving", "resolved"}
            PROVE  ClaimOf(cur'[u]) \cap seen' = {}
        <4>1. u # t /\ pc'[u] = pc[u] /\ cur'[u] = cur[u]
          BY <2>1, <3>1, FinishKeepsClaims DEF Active
        <4>2. ClaimOf(cur[u]) \cap (seen \cup (ClaimOf(cur[t]) \cup {NonceKey(cur[t])})) = {}
          BY <1>0, <2>1, <3>1, <4>1, MarksAreOwn
        <4>3. QED
          BY <2>1, <4>1, <4>2 DEF MarkAll
      <3>2. QED
        BY <3>1 DEF UnverifiedUnseen, ClaimOf, BlobKey, IdKey
    <2>5. QED
      BY <2>2, <2>3, <2>4
  <1>7. CASE AcceptShare(t)
    <2>1. pc[t] = "resolved" /\ Active(t) /\ MarkAll(cur[t])
      BY <1>7 DEF AcceptShare, Active
    <2>2. /\ AcceptedSeen' /\ AtMostOnce'
          /\ seen' \subseteq Key /\ accepted' \in [Blob -> Nat]
      BY <1>7, <2>1, AcceptedCall DEF AcceptShare
    <2>3. TypeOK'
      BY <1>0, <1>7, <2>1, <2>2 DEF AcceptShare, Goto, TypeOK, Key
    <2>4. CallsHaveBlobs' /\ ClaimsMatchCalls'
      BY <1>7 DEF AcceptShare, Goto, TypeOK, CallsHaveBlobs, ClaimsMatchCalls,
                  Active, ClaimOf, BlobKey, IdKey
    <2>5. UnverifiedUnseen'
      <3>1. ASSUME NEW u \in Task, pc'[u] \in {"resolving", "resolved"}
            PROVE  ClaimOf(cur'[u]) \cap seen' = {}
        <4>1. u # t /\ pc'[u] = pc[u] /\ cur'[u] = cur[u]
          BY <1>7, <3>1 DEF AcceptShare, Goto, TypeOK
        <4>2. ClaimOf(cur[u]) \cap (seen \cup (ClaimOf(cur[t]) \cup {NonceKey(cur[t])})) = {}
          BY <1>0, <2>1, <3>1, <4>1, MarksAreOwn
        <4>3. QED
          BY <2>1, <4>1, <4>2 DEF MarkAll
      <3>2. QED
        BY <3>1 DEF UnverifiedUnseen, ClaimOf, BlobKey, IdKey
    <2>6. QED
      BY <2>2, <2>3, <2>4, <2>5
  <1>8. CASE ReadRecord(t)
    <2>1. RecordOf[MsgOf[cur[t]]] \in Record
      BY <1>0, <1>8, DeliveryAssumption DEF ReadRecord, Active
    <2>2. TypeOK'
      BY <1>8, <2>1 DEF ReadRecord, Goto, history, TypeOK, Key
    <2>3. CallsHaveBlobs' /\ ClaimsMatchCalls' /\ UnverifiedUnseen'
      BY <1>8 DEF ReadRecord, Goto, history, TypeOK, CallsHaveBlobs, ClaimsMatchCalls,
                  UnverifiedUnseen, Active, ClaimOf, BlobKey, IdKey
    <2>4. AcceptedSeen' /\ AtMostOnce'
      BY <1>8 DEF ReadRecord, history, AcceptedSeen, AtMostOnce, ClaimOf, BlobKey, IdKey, IdentityOf
    <2>5. QED
      BY <2>2, <2>3, <2>4
  <1>9. QED
    BY <1>1, <1>2, <1>3, <1>4, <1>5, <1>6, <1>7, <1>8 DEF Step

LEMMA ReceiveInv ==
  ASSUME DeliveryInv, NEW t \in Task, NEW b \in Blob, Receive(t, b)
  PROVE  DeliveryInv'
  <1> USE DEF DeliveryInv
  <1>1. /\ cur' = [cur EXCEPT ![t] = b]
        /\ pc' = [pc EXCEPT ![t] = "resolving"]
        /\ inFlight' = inFlight \cup ClaimOf(b)
        /\ seen' = seen
        /\ pc[t] = "idle"
        /\ \E floor \in BOOLEAN : trusted' = [trusted EXCEPT ![t] = floor]
    BY DEF Receive, Active
  <1>2. ClaimOf(b) \cap inFlight = {} /\ ClaimOf(b) \cap seen = {}
    BY DEF Receive, NotSeen, NotInFlight
  <1>3. cur'[t] = b /\ pc'[t] = "resolving" /\ Active(t)'
    BY <1>1 DEF TypeOK, Active
  <1>4. \A u \in Task : u # t => cur'[u] = cur[u] /\ pc'[u] = pc[u] /\ (Active(u)' <=> Active(u))
    BY <1>1 DEF TypeOK, Active
  <1>5. TypeOK'
    BY <1>1, ClaimFacts DEF Receive, TypeOK, history, Key
  <1>6. CallsHaveBlobs'
    BY <1>3, <1>4 DEF CallsHaveBlobs
  <1>7. ClaimsMatchCalls'
    <2>1. \A u \in Task : Active(u)' => ClaimOf(cur'[u]) \subseteq inFlight'
      BY <1>1, <1>3, <1>4 DEF ClaimsMatchCalls
    <2>2. \A k \in inFlight' : \E u \in Task : Active(u)' /\ k \in ClaimOf(cur'[u])
      <3>1. ASSUME NEW k \in inFlight, k \notin ClaimOf(b)
            PROVE  \E u \in Task : Active(u)' /\ k \in ClaimOf(cur'[u])
        <4>1. PICK u \in Task : Active(u) /\ k \in ClaimOf(cur[u])
          BY DEF ClaimsMatchCalls
        <4>2. u # t
          BY <4>1, <1>1 DEF Active
        <4>3. QED
          BY <4>1, <4>2, <1>4
      <3>2. QED
        BY <1>1, <1>3, <3>1
    <2>3. ASSUME NEW u \in Task, NEW v \in Task, u # v, Active(u)', Active(v)'
          PROVE  ClaimOf(cur'[u]) \cap ClaimOf(cur'[v]) = {}
      <3>1. \A w \in Task : w # t /\ Active(w)' => ClaimOf(cur'[w]) \subseteq inFlight
        BY <1>4 DEF ClaimsMatchCalls
      <3>2. CASE u = t
        BY <2>3, <3>1, <3>2, <1>2, <1>3
      <3>3. CASE v = t
        BY <2>3, <3>1, <3>3, <1>2, <1>3
      <3>4. CASE u # t /\ v # t
        BY <2>3, <3>4, <1>4 DEF ClaimsMatchCalls
      <3>5. QED
        BY <3>2, <3>3, <3>4
    <2>4. QED
      BY <2>1, <2>2, <2>3 DEF ClaimsMatchCalls, ClaimOf, BlobKey, IdKey
  <1>8. UnverifiedUnseen'
    <2>1. ASSUME NEW u \in Task, pc'[u] \in {"resolving", "resolved"}
          PROVE  ClaimOf(cur'[u]) \cap seen' = {}
      BY <2>1, <1>1, <1>2, <1>3, <1>4 DEF UnverifiedUnseen
    <2>2. QED
      BY <2>1 DEF UnverifiedUnseen, ClaimOf, BlobKey, IdKey
  <1>9. AcceptedSeen' /\ AtMostOnce'
    BY DEF Receive, history, AcceptedSeen, AtMostOnce, ClaimOf, BlobKey, IdKey, IdentityOf
  <1>10. QED
    BY <1>5, <1>6, <1>7, <1>8, <1>9

LEMMA NextInv == DeliveryInv /\ [Next]_vars => DeliveryInv'
  <1> SUFFICES ASSUME DeliveryInv, [Next]_vars PROVE DeliveryInv'
    OBVIOUS
  <1> USE DEF DeliveryInv
  <1>1. CASE \E t \in Task, b \in Blob : Receive(t, b)
    BY <1>1, ReceiveInv
  <1>2. CASE \E t \in Task : Step(t)
    BY <1>2, StepInv
  <1>3. CASE \E d \in Did : Retire(d)
    <2>1. TypeOK' /\ CallsHaveBlobs'
      BY <1>3 DEF Retire, history, TypeOK, Key, CallsHaveBlobs, Active
    <2>2. ClaimsMatchCalls' /\ UnverifiedUnseen' /\ AcceptedSeen' /\ AtMostOnce'
      BY <1>3 DEF Retire, history, ClaimsMatchCalls, UnverifiedUnseen, AcceptedSeen,
                  AtMostOnce, Active, ClaimOf, BlobKey, IdKey, IdentityOf
    <2>3. QED
      BY <2>1, <2>2
  <1>4. CASE Crash
    <2>1. TypeOK' /\ CallsHaveBlobs'
      BY <1>4, DeliveryAssumption DEF Crash, history, TypeOK, Key, CallsHaveBlobs, Active
    <2>2. ClaimsMatchCalls' /\ UnverifiedUnseen'
      BY <1>4 DEF Crash, ClaimsMatchCalls, UnverifiedUnseen, Active, ClaimOf, BlobKey, IdKey
    <2>3. AcceptedSeen' /\ AtMostOnce'
      BY <1>4 DEF Crash, history, AcceptedSeen, AtMostOnce, ClaimOf, BlobKey, IdKey, IdentityOf
    <2>4. QED
      BY <2>1, <2>2, <2>3
  <1>5. CASE UNCHANGED vars
    <2>1. TypeOK' /\ CallsHaveBlobs'
      BY <1>5 DEF vars, TypeOK, Key, CallsHaveBlobs, Active
    <2>2. ClaimsMatchCalls' /\ UnverifiedUnseen' /\ AcceptedSeen' /\ AtMostOnce'
      BY <1>5 DEF vars, ClaimsMatchCalls, UnverifiedUnseen, AcceptedSeen, AtMostOnce,
                  Active, ClaimOf, BlobKey, IdKey, IdentityOf
    <2>3. QED
      BY <2>1, <2>2
  <1>6. CASE Tick
    <2>1. TypeOK' /\ CallsHaveBlobs'
      BY <1>6, DeliveryAssumption DEF Tick, history, TypeOK, Key, CallsHaveBlobs, Active
    <2>2. ClaimsMatchCalls' /\ UnverifiedUnseen' /\ AcceptedSeen' /\ AtMostOnce'
      BY <1>6 DEF Tick, history, ClaimsMatchCalls, UnverifiedUnseen, AcceptedSeen,
                  AtMostOnce, Active, ClaimOf, BlobKey, IdKey, IdentityOf
    <2>3. QED
      BY <2>1, <2>2
  <1>7. QED
    BY <1>1, <1>2, <1>3, <1>4, <1>5, <1>6 DEF Next

-----------------------------------------------------------------------------
\* DeliveryInv is inductive: in every reachable state the claims of a call that
\* has not verified yet are its own and are not in the ledger (receiveShare).
THEOREM InductiveInvariant == Spec => []DeliveryInv
  BY InitInv, NextInv, PTL DEF Spec

\* Replay protection for any number of blobs, messages and parallel calls: a
\* delivery identity is accepted at most once (receiveShare's doc comment).
THEOREM ReplayProtection == Spec => []AtMostOnce
  <1>1. DeliveryInv => AtMostOnce
    BY DEF DeliveryInv
  <1>2. QED
    BY <1>1, InductiveInvariant, PTL

\* Every variable of receiveShare's model keeps its type.
THEOREM TypeCorrect == Spec => []TypeOK
  <1>1. DeliveryInv => TypeOK
    BY DEF DeliveryInv
  <1>2. QED
    BY <1>1, InductiveInvariant, PTL

\* Only a delivery whose signature verified puts a key into the durable ledger,
\* so a failure before that, or a forged blob, never burns a message.
THEOREM FailuresBurnNothing == Spec => []NothingBurnt
  <1>1. Init => NothingBurnt
    BY DEF Init, NothingBurnt
  <1>2. DeliveryInv /\ NothingBurnt /\ [Next]_vars => NothingBurnt'
    <2> SUFFICES ASSUME DeliveryInv, NothingBurnt, [Next]_vars PROVE NothingBurnt'
      OBVIOUS
    <2>1. ASSUME UNCHANGED <<seen, verified>> PROVE NothingBurnt'
      BY <2>1 DEF NothingBurnt, ClaimOf, BlobKey, IdKey, NonceKey
    <2>2. ASSUME NEW b \in Blob, b \in Genuine, verified' = verified \cup {b},
                 NEW marked, marked \subseteq ClaimOf(b) \cup {NonceKey(b)},
                 seen' = seen \cup marked
          PROVE  NothingBurnt'
      <3>1. verified' \subseteq Genuine
        BY <2>2 DEF NothingBurnt
      <3>2. ASSUME NEW k \in seen'
            PROVE  \E c \in verified' : k \in ClaimOf(c) \cup {NonceKey(c)}
        BY <2>2 DEF NothingBurnt
      <3>3. QED
        BY <3>1, <3>2 DEF NothingBurnt, ClaimOf, BlobKey, IdKey, NonceKey
    <2>3. ASSUME NEW t \in Task, NEW b \in Blob, Receive(t, b) PROVE NothingBurnt'
      BY <2>1, <2>3 DEF Receive, history
    <2>4. ASSUME NEW t \in Task, Step(t) PROVE NothingBurnt'
      <3>1. CASE Resolve(t) \/ ResolveFails(t) \/ VerifyFails(t) \/ ReadRecord(t)
                   \/ PutRecord(t) \/ ImportFails(t)
        BY <2>1, <3>1 DEF Resolve, ResolveFails, VerifyFails, ReadRecord, PutRecord,
                          ImportFails, history
      <3>2. CASE VerifiedButUntrusted(t) \/ AcceptMessage(t) \/ AcceptShare(t) \/ MarkFails(t)
        <4>1. pc[t] = "resolved" /\ cur[t] \in Genuine /\ verified' = verified \cup {cur[t]}
          BY <3>2 DEF VerifiedButUntrusted, AcceptMessage, AcceptShare, MarkFails
        <4>2. cur[t] \in Blob
          BY <4>1 DEF DeliveryInv, CallsHaveBlobs, Active
        <4>3. BlobKey(cur[t]) \in ClaimOf(cur[t])
          BY <4>2, ClaimFacts
        <4>4. \E marked \in SUBSET (ClaimOf(cur[t]) \cup {NonceKey(cur[t])}) : seen' = seen \cup marked
          <5>1. CASE MarkFails(t)
            <6>1. PICK marked \in {{}, {BlobKey(cur[t])}, ClaimOf(cur[t])} : seen' = seen \cup marked
              BY <5>1 DEF MarkFails
            <6>2. marked \in SUBSET (ClaimOf(cur[t]) \cup {NonceKey(cur[t])})
              BY <6>1, <4>3
            <6>3. QED
              BY <6>1, <6>2
          <5>2. CASE VerifiedButUntrusted(t) \/ AcceptMessage(t) \/ AcceptShare(t)
            <6>1. seen' = seen \cup (ClaimOf(cur[t]) \cup {NonceKey(cur[t])})
              BY <5>2 DEF VerifiedButUntrusted, AcceptMessage, AcceptShare, MarkAll
            <6>2. QED
              BY <6>1
          <5>3. QED
            BY <3>2, <5>1, <5>2
        <4>5. QED
          BY <2>2, <4>1, <4>2, <4>4
      <3>3. QED
        BY <2>4, <3>1, <3>2 DEF Step
    <2>5. ASSUME NEW d \in Did, Retire(d) PROVE NothingBurnt'
      BY <2>1, <2>5 DEF Retire, history
    <2>6. CASE Crash
      BY <2>1, <2>6 DEF Crash, history
    <2>7. CASE Tick
      BY <2>1, <2>7 DEF Tick, history
    <2>8. CASE UNCHANGED vars
      BY <2>1, <2>8 DEF vars
    <2>9. QED
      BY <2>3, <2>4, <2>5, <2>6, <2>7, <2>8 DEF Next
  <1>3. QED
    BY <1>1, <1>2, InductiveInvariant, PTL DEF Spec

\* receiveShare implements AcceptOnce: each of its steps accepts one blob whose
\* identity was never accepted, or accepts nothing.
THEOREM Refinement == Spec => ImplementsAcceptOnce
  <1>1. Init => Abstract!Init
    BY DEF Init, Abstract!Init
  <1>2. DeliveryInv /\ [Next]_vars => [Abstract!Next]_accepted
    <2> SUFFICES ASSUME DeliveryInv, [Next]_vars
                 PROVE  Abstract!Next \/ UNCHANGED accepted
      BY DEF Abstract!Next
    <2>1. ASSUME NEW t \in Task, AcceptMessage(t) \/ AcceptShare(t)
          PROVE  Abstract!Next
      <3>1. /\ pc[t] = "resolved" /\ MarkAll(cur[t])
            /\ accepted' = [accepted EXCEPT ![cur[t]] = @ + 1]
        BY <2>1 DEF AcceptMessage, AcceptShare
      <3>2. cur[t] \in Blob
        BY <3>1 DEF DeliveryInv, CallsHaveBlobs, Active
      <3>3. Abstract!Accept(cur[t])
        BY <3>1, AcceptedCall DEF Abstract!Accept
      <3>4. QED
        BY <3>2, <3>3 DEF Abstract!Next
    <2>2. ASSUME NEW t \in Task, Step(t), ~ (AcceptMessage(t) \/ AcceptShare(t))
          PROVE  UNCHANGED accepted
      BY <2>2 DEF Step, Resolve, ResolveFails, VerifyFails, VerifiedButUntrusted,
                  MarkFails, ReadRecord, PutRecord, ImportFails, history
    <2>3. ASSUME NEW t \in Task, NEW b \in Blob, Receive(t, b) PROVE UNCHANGED accepted
      BY <2>3 DEF Receive, history
    <2>4. CASE (\E d \in Did : Retire(d)) \/ Crash \/ Tick \/ UNCHANGED vars
      BY <2>4 DEF Retire, Crash, Tick, history, vars
    <2>5. QED
      BY <2>1, <2>2, <2>3, <2>4 DEF Next
  <1>3. QED
    BY <1>1, <1>2, InductiveInvariant, PTL DEF Spec, ImplementsAcceptOnce, Abstract!Spec

-----------------------------------------------------------------------------
(* Who a message was written to.  Every call works on an admitted blob, and *)
(* hands on only what has verified.                                         *)

CallsAdmitted  == \A t \in Task : Active(t) => cur[t] \in Admitted
AcceptedPassed == \A b \in Blob : accepted[b] # 0 => b \in Admitted \cap Genuine

PassedInv == CallsAdmitted /\ AcceptedPassed

\* A call that ends, or waits on, takes no other blob.
LEMMA PassedStep ==
  ASSUME TypeOK, CallsHaveBlobs, PassedInv, NEW t \in Task, Step(t)
  PROVE  PassedInv'
  <1> USE DEF PassedInv
  <1>1. CallsAdmitted'
    <2> SUFFICES ASSUME NEW u \in Task, Active(u)' PROVE cur'[u] \in Admitted
      BY DEF CallsAdmitted
    <2>1. Active(u) /\ cur'[u] = cur[u]
      BY DEF Step, Resolve, ResolveFails, VerifyFails, VerifiedButUntrusted, AcceptMessage, AcceptShare,
             MarkFails, ReadRecord, PutRecord, ImportFails, Finish, Goto, Active, TypeOK
    <2> QED
      BY <2>1 DEF CallsAdmitted
  <1>2. accepted' = accepted \/ (pc[t] = "resolved" /\ cur[t] \in Genuine /\ accepted' = [accepted EXCEPT ![cur[t]] = @ + 1])
    BY DEF Step, Resolve, ResolveFails, VerifyFails, VerifiedButUntrusted, AcceptMessage, AcceptShare,
           MarkFails, ReadRecord, PutRecord, ImportFails, history
  <1>3. AcceptedPassed'
    <2>1. CASE accepted' = accepted
      BY <2>1 DEF AcceptedPassed
    <2>2. CASE pc[t] = "resolved" /\ cur[t] \in Genuine /\ accepted' = [accepted EXCEPT ![cur[t]] = @ + 1]
      <3>1. cur[t] \in Admitted
        BY <2>2 DEF CallsAdmitted, Active
      <3> QED
        BY <2>2, <3>1 DEF AcceptedPassed, TypeOK
    <2> QED
      BY <1>2, <2>1, <2>2
  <1> QED
    BY <1>1, <1>3

LEMMA PassedNext == DeliveryInv /\ PassedInv /\ [Next]_vars => PassedInv'
  <1> SUFFICES ASSUME DeliveryInv, PassedInv, [Next]_vars PROVE PassedInv'
    OBVIOUS
  <1> USE DEF PassedInv
  <1>0. TypeOK /\ CallsHaveBlobs
    BY DEF DeliveryInv
  <1>1. CASE \E t \in Task, b \in Blob : Receive(t, b)
    BY <1>0, <1>1 DEF Receive, history, CallsAdmitted, AcceptedPassed, Active, TypeOK
  <1>2. CASE \E t \in Task : Step(t)
    BY <1>0, <1>2, PassedStep
  <1>3. CASE \E d \in Did : Retire(d)
    BY <1>3 DEF Retire, history, CallsAdmitted, AcceptedPassed, Active
  <1>4. CASE Crash
    BY <1>4 DEF Crash, history, CallsAdmitted, AcceptedPassed, Active
  <1>5. CASE Tick \/ UNCHANGED vars
    BY <1>5 DEF Tick, vars, history, CallsAdmitted, AcceptedPassed, Active
  <1> QED
    BY <1>1, <1>2, <1>3, <1>4, <1>5 DEF Next

\* What opens, verifies and carries the right binding was sealed for this agent: the
\* proof is over the envelope in hand, which the signer wrote.
LEMMA PassedIsAddressed == ASSUME AcceptedPassed PROVE AddressedHere
  <1> SUFFICES ASSUME NEW b \in Blob, accepted[b] # 0
               PROVE  LET e == Sealed[b].envelope IN
                        \/ e \in Plain /\ ~ e.delegated
                        \/ \E x \in Sent : /\ e = Letter(x) /\ x.from = e.from
                                           /\ x.to = Self /\ x.kind = Sealed[b].kind
    BY DEF AddressedHere
  <1> DEFINE e == Sealed[b].envelope
             p == Sealed[b].proof
  <1>1. b \in Admitted /\ b \in Genuine
    BY DEF AcceptedPassed
  <1>2. BindingHolds(Sealed[b], Self)
    BY <1>1, SealedAssumption
  <1>3. p.signer = e.from /\ p.key = KeyOf[e.from] /\ p.over = e
    BY <1>1, SealedAssumption DEF Verifies, SignatureHolds
  <1>4. e \in Plain \cup {Letter(x) : x \in Sent}
    BY <1>3, SealedAssumption
  <1>5. CASE e \in Plain
    <2>1. e.binding = {}
      BY <1>5, SealedAssumption
    <2>2. ~ e.delegated
      BY <1>2, <2>1 DEF BindingHolds
    <2> QED
      BY <1>5, <2>2
  <1>6. ASSUME NEW x \in Sent, e = Letter(x)
        PROVE  x.from = e.from /\ x.to = Self /\ x.kind = Sealed[b].kind
    <2>1. e.from = x.from /\ e.binding = {[to |-> x.to, kind |-> x.kind, id |-> x.id]}
      BY <1>6 DEF Letter, Stamp, Prepare
    <2>2. \A y \in e.binding : y.to = Self /\ y.kind = Sealed[b].kind
      BY <1>2, <2>1 DEF BindingHolds
    <2> QED
      BY <2>1, <2>2
  <1> QED
    BY <1>4, <1>5, <1>6

\* Of the messages that peers seal for anybody, in any number, under any kind and
\* sealed again by whomever, only those written to this agent are accepted, as the
\* kind they were written as; without a binding only an older peer's, and never a
\* delegated command (openAndVerify of sealed-envelope.ts, the binding check of adapter.ts).
THEOREM WrittenToThisAgent == Spec => []AddressedHere
  <1>1. Init => PassedInv
    BY DEF Init, PassedInv, CallsAdmitted, AcceptedPassed, Active
  <1>2. PassedInv => AddressedHere
    BY PassedIsAddressed DEF PassedInv
  <1> QED
    BY <1>1, <1>2, PassedNext, InductiveInvariant, PTL DEF Spec
=============================================================================
