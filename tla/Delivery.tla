------------------------------ MODULE Delivery ------------------------------
(***************************************************************************)
(* receiveShare (src/a2a-client/adapter.ts): deliveries of sealed blobs    *)
(* processed concurrently by one recipient.  A call is synchronous up to   *)
(* its first await (the replay checks and the in-flight claim), waits for  *)
(* the sender's DID to resolve, verifies and marks the durable ledger in   *)
(* one synchronous step, and hands a share to an importer, which reads the *)
(* stored record, awaits, and writes it back.                              *)
(*                                                                         *)
(* A blob is one ciphertext; several blobs may carry the same signed       *)
(* message (whoever opened it may seal it again), two blobs may share a    *)
(* seal nonce (a forgery that copies it).  What a blob holds, and which    *)
(* blobs open, verify and are fresh, is Envelope's.  The ledger and the    *)
(* store outlive the process; the in-flight set and the calls do not.      *)
(***************************************************************************)
EXTENDS Naturals, FiniteSets

CONSTANTS
  Task,      \* concurrent calls of receiveShare
  Blob,      \* sealed blobs that reach this recipient
  NoBlob,    \* "no blob": an idle task
  Message,   \* signed envelopes
  Did,       \* sender DIDs
  Nonce,     \* seal nonces
  Record,    \* records of the recipient's store
  MsgOf,     \* [Blob -> Message]
  NonceOf,   \* [Blob -> Nonce]
  SenderOf,  \* [Message -> Did]
  RecordOf,  \* [Message -> Record]: the record a share is merged into
  Admitted,  \* the blobs that open and whose sender and binding agree
  MaxTime,   \* the bound of the clock
  FreshAt,   \* [0..MaxTime -> SUBSET Blob]: the blobs fresh at that time
  Genuine,   \* the blobs whose proof verifies under the sender's key
  Bound,     \* the messages with a signed binding { to, kind, id }
  Shares     \* the messages an importer merges; the others are kind "message"

ASSUME DeliveryAssumption ==
  /\ NoBlob \notin Blob
  /\ MsgOf \in [Blob -> Message]
  /\ NonceOf \in [Blob -> Nonce]
  /\ SenderOf \in [Message -> Did]
  /\ RecordOf \in [Message -> Record]
  /\ Admitted \subseteq Blob
  /\ MaxTime \in Nat
  /\ FreshAt \in [0..MaxTime -> SUBSET Blob]
  /\ Genuine \subseteq Blob
  /\ Bound \subseteq Message
  /\ Shares \subseteq Message

VARIABLES
  seen,       \* the durable ledger: the keys marked
  inFlight,   \* the in-memory claims of the calls under way
  pc,         \* [Task -> where the call stands]
  cur,        \* [Task -> the blob it processes]
  trusted,    \* [Task -> trustOfSource passes the importer's trust floor]
  snap,       \* [Task -> what the importer read of the record]
  store,      \* [Record -> the messages merged into it]
  retired,    \* the DIDs whose pin is a tombstone
  now,        \* the recipient's clock
  accepted,   \* history: [Blob -> how often it was verified and handed on]
  verified,   \* history: the blobs whose signature a call verified
  completed   \* history: the blobs answered "completed"

vars == <<seen, inFlight, pc, cur, trusted, snap, store, retired, now,
          accepted, verified, completed>>

-----------------------------------------------------------------------------
(* Ledger keys.                                                            *)

BlobKey(b)  == <<"blob", b>>
IdKey(b)    == <<"mid", MsgOf[b]>>
NonceKey(b) == <<"nonce", NonceOf[b]>>

\* MUTANT: the binding id is not claimed, only the blob.
ClaimOmitsId(b) == {BlobKey(b)}

\* The keys a call claims before its first await.
ClaimOf(b) == {BlobKey(b)} \cup (IF MsgOf[b] \in Bound THEN {IdKey(b)} ELSE {})

Key == ({"blob"} \X Blob) \cup ({"mid"} \X Message) \cup ({"nonce"} \X Nonce)

Active(t) == pc[t] # "idle"

\* MUTANT: `finally` does not release the claim.
FinishKeepsClaim(t) ==
  /\ pc' = [pc EXCEPT ![t] = "idle"]
  /\ cur' = [cur EXCEPT ![t] = NoBlob]
  /\ trusted' = [trusted EXCEPT ![t] = FALSE]
  /\ snap' = [snap EXCEPT ![t] = {}]
  /\ UNCHANGED inFlight

\* `finally`: the claim is released on every exit, and the call is over.
Finish(t) ==
  /\ inFlight' = inFlight \ ClaimOf(cur[t])
  /\ pc' = [pc EXCEPT ![t] = "idle"]
  /\ cur' = [cur EXCEPT ![t] = NoBlob]
  /\ trusted' = [trusted EXCEPT ![t] = FALSE]
  /\ snap' = [snap EXCEPT ![t] = {}]

Goto(t, label) ==
  /\ pc' = [pc EXCEPT ![t] = label]
  /\ UNCHANGED <<inFlight, cur, trusted>>

history == <<accepted, verified, completed>>

-----------------------------------------------------------------------------
TypeOK ==
  /\ seen \subseteq Key
  /\ inFlight \subseteq Key
  /\ pc \in [Task -> {"idle", "resolving", "resolved", "importing", "writing"}]
  /\ cur \in [Task -> Blob \cup {NoBlob}]
  /\ trusted \in [Task -> BOOLEAN]
  /\ snap \in [Task -> SUBSET Message]
  /\ store \in [Record -> SUBSET Message]
  /\ retired \subseteq Did
  /\ now \in 0..MaxTime
  /\ accepted \in [Blob -> Nat]
  /\ verified \subseteq Blob
  /\ completed \subseteq Blob

Init ==
  /\ seen = {}
  /\ inFlight = {}
  /\ pc = [t \in Task |-> "idle"]
  /\ cur = [t \in Task |-> NoBlob]
  /\ trusted = [t \in Task |-> FALSE]
  /\ snap = [t \in Task |-> {}]
  /\ store = [r \in Record |-> {}]
  /\ retired = {}
  /\ now = 0
  /\ accepted = [b \in Blob |-> 0]
  /\ verified = {}
  /\ completed = {}

-----------------------------------------------------------------------------
(* The synchronous prefix.                                                 *)

\* Not "replayed": neither the bare nonce (a legacy entry), nor the blob, nor
\* the signed id is in the ledger.
NotSeen(b) == seen \cap (ClaimOf(b) \cup {NonceKey(b)}) = {}

\* MUTANT: parallel duplicates are not held back.
NotInFlightDropped(b) == TRUE

\* Not "in_flight": no other call holds one of the claims.
NotInFlight(b) == inFlight \cap ClaimOf(b) = {}

\* MUTANT: the keys go to the durable ledger as soon as they are claimed.
ReceiveMarksEarly(t, b) ==
  /\ ~ Active(t)
  /\ b \in Admitted
  /\ NotSeen(b)
  /\ b \in FreshAt[now]
  /\ NotInFlight(b)
  /\ seen' = seen \cup ClaimOf(b)
  /\ inFlight' = inFlight \cup ClaimOf(b)
  /\ pc' = [pc EXCEPT ![t] = "resolving"]
  /\ cur' = [cur EXCEPT ![t] = b]
  /\ trusted' = [trusted EXCEPT ![t] = TRUE]
  /\ UNCHANGED <<snap, store, retired, now, history>>

\* A call gets past every check before the first await, a tombstoned sender
\* included (adapter.ts:236), and claims its keys.  A call that fails one of
\* them changes nothing and is not an action.
Receive(t, b) ==
  /\ ~ Active(t)
  /\ b \in Admitted
  /\ NotSeen(b)
  /\ b \in FreshAt[now]
  /\ NotInFlight(b)
  /\ SenderOf[MsgOf[b]] \notin retired
  /\ inFlight' = inFlight \cup ClaimOf(b)
  /\ pc' = [pc EXCEPT ![t] = "resolving"]
  /\ cur' = [cur EXCEPT ![t] = b]
  /\ \E floor \in BOOLEAN : trusted' = [trusted EXCEPT ![t] = floor]
  /\ UNCHANGED <<seen, snap, store, retired, now, history>>

-----------------------------------------------------------------------------
(* resolveAndPin is the host's: it answers null or throws, or answers the  *)
(* key of a pin that is live at that moment.                               *)

Resolve(t) ==
  /\ pc[t] = "resolving"
  /\ SenderOf[MsgOf[cur[t]]] \notin retired
  /\ Goto(t, "resolved")
  /\ UNCHANGED <<seen, snap, store, retired, now, history>>

ResolveFails(t) ==
  /\ pc[t] = "resolving"
  /\ Finish(t)
  /\ UNCHANGED <<seen, store, retired, now, history>>

-----------------------------------------------------------------------------
(* The continuation after the await, up to the importer's first await.     *)

\* bad_signature, or untrusted_source from an importer whose verifier said no.
VerifyFails(t) ==
  /\ pc[t] = "resolved"
  /\ cur[t] \notin Genuine
  /\ Finish(t)
  /\ UNCHANGED <<seen, store, retired, now, history>>

\* MUTANT: only the blob and the bare nonce are marked, not the signed id.
MarkOmitsId(b) == seen' = seen \cup {BlobKey(b), NonceKey(b)}

\* Every claimed key, then the bare nonce (the downgrade guard).
MarkAll(b) == seen' = seen \cup ClaimOf(b) \cup {NonceKey(b)}

\* The signature verifies and the trust floor refuses: the message is consumed.
VerifiedButUntrusted(t) ==
  /\ pc[t] = "resolved"
  /\ cur[t] \in Genuine
  /\ ~ trusted[t]
  /\ MarkAll(cur[t])
  /\ verified' = verified \cup {cur[t]}
  /\ Finish(t)
  /\ UNCHANGED <<store, retired, now, accepted, completed>>

\* A conversational message imports nothing: it is handed to the recipient.
AcceptMessage(t) ==
  /\ pc[t] = "resolved"
  /\ cur[t] \in Genuine
  /\ trusted[t]
  /\ MsgOf[cur[t]] \notin Shares
  /\ MarkAll(cur[t])
  /\ verified' = verified \cup {cur[t]}
  /\ accepted' = [accepted EXCEPT ![cur[t]] = @ + 1]
  /\ completed' = completed \cup {cur[t]}
  /\ Finish(t)
  /\ UNCHANGED <<store, retired, now>>

\* A share passes the importer's gates; the importer awaits its store read.
AcceptShare(t) ==
  /\ pc[t] = "resolved"
  /\ cur[t] \in Genuine
  /\ trusted[t]
  /\ MsgOf[cur[t]] \in Shares
  /\ MarkAll(cur[t])
  /\ verified' = verified \cup {cur[t]}
  /\ accepted' = [accepted EXCEPT ![cur[t]] = @ + 1]
  /\ Goto(t, "importing")
  /\ UNCHANGED <<snap, store, retired, now, completed>>

\* A durable write of the ledger throws after the first keys were marked: the
\* verifier throws, nothing is imported, `finally` releases the claim.
MarkFails(t) ==
  /\ pc[t] = "resolved"
  /\ cur[t] \in Genuine
  /\ LET b == cur[t] IN
       \E marked \in {{}, {BlobKey(b)}, ClaimOf(b)} : seen' = seen \cup marked
  /\ verified' = verified \cup {cur[t]}
  /\ Finish(t)
  /\ UNCHANGED <<store, retired, now, accepted, completed>>

-----------------------------------------------------------------------------
(* The importer: read, await, write.                                       *)

ReadRecord(t) ==
  /\ pc[t] = "importing"
  /\ snap' = [snap EXCEPT ![t] = store[RecordOf[MsgOf[cur[t]]]]]
  /\ Goto(t, "writing")
  /\ UNCHANGED <<seen, store, retired, now, history>>

\* The record written back: what was read, with the message merged in.
WriteBack(t) == snap[t] \cup {MsgOf[cur[t]]}

PutRecord(t) ==
  /\ pc[t] = "writing"
  /\ store' = [store EXCEPT ![RecordOf[MsgOf[cur[t]]]] = WriteBack(t)]
  /\ completed' = completed \cup {cur[t]}
  /\ Finish(t)
  /\ UNCHANGED <<seen, retired, now, accepted, verified>>

\* The importer refuses after its read (no such mission, untrusted
\* introduction) or the store throws: import_failed, or a throw.
ImportFails(t) ==
  /\ pc[t] \in {"importing", "writing"}
  /\ Finish(t)
  /\ UNCHANGED <<seen, store, retired, now, history>>

-----------------------------------------------------------------------------
(* The environment.                                                        *)

\* evaluateRotation accepts a move away from d elsewhere in the process.
Retire(d) ==
  /\ d \notin retired
  /\ retired' = retired \cup {d}
  /\ UNCHANGED <<seen, inFlight, pc, cur, trusted, snap, store, now, history>>

\* Time passes: an envelope grows too old, or stops being dated ahead.
Tick ==
  /\ now < MaxTime
  /\ now' = now + 1
  /\ UNCHANGED <<seen, inFlight, pc, cur, trusted, snap, store, retired, history>>

\* The process stops and starts again: the calls and the in-flight set are
\* lost, the ledger, the pins and the store are not.
Crash ==
  /\ \E t \in Task : Active(t)
  /\ inFlight' = {}
  /\ pc' = [t \in Task |-> "idle"]
  /\ cur' = [t \in Task |-> NoBlob]
  /\ trusted' = [t \in Task |-> FALSE]
  /\ snap' = [t \in Task |-> {}]
  /\ UNCHANGED <<seen, store, retired, now, history>>

-----------------------------------------------------------------------------
Step(t) ==
  \/ Resolve(t)
  \/ ResolveFails(t)
  \/ VerifyFails(t)
  \/ VerifiedButUntrusted(t)
  \/ AcceptMessage(t)
  \/ AcceptShare(t)
  \/ MarkFails(t)
  \/ ReadRecord(t)
  \/ PutRecord(t)
  \/ ImportFails(t)

Next ==
  \/ \E t \in Task, b \in Blob : Receive(t, b)
  \/ \E t \in Task : Step(t)
  \/ \E d \in Did : Retire(d)
  \/ Crash
  \/ Tick

Spec == Init /\ [][Next]_vars

\* A call under way takes its next step: its awaits settle (a promise resolves
\* or rejects), whatever the answer.
FairSpec == Spec /\ \A t \in Task : WF_vars(Step(t))

\* The ways a message is sealed.
Copies(m) == {b \in Genuine \cap Admitted : MsgOf[b] = m}

\* What the peers must do for a message to get through: a message that may be
\* received again and again is delivered again, as the same blob or sealed
\* afresh (the relay or the sender retries), its resolution does not fail for ever, and the process does not
\* crash for ever in the step between the resolution and the ledger.
RetrySpec ==
  /\ FairSpec
  /\ \A m \in {MsgOf[b] : b \in Genuine \cap Admitted} :
       /\ SF_vars(\E t \in Task, b \in Copies(m) : Receive(t, b))
       /\ SF_vars(\E t \in Task : cur[t] \in Copies(m) /\ Resolve(t))
       /\ SF_vars(\E t \in Task : cur[t] \in Copies(m) /\ pc[t] = "resolved" /\ Step(t))

-----------------------------------------------------------------------------
(* Properties.                                                             *)

\* Two blobs are the same delivery when they carry the same bound message, or
\* are the same ciphertext.
IdentityOf ==
  [b \in Blob |-> IF MsgOf[b] \in Bound THEN IdKey(b) ELSE BlobKey(b)]

\* Replay protection: whatever is duplicated, resealed, retried or crashed, and
\* however the calls interleave, of the blobs with one identity at most one is
\* accepted, and it is accepted once (receiveShare's doc comment).
AtMostOnce ==
  \A b, c \in Blob :
    /\ accepted[b] <= 1
    /\ b # c /\ IdentityOf[b] = IdentityOf[c] => accepted[b] = 0 \/ accepted[c] = 0

\* "a failure BEFORE that ... leaves the message redeliverable and a forged blob
\* cannot burn a real one": every ledger entry was put there by a delivery whose
\* signature verified.
NothingBurnt ==
  /\ verified \subseteq Genuine
  /\ \A k \in seen : \E b \in verified : k \in ClaimOf(b) \cup {NonceKey(b)}

\* The in-flight set holds the claims of the calls under way, each of one call
\* only, and nothing else: no claim outlives its call.
ClaimsMatchCalls ==
  /\ \A t \in Task : Active(t) => ClaimOf(cur[t]) \subseteq inFlight
  /\ \A k \in inFlight : \E t \in Task : Active(t) /\ k \in ClaimOf(cur[t])
  /\ \A t, u \in Task :
       t # u /\ Active(t) /\ Active(u) => ClaimOf(cur[t]) \cap ClaimOf(cur[u]) = {}

\* The inductive invariant behind AtMostOnce.  The checks of the synchronous
\* prefix go stale at the await; what carries them over is that the claims of a
\* call that has not verified yet stay out of the ledger, because only the call
\* that holds a claim can mark it.
CallsHaveBlobs == \A t \in Task : Active(t) <=> cur[t] \in Blob

UnverifiedUnseen ==
  \A t \in Task :
    pc[t] \in {"resolving", "resolved"} => ClaimOf(cur[t]) \cap seen = {}

AcceptedSeen ==
  \A b \in Blob : accepted[b] # 0 => accepted[b] = 1 /\ ClaimOf(b) \subseteq seen

DeliveryInv ==
  /\ TypeOK
  /\ CallsHaveBlobs
  /\ ClaimsMatchCalls
  /\ UnverifiedUnseen
  /\ AcceptedSeen
  /\ AtMostOnce

\* With one delivery identity taken as one step, the code is AcceptOnce.
Abstract == INSTANCE AcceptOnce
ImplementsAcceptOnce == Abstract!Spec

\* A share answered "completed" is in the record it was merged into: no other
\* delivery's write-back has dropped it (the coordination log is "append-only",
\* src/coordination.ts:84).  Holds when deliveries are processed one at a time.
NoLostImport ==
  \A b \in completed : MsgOf[b] \in Shares => MsgOf[b] \in store[RecordOf[MsgOf[b]]]

\* A signature is accepted only while the sender's pin is live: a tombstoned key
\* "cannot verify anything" (src/a2a-client/did-verifier.ts:32).
VerifiedAgainstLivePin ==
  [][\A b \in verified' \ verified : SenderOf[MsgOf[b]] \notin retired]_vars

\* A claim stops parallel duplicates only while its call runs: no key stays
\* "in_flight" for ever.
ClaimsReleased ==
  \A b \in Blob : BlobKey(b) \in inFlight ~> BlobKey(b) \notin inFlight

\* Failures, forgeries and crashes delay a genuine message and never lose it:
\* while the sender's pin is live and the message is fresh, some delivery of it
\* is verified in the end.
EventuallyVerified ==
  \A b \in Genuine \cap Admitted :
    b \in FreshAt[now] ~> \/ \E c \in verified : MsgOf[c] = MsgOf[b]
                         \/ SenderOf[MsgOf[b]] \in retired
                         \/ b \notin FreshAt[now]
=============================================================================
