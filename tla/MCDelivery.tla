---------------------------- MODULE MCDelivery ----------------------------
(***************************************************************************)
(* Instances of SealedDelivery.  One peer wrote share1, share2 and copy with this version, text   *)
(* with an older one that signs no binding; copy was written to somebody   *)
(* else.  w1 and w2 are share1 as it was sealed and sealed once more, w3   *)
(* is share2 for the same record, w4 text, fz a forgery of share1 under    *)
(* the nonce of w1; cc is the copy its recipient sealed again to this      *)
(* agent, and kk is share1 sealed again under another kind.                *)
(***************************************************************************)
EXTENDS SealedDelivery

AllBlobs     == {"w1", "w2", "w3", "fz"}
ReachingBlobs    == {"w1", "w2", "w4", "fz", "cc", "kk"}
RetiredBlobs == {"w1", "w4", "fz"}

MCMessage   == {"share1", "share2", "text", "copy"}
TwoMessages == {"share1", "text", "copy"}
OneShare    == {"share1", "copy"}
MCShares    == {"share1", "share2", "copy"}
MCNonce     == {"n1", "n2", "n3"}
MCRecord    == {"mission"}
MCDid       == {"peer"}
MCRecordOf  == [m \in Message |-> "mission"]

Draft(body) == Prepare("peer", body, FALSE, 0)
Again(b, kind, nonce) == SealTo(b.envelope, b.proof, kind, Self, nonce)

Share1 == SealEnvelope(Draft("share1"), "key", "coordination", Self, "id1", "n1")
Copy   == SealEnvelope(Draft("copy"), "key", "coordination", "other", "id2", "n2")

Sealing ==
  [w1 |-> Share1,
   w2 |-> Again(Share1, "coordination", "n2"),
   w3 |-> SealEnvelope(Draft("share2"), "key", "coordination", Self, "id3", "n3"),
   w4 |-> LET e == Prepare("peer", "text", FALSE, 1)
          IN  SealTo(e, SignEnvelope(e, "peer", "key"), "message", Self, "n3"),
   fz |-> SealTo(Share1.envelope, SignEnvelope(Share1.envelope, "peer", "none"),
                 "coordination", Self, "n1"),
   cc |-> Again(Copy, "coordination", "n2"),
   kk |-> Again(Share1, "message", "n2")]

MCSealed == [b \in Blob |-> Sealing[b]]

\* Under the peer's key: three bound envelopes, of which copy was for somebody else,
\* and the older one's.
MCKeyOf == [d \in Did |-> "key"]
MCSent  ==
  {[from |-> "peer", body |-> x[1], delegated |-> FALSE, issuedAt |-> 0, kind |-> "coordination", to |-> x[2], id |-> x[3]] :
     x \in {<<"share1", Self, "id1">>, <<"copy", "other", "id2">>, <<"share2", Self, "id3">>}}
MCPlain == {Prepare("peer", "text", FALSE, 1)}

MCMsgOf    == [b \in Blob |-> Sealed[b].envelope.body]
MCNonceOf  == [b \in Blob |-> Sealed[b].nonce]
MCSenderOf == [m \in Message |-> "peer"]
MCAdmitted ==
  {b \in Blob : /\ Opens(Sealed[b], Self)
                /\ SenderBound(Sealed[b])
                /\ BindingHolds(Sealed[b], Self)}
MCFreshAt  == [t \in 0..MaxTime |-> {b \in Blob : Fresh(Sealed[b].envelope, t)}]
MCGenuine  == {b \in Blob : Verifies(Sealed[b], "key")}
MCBound    == {MCMsgOf[b] : b \in {c \in Blob : Sealed[c].envelope.binding # {}}}
=============================================================================
