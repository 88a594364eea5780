--------------------------- MODULE SealedDelivery ---------------------------
(***************************************************************************)
(* Delivery over blobs that are sealed envelopes: what receiveShare admits *)
(* and verifies is what Envelope opens, binds and verifies                 *)
(* (src/a2a-client/sealed-envelope.ts, envelope-binding.ts).  Peers of     *)
(* this version stamp what they seal with its recipient and kind; older    *)
(* ones sign it as it is.  Whoever has opened a blob seals its plaintext   *)
(* again, under any kind, nonce and outer name, or with a proof of their   *)
(* own.                                                                    *)
(***************************************************************************)
EXTENDS Delivery, Envelope

CONSTANTS
  Self,    \* this recipient's DID
  Sealed,  \* [Blob -> what is sealed in it]
  KeyOf,   \* [Did -> the key of its pin]
  Sent,    \* what peers of this version seal: body, recipient, kind, id
  Plain    \* the envelopes older peers have signed

\* What a peer of this version signs when it seals x.
Letter(x) == Stamp(Prepare(x.from, x.body, x.delegated, x.issuedAt), x.kind, x.to, x.id)

\* Nobody signs with a key they do not hold: a proof under a peer's key is over an
\* envelope that the peer has signed.
ASSUME SealedAssumption ==
  /\ Admitted = {b \in Blob : /\ Opens(Sealed[b], Self)
                              /\ SenderBound(Sealed[b])
                              /\ BindingHolds(Sealed[b], Self)}
  /\ Genuine = {b \in Blob : Verifies(Sealed[b], KeyOf[Sealed[b].envelope.from])}
  /\ \A t \in 0..MaxTime : FreshAt[t] = {b \in Blob : Fresh(Sealed[b].envelope, t)}
  /\ Bound = {MsgOf[b] : b \in {c \in Blob : Sealed[c].envelope.binding # {}}}
  /\ \A b, c \in Blob : MsgOf[b] = MsgOf[c] <=> Sealed[b].envelope = Sealed[c].envelope
  /\ \A b \in Blob : /\ NonceOf[b] = Sealed[b].nonce
                     /\ SenderOf[MsgOf[b]] = Sealed[b].envelope.from
  /\ \A b \in Blob : LET p == Sealed[b].proof IN
       p.key = KeyOf[p.signer] => p.over \in Plain \cup {Letter(x) : x \in Sent}
  /\ \A e \in Plain : e.binding = {}

\* "A recipient who opens the blob cannot re-seal the same signed envelope to
\* someone else" (src/a2a-client/sealed-envelope.ts:66): what is accepted under a
\* peer's name was sealed by that peer for this agent, as the kind it came under,
\* whoever sealed it again; an envelope without a binding is an older peer's, and
\* is no delegated command.
AddressedHere ==
  \A b \in Blob : accepted[b] # 0 =>
    LET e == Sealed[b].envelope IN
    \/ e \in Plain /\ ~ e.delegated
    \/ \E x \in Sent : e = Letter(x) /\ x.from = e.from /\ x.to = Self /\ x.kind = Sealed[b].kind
=============================================================================
