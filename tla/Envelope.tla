------------------------------ MODULE Envelope ------------------------------
(***************************************************************************)
(* Sealed envelopes (src/a2a-client/sealed-envelope.ts, seal.ts, sign.ts,  *)
(* envelope-binding.ts): what a sender signs and seals, and what a         *)
(* recipient checks before and after it resolves the sender's key.         *)
(*                                                                         *)
(* A signature is the envelope it is over and the key that made it, a      *)
(* sealed blob is its plaintext and the recipient bound into the           *)
(* ciphertext: nobody signs with a key they do not hold, and only the      *)
(* recipient opens a blob, but whoever has opened one may seal its         *)
(* plaintext again, to anybody and under any kind.                         *)
(***************************************************************************)
EXTENDS Integers

CONSTANTS
  MaxAge,           \* how old an envelope may be
  DelegatedMaxAge,  \* and one that carries a principal's command
  FutureSkew        \* how far ahead of the clock it may be dated

FriendsKinds == {"profile_share", "mission_share", "coordination", "message"}

\* An envelope before it is sealed: it has no binding (a caller that brings one
\* of its own is refused).
Prepare(from, body, delegated, issuedAt) ==
  [from |-> from, body |-> body, delegated |-> delegated,
   issuedAt |-> issuedAt, binding |-> {}]

\* The proof is over the envelope as it stands, its binding included.
SignEnvelope(e, signer, key) == [signer |-> signer, key |-> key, over |-> e]

\* The plaintext, sealed to one recipient, who is bound into the ciphertext.
SealTo(e, proof, kind, recipient, nonce) ==
  [to |-> recipient, nonce |-> nonce, envelope |-> e, proof |-> proof,
   kind |-> kind, recipient |-> recipient, signer |-> proof.signer]

\* The signed binding: recipient, kind and a fresh id.
Stamp(e, kind, recipient, id) ==
  [e EXCEPT !.binding = {[to |-> recipient, kind |-> kind, id |-> id]}]

\* Stamp; sign; seal.
SealEnvelope(e, key, kind, recipient, id, nonce) ==
  LET bound == Stamp(e, kind, recipient, id)
  IN  SealTo(bound, SignEnvelope(bound, e.from, key), kind, recipient, nonce)

-----------------------------------------------------------------------------
\* The ciphertext opens with self's key and address.
OpenSealed(b, self) == b.to = self

\* It does, and the plaintext names self and a kind friends knows.
Opens(b, self) ==
  /\ OpenSealed(b, self)
  /\ b.recipient = self
  /\ b.kind \in FriendsKinds

\* The unsigned outer name of the signer must be the signed sender.
SenderBound(b) == b.signer = b.envelope.from

\* MUTANT: only the kind of a binding is compared, not its recipient.
BindingForAnyone(b, self) ==
  IF b.envelope.binding = {}
  THEN ~ b.envelope.delegated
  ELSE \A x \in b.envelope.binding : x.kind = b.kind

\* The signed binding names this recipient and this kind.  An envelope without
\* one (an older sender) passes by default, unless it is a delegated command.
BindingHolds(b, self) ==
  IF b.envelope.binding = {}
  THEN ~ b.envelope.delegated
  ELSE \A x \in b.envelope.binding : x.to = self /\ x.kind = b.kind

\* checkFreshness, with the receiver's clock at now.
Fresh(e, now) ==
  /\ now - e.issuedAt <= (IF e.delegated THEN DelegatedMaxAge ELSE MaxAge)
  /\ e.issuedAt - now <= FutureSkew

\* The key made the proof, over this very envelope.
SignatureHolds(b, key) == b.proof.key = key /\ b.proof.over = b.envelope

\* And the proof names the signed sender, whose pinned key that is.
Verifies(b, key) == b.proof.signer = b.envelope.from /\ SignatureHolds(b, key)
=============================================================================
