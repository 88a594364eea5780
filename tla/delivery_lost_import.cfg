SPECIFICATION Spec
CONSTANTS
  Task = {t1, t2}
  Blob <- AllBlobs
  NoBlob = NoBlob
  Message <- MCMessage
  Did <- MCDid
  Nonce <- MCNonce
  Record <- MCRecord
  MsgOf <- MCMsgOf
  NonceOf <- MCNonceOf
  SenderOf <- MCSenderOf
  RecordOf <- MCRecordOf
  Admitted <- MCAdmitted
  MaxTime = 0
  FreshAt <- MCFreshAt
  MaxAge = 0
  DelegatedMaxAge = 0
  FutureSkew = 0
  Genuine <- MCGenuine
  Self = "self"
  Sealed <- MCSealed
  KeyOf <- MCKeyOf
  Sent <- MCSent
  Plain <- MCPlain
  Bound <- MCBound
  Shares <- MCShares
INVARIANT
  NoLostImport
\* With every message consumed, or the sender retired, nothing is left to do.
CHECK_DEADLOCK FALSE
