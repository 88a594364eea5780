SPECIFICATION RetrySpec
CONSTANTS
  Task = {t1, t2}
  Blob <- ReachingBlobs
  NoBlob = NoBlob
  Message <- TwoMessages
  Did <- MCDid
  Nonce <- MCNonce
  Record <- MCRecord
  MsgOf <- MCMsgOf
  NonceOf <- MCNonceOf
  SenderOf <- MCSenderOf
  RecordOf <- MCRecordOf
  Admitted <- MCAdmitted
  MaxTime = 1
  FreshAt <- MCFreshAt
  MaxAge = 0
  DelegatedMaxAge = 0
  FutureSkew = 0
  Genuine <- MCGenuine
  Self = "self"
  Sealed <- MCSealed
  KeyOf <- MCKeyOf
  Sent <- MCSent
  Plain <- MCPlain
  Bound <- MCBound
  Shares <- OneShare
INVARIANTS
  DeliveryInv
  AtMostOnce
  NothingBurnt
  AddressedHere
PROPERTIES
  ImplementsAcceptOnce
  ClaimsReleased
  EventuallyVerified
\* With every message consumed, or the sender retired, nothing is left to do.
CHECK_DEADLOCK FALSE
