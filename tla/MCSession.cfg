CONSTANTS
  Byte <- MCByte  Xor <- MCXor  ToBeBytes <- MCToBeBytes
  MaxSeq = 3  SeqLen = 2  NonceLen = 3  MaxNonceLen = 4
  Senders = {w1, w2}
  Receivers = {r1}
  AeadKey = {k1, k2}
  Aad = {a1, a2}
  Plaintext = {p1, huge}
  TooLong = {huge}
  Absent = Absent  Damaged = Damaged  Nobody = Nobody
  BaseNonce <- MCBaseNonce
  SetupErrors = {"EncapError"}
SPECIFICATION FairSpec
INVARIANT TypeOK
INVARIANT NonceNeverReused
INVARIANT OpenedInOrder
INVARIANT LimitIsExact
INVARIANT IInv
PROPERTY ImplementsChannel
PROPERTY EverythingIsOpened
