CONSTANTS
  Curve = "X25519"
  SmallOrder = "small"
  Byte <- MCByte  Xor <- MCXor  ToBeBytes <- MCToBeBytes
  MaxSeq = 2  SeqLen = 8  NonceLen = 12  MaxNonceLen = 12
  Senders = {w1, w2}  Receivers = {r1}
  Aad = {a1, a2}  Plaintext = {p1, huge}  TooLong = {huge}
  Absent = Absent  Damaged = Damaged  Nobody = Nobody
  KemId <- DhId
  KemEncap <- DhEncap  KemDecap <- DhDecap
  KemAuthEncap <- DhAuthEncap  KemAuthDecap <- DhAuthDecap
  EncFromBytes <- DhEncFromBytes
  PkBytes <- MCPkBytes  SkToPkBytes <- MCSkToPkBytes
  Modes = {"Base"}
  Suites <- ChannelSuites
  Ephemerals = {"e1", "e2"}
  OfferedPks <- ChannelPks  RecipientPks <- MCRecipientPks
  RecipientSks <- ChannelRecipients
  SenderSks <- BindingSenders
  OfferedPkS <- BindingSenderPks  SenderPks <- MCSenderPks
  Infos = {"info1"}
  PskSecrets <- BindingSecrets  PskIds <- BindingIds
  ExporterContexts = {}  ExportLengths = {}  MaxExports = 0
  BaseNonceBytes <- MCBaseNonceBytes
  Tampered <- MCTampered  HighBitReceived = TRUE
  StrayEncs <- MontgomeryStray
  NoPsk = NoPsk  NoKey = NoKey
SPECIFICATION Spec
INVARIANT TypeOK
INVARIANT NonceNeverReused
PROPERTY ImplementsChannel
CHECK_DEADLOCK FALSE
