CONSTANTS
  Curve = "NIST"
  SmallOrder = "small"
  Byte <- MCByte  Xor <- MCXor  ToBeBytes <- MCToBeBytes
  MaxSeq = 1  SeqLen = 8  NonceLen = 12  MaxNonceLen = 12
  Senders = {w1, w2}  Receivers = {r1, r2}
  Aad = {a1}  Plaintext = {p1, huge}  TooLong = {huge}
  Absent = Absent  Damaged = Damaged  Nobody = Nobody
  KemId <- DhId
  KemEncap <- DhEncap  KemDecap <- DhDecap
  KemAuthEncap <- DhAuthEncap  KemAuthDecap <- DhAuthDecap
  EncFromBytes <- DhEncFromBytes
  PkBytes <- MCPkBytes  SkToPkBytes <- MCSkToPkBytes
  Modes = {"Base"}
  Suites <- ChannelSuites
  Ephemerals = {"e1", "e2"}
  OfferedPks <- ChannelPks  RecipientPks <- MCRecipientPks
  RecipientSks <- ChannelRecipients
  SenderSks <- BindingSenders
  OfferedPkS <- BindingSenderPks  SenderPks <- MCSenderPks
  Infos = {"info1"}
  PskSecrets <- BindingSecrets  PskIds <- BindingIds
  ExporterContexts = {"x"}  ExportLengths = {32, 8161}  MaxExports = 1
  BaseNonceBytes <- MCBaseNonceBytes
  Tampered <- MCTampered  HighBitReceived = FALSE
  StrayEncs <- NistStray
  NoPsk = NoPsk  NoKey = NoKey
SPECIFICATION SessionSpec
PROPERTY ImplementsSession
CHECK_DEADLOCK FALSE
