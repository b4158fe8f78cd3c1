CONSTANTS
  Curve = "X25519"
  SmallOrder = "small"
  Byte <- MCByte  Xor <- MCXor  ToBeBytes <- MCToBeBytes
  MaxSeq = 1  SeqLen = 8  NonceLen = 12  MaxNonceLen = 12
  Senders = {w1}  Receivers = {r1}
  Aad = {}  Plaintext = {}  TooLong = {}
  Absent = Absent  Damaged = Damaged  Nobody = Nobody
  KemId <- DhId
  KemEncap <- DhEncap  KemDecap <- DhDecap
  KemAuthEncap <- DhAuthEncap  KemAuthDecap <- DhAuthDecap
  EncFromBytes <- DhEncFromBytes
  PkBytes <- MCPkBytes  SkToPkBytes <- MCSkToPkBytes
  Modes = {"Base"}
  Suites <- ExportSuites
  Ephemerals = {"e1"}
  OfferedPks <- ChannelPks  RecipientPks <- MCRecipientPks
  RecipientSks <- ChannelRecipients
  SenderSks <- BindingSenders
  OfferedPkS <- BindingSenderPks  SenderPks <- MCSenderPks
  Infos = {"info1"}
  PskSecrets <- ExportSecrets  PskIds <- ExportIds
  ExporterContexts = {"", "x"}  ExportLengths = {0, 32, 8160, 8161, 16320, 16321, 65536}  MaxExports = 2
  BaseNonceBytes <- MCBaseNonceBytes
  Tampered <- MCTampered  HighBitReceived = TRUE
  StrayEncs <- MontgomeryStray
  NoPsk = NoPsk  NoKey = NoKey
SPECIFICATION Spec
INVARIANT ExportsSeparate
INVARIANT ExportLimitIsExact
CHECK_DEADLOCK FALSE
