CONSTANTS
  Curve = "X25519"
  SmallOrder = "small"
  Byte <- MCByte  Xor <- MCXor  ToBeBytes <- MCToBeBytes
  MaxSeq = 1  SeqLen = 8  NonceLen = 12  MaxNonceLen = 12
  Senders = {w1}  Receivers = {r1}
  Aad = {}  Plaintext = {}  TooLong = {}
  Absent = Absent  Damaged = Damaged  Nobody = Nobody
  KemId <- DhId
  KemEncap <- DhEncap  KemDecap <- DhDecap
  KemAuthEncap <- DhAuthEncap  KemAuthDecap <- DhAuthDecap
  EncFromBytes <- DhEncFromBytes
  PkBytes <- MCPkBytes  SkToPkBytes <- MCSkToPkBytes
  Modes = {"Base"}
  Suites <- BindingSuites
  Ephemerals = {"e1"}
  OfferedPks <- BindingPks  RecipientPks <- MCRecipientPks
  RecipientSks <- BindingRecipients
  SenderSks <- BindingSenders
  OfferedPkS <- BindingSenderPks  SenderPks <- MCSenderPks
  Infos = {"info1", "info2"}
  PskSecrets <- BindingSecrets  PskIds <- BindingIds
  ExporterContexts = {}  ExportLengths = {}  MaxExports = 0
  BaseNonceBytes <- MCBaseNonceBytes
  Tampered <- MCTampered  HighBitReceived = TRUE
  StrayEncs <- MontgomeryStray
  NoPsk = NoPsk  NoKey = NoKey
SPECIFICATION SessionSpec
INVARIANT EncapErrorOnlyFromSender
CHECK_DEADLOCK FALSE
