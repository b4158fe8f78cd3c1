CONSTANTS
  Variant = "XWing"  ZeroSeed = "zero"
  Byte <- MCByte  Xor <- MCXor  ToBeBytes <- MCToBeBytes
  MaxSeq = 1  SeqLen = 8  NonceLen = 12  MaxNonceLen = 12
  Senders = {w1}  Receivers = {r1}
  Aad = {}  Plaintext = {}  TooLong = {}
  Absent = Absent  Damaged = Damaged  Nobody = Nobody
  KemId <- PqId
  KemEncap <- PqEncap  KemDecap <- PqDecap
  KemAuthEncap <- MCNoAuth  KemAuthDecap <- MCNoAuth
  EncFromBytes <- PqEncFromBytes
  PkBytes <- MCPkBytes  SkToPkBytes <- MCSkToPkBytes
  Modes = {"Base", "Psk"}
  Suites <- MCSuites
  Ephemerals = {"e1"}
  RecipientPks <- MCRecipientPks  RecipientSks <- MCRecipientSks
  SenderSks = {}  SenderPks = {}
  Infos = {"info1", "info2"}
  PskSecrets <- MCSecrets  PskIds <- MCIds
  ExporterContexts = {}  ExportLengths = {}  MaxExports = 0
  BaseNonceBytes <- MCBaseNonceBytes
  Tampered <- MCTampered
  StrayEncs <- MCStray
  NoPsk = NoPsk  NoKey = NoKey
SPECIFICATION SessionSpec
INVARIANT KeysBindTranscript
INVARIANT PeerCanFollow
INVARIANT ZeroizedKeyIsRefused
CHECK_DEADLOCK FALSE
