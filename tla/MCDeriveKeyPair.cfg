CONSTANTS
  Kems = {"P256", "P521", "K256", "X25519", "X448", "MlKem768", "MlKem1024", "XWing"}
  Ikms = {"ikm1", "ikm2"}
  Callers = {p1, p2}
  MaxCounter = 4
  Unknown = Unknown
SPECIFICATION FairSpec
INVARIANT TypeOK
INVARIANT FirstCandidateWins
INVARIANT IInv
INVARIANT ReproducibleAndSeparate
PROPERTY ImplementsTable
PROPERTY EveryCallReturns
CHECK_DEADLOCK FALSE
