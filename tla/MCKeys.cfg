CONSTANTS
  Kems = {"X25519", "X448", "NIST", "XWing", "MlKem768"}
  AuthKems <- MCCurves
  SmallOrder = "small"  ZeroSeed = "zero"
  Generate <- MCGenerate  DerivePair <- MCDerivePair
  SkFromBytes <- MCSkFromBytes  SkToBytes <- MCSkToBytes
  Zeroize <- MCZeroize  PkFromBytes <- MCPkFromBytes
  Encap <- MCEncap  AuthEncap <- MCAuthEncap
  Decap <- MCDecap  AuthDecap <- MCAuthDecap
  Foreign <- MCForeign
  Slots = {s1, s2}  Seeds = {a, b}  Ikms = {"i"}  Coins = {"e"}
  Nobody = Nobody  Absent = Absent
SPECIFICATION Spec
INVARIANT OwnersRecover
INVARIANT OthersDoNot
INVARIANT OneStoredForm
INVARIANT IInv
INVARIANT NobodysAreDead
SYMMETRY NameSymmetry
